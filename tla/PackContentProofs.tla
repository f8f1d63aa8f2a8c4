------------------------- MODULE PackContentProofs --------------------------
(***************************************************************************)
(* Proofs about what packs bring. The files of flows are loaded, the steps *)
(* of a flow sorted, modifiers applied to it; packs are imported, their    *)
(* components, routes, words and functions registered, ordered and chosen; *)
(* each for any number of files, packs, steps, modifiers and terms. What   *)
(* is assumed of the constants is said in the modules that declare them    *)
(* and holds of the instances checked.                                     *)
(***************************************************************************)
EXTENDS FlowLoading, FlowModifiers, PackImport, FunctionRegistry, EcosystemRegistry,
        AddonPatches, SequenceTheorems, TLAPS

-----------------------------------------------------------------------------
(***************************************************************************)
(* FlowLoading.  What is loaded was found approved, one flow of each id,   *)
(* and an official or shared one where there is one.                       *)
(***************************************************************************)
IsFlow(f) == Files[f].kind = "flow"
OwnFile(f) == Files[f].from \in {"official", "shared"}
FromApproved(f) == Files[f].pack \in LoadPacks => Files[f].pack \in approvals

LoadedSound ==
    /\ \A p \in LoadPacks : asked[p] = "ok" => p \in approvals
    /\ \A f \in loaded : FromApproved(f) /\ (~IsFlow(f) => WildcardAllowed(Files[f]))
    /\ next # 0 => \A f \in loaded \cup offered : f < next

\* The flow that is loaded under an id, when files of it were there.
HoldersSound ==
    /\ \A f, h \in loaded : IsFlow(f) /\ IsFlow(h) /\ Files[f].id = Files[h].id => f = h
    /\ \A f \in offered : IsFlow(f) /\ Holders(Files[f].id) # {}
    /\ \A f \in offered : OwnFile(f) => \A h \in Holders(Files[f].id) : OwnFile(h)

EntriesSound == \A i \in FlowIds : LET e == registered[i] IN e.file # 0 =>
    /\ FromApproved(e.file) /\ \A f \in e.mods : FromApproved(f) /\ WildcardAllowed(Files[f])
    /\ next = 0 /\ ~OwnFile(e.file) => \A f \in offered : Files[f].id = i => ~OwnFile(f)

LoadInv == LoadTypeOK /\ LoadedSound /\ HoldersSound /\ EntriesSound

LEMMA LoadBegins == ASSUME LoadConstants PROVE LoadInit => LoadInv
<1>1. SUFFICES ASSUME LoadInit PROVE LoadInv
  OBVIOUS
<1>2. 0 \in 0..(Len(Files) + 1) /\ 0 \in 0..MaxLoads /\ 0 \in 0..Len(Files)
  BY DEF LoadConstants
<1>3. /\ verdict \in [LoadPacks -> {"ok", "hash_mismatch", "not_approved"}]
      /\ asked \in [LoadPacks -> {"ok", "no", "unasked"}]
      /\ registered \in [FlowIds -> [file : 0..Len(Files), mods : SUBSET DOMAIN Files]]
  BY <1>1, <1>2 DEF LoadInit, Unregistered
<1>4. LoadTypeOK
  BY <1>1, <1>2, <1>3 DEF LoadInit, LoadTypeOK
<1>5. LoadedSound /\ HoldersSound
  BY <1>1 DEF LoadInit, LoadedSound, HoldersSound
<1>6. EntriesSound
  BY <1>1 DEF LoadInit, EntriesSound, Unregistered
<1>7. QED BY <1>4, <1>5, <1>6 DEF LoadInv

\* While files are read the registry stays as it was.
LEMMA Reads ==
  ASSUME LoadConstants, LoadInv, next \in DOMAIN Files, NextFile
  PROVE  /\ next' \in 0..(Len(Files) + 1) /\ next' # 0 /\ next < next' /\ next \in Nat /\ next' \in Nat
         /\ asked' \in [LoadPacks -> {"ok", "no", "unasked"}]
         /\ \A p \in LoadPacks : asked'[p] = "ok" => p \in approvals
         /\ UNCHANGED <<verdict, registered, loads, approvals>>
         /\ EntriesSound'
<1>1. UNCHANGED <<verdict, registered, loads, approvals>> /\ next' = next + 1
      /\ asked' \in {[p \in LoadPacks |-> "unasked"], asked}
  BY DEF NextFile
<1>2. next' \in 0..(Len(Files) + 1) /\ next' # 0 /\ next < next' /\ next \in Nat /\ next' \in Nat
  BY <1>1 DEF LoadConstants
<1>3. EntriesSound'
  BY <1>1, <1>2 DEF LoadInv, EntriesSound, FromApproved
<1>4. QED BY <1>1, <1>2, <1>3 DEF LoadInv, LoadTypeOK, LoadedSound

LEMMA LoadSteps == ASSUME LoadConstants, LoadInv, [LoadNext]_loadVars PROVE LoadInv'
<1>0. LoadTypeOK /\ LoadedSound /\ HoldersSound /\ EntriesSound
  BY DEF LoadInv
<1>1. CASE UNCHANGED loadVars
  BY <1>0, <1>1 DEF loadVars, LoadInv, LoadTypeOK, LoadedSound, HoldersSound, EntriesSound, FromApproved, Holders
<1>2. CASE LoadAll
  <2>1. /\ next' = 1 /\ loads' \in 0..MaxLoads /\ loaded' = {} /\ offered' = {}
        /\ asked' = [p \in LoadPacks |-> "unasked"]
        /\ UNCHANGED <<verdict, registered, approvals>>
    BY <1>0, <1>2 DEF LoadAll, LoadTypeOK, LoadConstants
  <2>2. LoadTypeOK'
    BY <1>0, <2>1 DEF LoadTypeOK, LoadConstants
  <2>3. QED BY <1>0, <2>1, <2>2 DEF LoadInv, LoadedSound, HoldersSound, EntriesSound, FromApproved
<1>3. CASE CheckPackApproval
  <2>1. PICK p \in LoadPacks : p = Files[next].pack
    BY <1>3 DEF CheckPackApproval, Asks
  <2>2. /\ asked' = [asked EXCEPT ![p] = IF verdict[p] = "ok" THEN "ok" ELSE "no"]
        /\ verdict' = [verdict EXCEPT ![p] = IF @ = "hash_mismatch" THEN "not_approved" ELSE @]
        /\ approvals' = IF verdict[p] = "ok" THEN approvals \cup {p} ELSE approvals
        /\ UNCHANGED <<next, loaded, registered, offered, loads>>
    BY <1>3, <2>1 DEF CheckPackApproval
  <2>3. /\ asked' \in [LoadPacks -> {"ok", "no", "unasked"}] /\ approvals' \subseteq LoadPacks
        /\ verdict' \in [LoadPacks -> {"ok", "hash_mismatch", "not_approved"}]
        /\ approvals \subseteq approvals' /\ \A q \in LoadPacks : asked'[q] = "ok" => q \in approvals'
    BY <1>0, <2>1, <2>2 DEF LoadTypeOK, LoadedSound
  <2>4. LoadTypeOK'
    BY <1>0, <2>2, <2>3 DEF LoadTypeOK
  <2>5. LoadedSound' /\ HoldersSound'
    BY <1>0, <2>2, <2>3 DEF LoadedSound, HoldersSound, FromApproved, Holders
  <2>6. EntriesSound'
    BY <1>0, <2>2, <2>3 DEF EntriesSound, FromApproved
  <2>7. QED BY <2>4, <2>5, <2>6 DEF LoadInv
<1>4. CASE SkipFile
  <2>1. next \in DOMAIN Files /\ NextFile /\ UNCHANGED <<loaded, offered>>
    BY <1>4 DEF SkipFile
  <2>2. LoadTypeOK' /\ HoldersSound'
    BY <1>0, <2>1, Reads DEF LoadTypeOK, HoldersSound, Holders
  <2>3. LoadedSound'
    <3>1. \A f \in loaded \cup offered : f < next' 
      BY <1>0, <2>1, Reads DEF LoadedSound, LoadTypeOK, LoadConstants
    <3>2. QED BY <1>0, <2>1, <3>1, Reads DEF LoadedSound, FromApproved
  <2>4. QED BY <2>1, <2>2, <2>3, Reads DEF LoadInv
<1>5. CASE LoadFlowFile
  <2>0. PICK i : i = Files[next].id
    OBVIOUS
  <2>1. /\ next \in DOMAIN Files /\ IsFlow(next) /\ Approved(Files[next]) /\ NextFile /\ offered' = offered \cup {next}
        /\ loaded' = IF \E h \in Holders(i) : Files[h].from \in Stronger(Files[next].from)
                     THEN loaded ELSE (loaded \ Holders(i)) \cup {next}
    BY <1>5, <2>0 DEF LoadFlowFile, Reading, IsFlow
  <2>2. next # 0 /\ \A f \in loaded \cup offered : f < next /\ f \in DOMAIN Files
    BY <1>0, <2>1 DEF LoadConstants, LoadedSound, LoadTypeOK
  <2>3. \A f \in loaded' : f \in loaded \/ f = next
    BY <2>1
  <2>4. LoadTypeOK'
    BY <1>0, <2>1, <2>3, Reads DEF LoadTypeOK
  <2>5. LoadedSound'
    <3>1. FromApproved(next)
      BY <1>0, <2>1 DEF Approved, FromApproved, LoadedSound
    <3>2. \A f \in loaded' \cup offered' : f < next'
      <4>1. \A f \in DOMAIN Files : f \in Nat
        BY DEF LoadConstants
      <4>2. QED BY <2>1, <2>2, <2>3, <4>1, Reads
    <3>3. QED BY <1>0, <2>1, <2>3, <3>1, <3>2, Reads DEF LoadedSound, FromApproved, IsFlow
  <2>6. HoldersSound'
    <3>1. ASSUME NEW h \in Holders(i), Files[h].from \in Stronger(Files[next].from) PROVE HoldersSound'
      <4>1. loaded' = loaded /\ h \in loaded /\ IsFlow(h) /\ Files[h].id = i
        BY <2>1, <3>1 DEF Holders, IsFlow
      <4>2. \A j : Holders(j)' = Holders(j)
        BY <4>1 DEF Holders
      <4>3. \A g \in Holders(i) : g = h
        BY <1>0, <4>1 DEF HoldersSound, Holders, IsFlow
      <4>4. OwnFile(next) => OwnFile(h)
        BY <2>0, <2>1, <2>2, <4>1 DEF LoadConstants, IsFlow, OwnFile
      <4>5. \A f \in offered' : IsFlow(f) /\ Holders(Files[f].id) # {}
        BY <1>0, <2>0, <2>1, <3>1 DEF HoldersSound
      <4>6. \A f \in offered' : OwnFile(f) => \A g \in Holders(Files[f].id) : OwnFile(g)
        BY <1>0, <2>0, <2>1, <4>3, <4>4 DEF HoldersSound
      <4>7. QED BY <1>0, <4>1, <4>2, <4>5, <4>6 DEF HoldersSound
    <3>2. CASE ~ \E h \in Holders(i) : Files[h].from \in Stronger(Files[next].from)
      <4>1. loaded' = (loaded \ Holders(i)) \cup {next}
        BY <2>1, <3>2
      <4>2. \A f \in loaded' : IsFlow(f) /\ Files[f].id = i => f = next
        BY <4>1 DEF Holders, IsFlow
      <4>3. Holders(i)' = {next}
        BY <2>0, <2>1, <4>1, <4>2 DEF Holders, IsFlow
      <4>4. \A j : j # i => Holders(j)' = Holders(j)
        BY <2>0, <4>1 DEF Holders
      <4>5. \A f \in offered : Files[f].id = i /\ OwnFile(f) => OwnFile(next)
        <5>1. SUFFICES ASSUME NEW f \in offered, Files[f].id = i, OwnFile(f), ~OwnFile(next) PROVE FALSE
          OBVIOUS
        <5>2. PICK h \in Holders(i) : OwnFile(h)
          BY <1>0, <5>1 DEF HoldersSound
        <5>3. Files[next].from \in {"pack", "local_pack"}
          BY <2>1, <5>1 DEF LoadConstants, OwnFile
        <5>4. {"official", "shared"} \subseteq Stronger(Files[next].from)
          BY <5>3 DEF Stronger
        <5>5. QED BY <3>2, <5>2, <5>4 DEF OwnFile
      <4>6. \A f, h \in loaded' : IsFlow(f) /\ IsFlow(h) /\ Files[f].id = Files[h].id => f = h
        BY <1>0, <2>0, <4>1, <4>2 DEF HoldersSound
      <4>7. \A f \in offered' : IsFlow(f) /\ Holders(Files[f].id)' # {}
        BY <1>0, <2>0, <2>1, <4>3, <4>4 DEF HoldersSound
      <4>8. \A f \in offered' : OwnFile(f) => \A h \in Holders(Files[f].id)' : OwnFile(h)
        BY <1>0, <2>0, <2>1, <4>3, <4>4, <4>5 DEF HoldersSound
      <4>9. QED BY <4>6, <4>7, <4>8 DEF HoldersSound
    <3>3. QED BY <3>1, <3>2
  <2>7. QED BY <2>1, <2>4, <2>5, <2>6, Reads DEF LoadInv
<1>6. CASE LoadModifierFile
  <2>1. /\ next \in DOMAIN Files /\ ~IsFlow(next) /\ Approved(Files[next]) /\ NextFile /\ UNCHANGED offered
        /\ loaded' = IF WildcardAllowed(Files[next]) THEN loaded \cup {next} ELSE loaded
    BY <1>6 DEF LoadModifierFile, Reading, IsFlow
  <2>2. LoadTypeOK'
    BY <1>0, <2>1, Reads DEF LoadTypeOK
  <2>3. LoadedSound'
    <3>1. FromApproved(next)
      BY <1>0, <2>1 DEF Approved, FromApproved, LoadedSound
    <3>2. \A f \in loaded' \cup offered' : f < next'
      <4>1. \A f \in DOMAIN Files : f \in Nat
        BY DEF LoadConstants
      <4>2. next # 0 /\ \A f \in loaded \cup offered : f < next /\ f \in DOMAIN Files
        BY <1>0, <2>1 DEF LoadConstants, LoadedSound, LoadTypeOK
      <4>3. QED BY <2>1, <4>1, <4>2, Reads
    <3>3. QED BY <1>0, <2>1, <3>1, <3>2, Reads DEF LoadedSound, FromApproved, IsFlow
  <2>4. \A j : Holders(j)' = Holders(j)
    BY <2>1 DEF Holders, IsFlow
  <2>5. HoldersSound'
    BY <1>0, <2>1, <2>4 DEF HoldersSound
  <2>6. QED BY <2>1, <2>2, <2>3, <2>5, Reads DEF LoadInv
<1>7. CASE RegisterFlows
  <2>1. /\ next' = 0 /\ UNCHANGED <<verdict, asked, loaded, offered, loads, approvals>>
        /\ \A i \in FlowIds : registered'[i] = IF Holders(i) = {} THEN registered[i]
               ELSE [file |-> CHOOSE f \in Holders(i) : TRUE, mods |-> ModifiersFor(i)]
        /\ registered' \in [FlowIds -> [file : 0..Len(Files), mods : SUBSET DOMAIN Files]]
    <3>1. ASSUME NEW i \in FlowIds, Holders(i) # {}
          PROVE  [file |-> CHOOSE f \in Holders(i) : TRUE, mods |-> ModifiersFor(i)]
                   \in [file : 0..Len(Files), mods : SUBSET DOMAIN Files]
      <4>1. (CHOOSE f \in Holders(i) : TRUE) \in loaded
        BY <3>1 DEF Holders
      <4>2. ModifiersFor(i) \subseteq loaded /\ \A f \in loaded : f \in DOMAIN Files /\ f \in 0..Len(Files)
        BY <1>0 DEF ModifiersFor, LoadTypeOK, LoadConstants
      <4>3. QED BY <4>1, <4>2
    <3>2. QED BY <1>0, <1>7, <3>1 DEF RegisterFlows, LoadTypeOK
  <2>2. LoadTypeOK'
    BY <1>0, <2>1 DEF LoadTypeOK, LoadConstants
  <2>3. LoadedSound' /\ HoldersSound'
    BY <1>0, <2>1 DEF LoadedSound, HoldersSound, FromApproved, Holders
  <2>4. EntriesSound'
    <3>1. SUFFICES ASSUME NEW i \in FlowIds, registered'[i].file # 0
                   PROVE  LET e == registered'[i] IN
                          /\ FromApproved(e.file) /\ \A f \in e.mods : FromApproved(f) /\ WildcardAllowed(Files[f])
                          /\ ~OwnFile(e.file) => \A f \in offered : Files[f].id = i => ~OwnFile(f)
      BY <2>1 DEF EntriesSound, FromApproved
    <3>2. CASE Holders(i) = {}
      <4>1. \A f \in offered : Files[f].id # i
        BY <1>0, <3>2 DEF HoldersSound
      <4>2. QED BY <1>0, <2>1, <3>1, <3>2, <4>1 DEF EntriesSound
    <3>3. CASE Holders(i) # {}
      <4>1. PICK h \in Holders(i) : registered'[i] = [file |-> h, mods |-> ModifiersFor(i)]
        BY <2>1, <3>3
      <4>2. h \in loaded /\ \A f \in ModifiersFor(i) : f \in loaded /\ ~IsFlow(f)
        BY DEF Holders, ModifiersFor, IsFlow
      <4>3. FromApproved(h) /\ \A f \in ModifiersFor(i) : FromApproved(f) /\ WildcardAllowed(Files[f])
        BY <1>0, <4>2 DEF LoadedSound
      <4>4. ~OwnFile(h) => \A f \in offered : Files[f].id = i => ~OwnFile(f)
        BY <1>0, <4>1 DEF HoldersSound
      <4>5. QED BY <4>1, <4>3, <4>4
    <3>4. QED BY <3>2, <3>3
  <2>5. QED BY <2>2, <2>3, <2>4 DEF LoadInv
<1>8. ASSUME NEW p \in LoadPacks, NEW v \in {"ok", "hash_mismatch", "not_approved"}, PackChanges(p, v)
      PROVE  LoadInv'
  <2>1. /\ UNCHANGED <<next, asked, loaded, registered, offered, loads, approvals>>
        /\ verdict' \in [LoadPacks -> {"ok", "hash_mismatch", "not_approved"}]
    BY <1>0, <1>8 DEF PackChanges, LoadTypeOK
  <2>2. QED
    BY <1>0, <2>1 DEF LoadInv, LoadTypeOK, LoadedSound, HoldersSound, EntriesSound, FromApproved, Holders
<1>9. QED BY <1>1, <1>2, <1>3, <1>4, <1>5, <1>6, <1>7, <1>8 DEF LoadNext

LEMMA LoadMeans == LoadInv => FlowsAuthorised
BY DEF LoadInv, EntriesSound, FlowsAuthorised, FromApproved, OwnFile

\* FlowsAuthorised (flow_loader.py, flow_modifier_loader.py): packs whose flows and
\* modifiers are in force were found approved, none hides an official or shared
\* flow, and only those with the permission modify every flow, for any files.
THEOREM FlowsAreAuthorised == ASSUME LoadConstants PROVE LoadSpec => []FlowsAuthorised
BY LoadMeans, LoadBegins, LoadSteps, PTL DEF LoadSpec

-----------------------------------------------------------------------------
(***************************************************************************)
(* The order of a flow's steps. A round of the topological sort places the *)
(* steps that need only what is placed; when no step is ready, those that  *)
(* are left hold a cycle, and the phase is sorted without it.  A step is   *)
(* placed once for each time its phase is listed.                          *)
(***************************************************************************)
\* Of the steps S of a phase s has to come before t.
Required(S, s, t) ==
    \/ s \in flow[t].needs /\ s # t /\ ~Cyclic(S)
    \/ Before(s, t) /\ (Cyclic(S) \/ Independent(S))
RequiredNone(S, order) == \A m, n \in DOMAIN order : m < n => ~Required(S, order[n], order[m])

\* Of the steps placed, each with the turn that places it, p has to come before q.
Pairs == (DOMAIN Phases) \X StepIds
Precedes(p, q) == p[1] < q[1] \/ (p[1] = q[1] /\ Required(InPhase(p[1]), p[2], q[2]))
NothingRequired(order) == \A m, n \in DOMAIN order : m < n => ~Precedes(order[n], order[m])

NeedsPlaced(order, G) ==
    \A n \in DOMAIN order : \A s \in flow[order[n]].needs \cap G : \E m \in DOMAIN order : m < n /\ order[m] = s
Alphabetical(order) == \A m, n \in DOMAIN order : m < n => Before(order[m], order[n])
TopoUpTo(order, G) ==
    /\ order \in Seq(StepIds) /\ EachOnce(order) /\ ToSet(order) \subseteq G
    /\ NeedsPlaced(order, G)
    /\ Independent(G) => order = <<>> \/ (ToSet(order) = G /\ Alphabetical(order))

PlacedBefore(n) == {p \in Placements : p[1] < n}
StepsUpTo(order, n) ==
    /\ order \in Seq(Pairs) /\ EachOnce(order) /\ ToSet(order) = PlacedBefore(n)
    /\ NothingRequired(order)

SortInv ==
    /\ flow \in ParsedFlows /\ at \in 1..(Len(Phases) + 1)
    /\ TopoUpTo(topo, InPhase(at)) /\ StepsUpTo(steps, at)

LEMMA FlowIs ==
  ASSUME SortConstants, SortInv, NEW s \in StepIds
  PROVE  flow[s].priority \in Nat /\ s \in Nat
<1>1. flow \in [StepIds -> Parsed] /\ flow[s] \in Parsed
  BY DEF SortInv, ParsedFlows
<1>2. QED BY <1>1 DEF SortConstants

\* Priority and id put the steps in one order.
LEMMA BeforeIsTotal ==
  ASSUME SortConstants, SortInv, NEW S \in SUBSET StepIds, NEW R, R = {e \in S \X S : Before(e[1], e[2])}
  PROVE  TotalOn(S, R) /\ \A s, t \in S : <<s, t>> \in R <=> Before(s, t)
<1>1. \A s \in S : flow[s].priority \in Nat /\ s \in Nat
  BY FlowIs
<1>2. \A s, t \in S : <<s, t>> \in R <=> Before(s, t)
  OBVIOUS
<1>3. \A s \in S : ~(<<s, s>> \in R)
  BY <1>1, <1>2 DEF Before
<1>4. ASSUME NEW s \in S, NEW t \in S PROVE s = t \/ <<s, t>> \in R \/ <<t, s>> \in R
  <2>1. /\ s \in Nat /\ t \in Nat /\ flow[s].priority \in Nat /\ flow[t].priority \in Nat
    BY <1>1
  <2>2. s = t \/ Before(s, t) \/ Before(t, s)
    BY <2>1 DEF Before
  <2>3. QED BY <1>2, <2>2
<1>5. ASSUME NEW s \in S, NEW t \in S, NEW u \in S, <<s, t>> \in R, <<t, u>> \in R PROVE <<s, u>> \in R
  <2>1. /\ s \in Nat /\ t \in Nat /\ u \in Nat
        /\ flow[s].priority \in Nat /\ flow[t].priority \in Nat /\ flow[u].priority \in Nat
    BY <1>1
  <2>2. Before(s, t) /\ Before(t, u)
    BY <1>2, <1>5
  <2>3. Before(s, u)
    BY <2>1, <2>2 DEF Before
  <2>4. QED BY <1>2, <2>3
<1>6. QED BY <1>2, <1>3, <1>4, <1>5 DEF TotalOn

LEMMA SortedKeeps ==
  ASSUME SortConstants, SortInv, NEW S \in SUBSET StepIds
  PROVE  /\ Sorted(S) \in Seq(StepIds) /\ EachOnce(Sorted(S)) /\ ToSet(Sorted(S)) = S
         /\ Alphabetical(Sorted(S)) /\ Len(Sorted(S)) = Cardinality(S)
<1>1. PICK R : R = {e \in S \X S : Before(e[1], e[2])}
  OBVIOUS
<1>2. TotalOn(S, R) /\ \A s, t \in S : <<s, t>> \in R <=> Before(s, t)
  BY <1>1, BeforeIsTotal
<1>3. IsFiniteSet(S)
  BY FS_Subset DEF SortConstants
<1>4. PICK o : o = Ordered(S, R)
  OBVIOUS
<1>5. /\ o \in Seq(S) /\ Len(o) = Cardinality(S)
      /\ \A x \in S : \E n \in DOMAIN o : o[n] = x
      /\ \A m, n \in DOMAIN o : m < n => <<o[m], o[n]>> \in R
      /\ \A m, n \in DOMAIN o : o[m] = o[n] => m = n
  BY <1>2, <1>3, <1>4, OrderedKeeps
<1>6. o \in Seq(StepIds)
  BY <1>5, SeqMonotonic
<1>7. \A n \in DOMAIN o : o[n] \in S
  BY <1>5
<1>8. EachOnce(o) /\ ToSet(o) = S /\ Alphabetical(o)
  <2>1. EachOnce(o)
    BY <1>5 DEF EachOnce
  <2>2. ToSet(o) = S
    BY <1>5, <1>7 DEF ToSet
  <2>3. Alphabetical(o)
    BY <1>2, <1>5, <1>7 DEF Alphabetical
  <2>4. QED BY <2>1, <2>2, <2>3
<1>9. Sorted(S) = o
  BY <1>1, <1>4 DEF Sorted
<1>10. QED BY <1>5, <1>6, <1>8, <1>9

LEMMA SortSame ==
  ASSUME UNCHANGED flow
  PROVE  /\ \A n : InPhase(n)' = InPhase(n) /\ PlacedBefore(n)' = PlacedBefore(n)
         /\ \A o, G : TopoUpTo(o, G) => TopoUpTo(o, G)'
         /\ \A o, n : StepsUpTo(o, n) => StepsUpTo(o, n)'
<1>1. \A n : InPhase(n)' = InPhase(n)
  BY DEF InPhase
<1>0. \A n : PlacedBefore(n)' = PlacedBefore(n)
  BY <1>1 DEF PlacedBefore, Placements
<1>2. \A s, t : Before(s, t)' <=> Before(s, t)
  BY DEF Before
<1>3. \A S : (Cyclic(S)' <=> Cyclic(S)) /\ (Independent(S)' <=> Independent(S))
  BY DEF Cyclic, Independent
<1>4. \A S, s, t : Required(S, s, t)' <=> Required(S, s, t)
  BY <1>2, <1>3 DEF Required
<1>7. \A p, q : Precedes(p, q)' <=> Precedes(p, q)
  BY <1>1, <1>4 DEF Precedes
<1>5. \A o, G : TopoUpTo(o, G) => TopoUpTo(o, G)'
  BY <1>2, <1>3 DEF TopoUpTo, NeedsPlaced, Alphabetical, EachOnce
<1>6. \A o, n : StepsUpTo(o, n) => StepsUpTo(o, n)'
  BY <1>0, <1>7 DEF StepsUpTo, NothingRequired, EachOnce, Pairs
<1>8. QED BY <1>0, <1>1, <1>5, <1>6

LEMMA EmptyTopo == ASSUME NEW G, NEW e, e = <<>> PROVE TopoUpTo(e, G)
<1>1. e \in Seq(StepIds) /\ DOMAIN e = {} /\ ToSet(e) = {}
  BY DEF ToSet
<1>2. EachOnce(e) /\ NeedsPlaced(e, G)
  BY <1>1 DEF EachOnce, NeedsPlaced
<1>3. QED BY <1>1, <1>2 DEF TopoUpTo

LEMMA SortBegins == ASSUME SortConstants, SortInit PROVE SortInv
<1>1. flow \in ParsedFlows /\ at = 1 /\ topo = <<>> /\ steps = <<>>
  BY DEF SortInit
<1>2. TopoUpTo(topo, InPhase(at))
  BY <1>1, EmptyTopo
<1>3. PICK e : e = <<>>
  OBVIOUS
<1>4. e \in Seq(Pairs) /\ DOMAIN e = {} /\ ToSet(e) = {}
  BY <1>3 DEF ToSet
<1>5. PlacedBefore(1) = {}
  <2>1. \A p \in Placements : p[1] \in 1..Len(Phases) /\ Len(Phases) \in Nat
    BY DEF Placements, SortConstants
  <2>2. \A p \in Placements : ~(p[1] < 1)
    BY <2>1
  <2>3. QED BY <2>2 DEF PlacedBefore
<1>6. StepsUpTo(e, 1)
  BY <1>4, <1>5 DEF StepsUpTo, EachOnce, NothingRequired
<1>7. at \in 1..(Len(Phases) + 1)
  BY <1>1 DEF SortConstants
<1>8. QED BY <1>1, <1>2, <1>3, <1>6, <1>7 DEF SortInv

LEMMA TopoRoundKeeps == ASSUME SortConstants, SortInv, TopoRound PROVE SortInv'
<1>1. PICK t, G, S, a, z : t = topo /\ G = InPhase(at) /\ S = Ready /\ a = Sorted(S) /\ z = t \o a
  OBVIOUS
<1>2. at \in DOMAIN Phases /\ S # {} /\ topo' = z /\ UNCHANGED <<flow, at, steps>>
  BY <1>1, Zenon DEF TopoRound
<1>3. /\ S \subseteq G /\ G \subseteq StepIds
      /\ \A s \in S : s \notin ToSet(t) /\ flow[s].needs \cap G \subseteq ToSet(t)
  BY <1>1 DEF Ready, Group, InPhase
<1>4. TopoUpTo(t, G)
  BY <1>1 DEF SortInv
<1>5. t \in Seq(StepIds) /\ EachOnce(t) /\ ToSet(t) \subseteq G /\ NeedsPlaced(t, G)
  BY <1>4 DEF TopoUpTo
<1>6. a \in Seq(StepIds) /\ EachOnce(a) /\ ToSet(a) = S /\ Alphabetical(a)
  BY <1>1, <1>3, SortedKeeps
<1>7. z \in Seq(StepIds) /\ IsConcat(z, t, a) /\ EachOnce(z)
  <2>1. \A e \in ToSet(t) : e \notin ToSet(a)
    BY <1>3, <1>6
  <2>2. QED BY <1>1, <1>5, <1>6, <2>1, ConcatElements, ConcatOnce
<1>8. NeedsPlaced(z, G)
  <2>1. SUFFICES ASSUME NEW n \in DOMAIN z, NEW s \in flow[z[n]].needs \cap G
                 PROVE  \E m \in DOMAIN z : m < n /\ z[m] = s
    BY DEF NeedsPlaced
  <2>2. CASE n \in DOMAIN t
    <3>1. z[n] = t[n]
      BY <1>7, <2>2 DEF IsConcat
    <3>2. PICK m \in DOMAIN t : m < n /\ t[m] = s
      BY <1>5, <2>1, <2>2, <3>1 DEF NeedsPlaced
    <3>3. m \in DOMAIN z /\ z[m] = t[m]
      BY <1>7 DEF IsConcat
    <3>4. QED BY <3>2, <3>3
  <2>3. CASE n \notin DOMAIN t
    <3>1. n - Len(t) \in DOMAIN a /\ z[n] = a[n - Len(t)]
      BY <1>7, <2>3 DEF IsConcat
    <3>2. z[n] \in S
      BY <1>6, <3>1 DEF ToSet
    <3>3. s \in ToSet(t)
      BY <1>3, <2>1, <3>2
    <3>4. PICK m \in DOMAIN t : t[m] = s
      BY <3>3 DEF ToSet
    <3>5. m \in DOMAIN z /\ z[m] = t[m] /\ DOMAIN t = 1..Len(t) /\ DOMAIN z = 1..(Len(t) + Len(a)) /\ Len(t) \in Nat /\ Len(a) \in Nat
      BY <1>7 DEF IsConcat
    <3>6. m < n
      BY <2>3, <3>5
    <3>7. QED BY <3>4, <3>5, <3>6
  <2>4. QED BY <2>2, <2>3
<1>9. ASSUME Independent(G)
      PROVE  ToSet(z) = G /\ Alphabetical(z)
  <2>1. t = <<>>
    <3>1. ASSUME ToSet(t) = G PROVE FALSE
      BY <1>2, <1>3, <3>1
    <3>2. QED BY <1>4, <1>9, <3>1 DEF TopoUpTo
  <2>2. S = G
    <3>1. ToSet(t) = {}
      BY <2>1 DEF ToSet
    <3>2. G = Group
      BY <1>1 DEF Group, InPhase
    <3>3. QED BY <1>1, <1>9, <3>1, <3>2 DEF Ready, Independent
  <2>3. z = a
    BY <1>1, <1>6, <2>1, ConcatEmptySeq
  <2>4. QED BY <1>6, <2>2, <2>3
<1>10. TopoUpTo(z, G)
  <2>1. ToSet(z) \subseteq G
    BY <1>3, <1>5, <1>6, <1>7 DEF IsConcat
  <2>2. QED BY <1>7, <1>8, <1>9, <2>1 DEF TopoUpTo
<1>11. TopoUpTo(z, G)' /\ InPhase(at)' = G
  <2>1. PICK n : n = at
    OBVIOUS
  <2>2. InPhase(n)' = InPhase(n) /\ at' = n
    BY <1>2, <2>1, SortSame
  <2>3. TopoUpTo(z, G)'
    BY <1>2, <1>10, SortSame
  <2>4. QED BY <1>1, <1>2, <2>1, <2>2, <2>3
<1>12. StepsUpTo(steps, at)'
  <2>1. PICK o, n : o = steps /\ n = at
    OBVIOUS
  <2>2. StepsUpTo(o, n) /\ steps' = o /\ at' = n
    BY <1>2, <2>1 DEF SortInv
  <2>3. StepsUpTo(o, n)'
    BY <1>2, <2>2, SortSame
  <2>4. QED BY <2>2, <2>3
<1>13. (flow \in ParsedFlows /\ at \in 1..(Len(Phases) + 1))'
  BY <1>2 DEF SortInv, ParsedFlows
<1>14. QED BY <1>2, <1>11, <1>12, <1>13 DEF SortInv

\* Steps that need one another have no place in the order of dependencies.
LEMMA PlacedIsAcyclic ==
  ASSUME NEW G, NEW t \in Seq(StepIds), NeedsPlaced(t, G), NEW C \in SUBSET G, C # {}, C \subseteq ToSet(t),
         \A s \in C : flow[s].needs \cap C # {}
  PROVE  FALSE
<1> DEFINE Hits == {n \in DOMAIN t : t[n] \in C}
<1>1. Hits \in SUBSET Nat /\ Hits # {}
  <2>1. DOMAIN t \subseteq Nat
    OBVIOUS
  <2>2. QED BY <2>1 DEF ToSet
<1>2. PICK n \in Hits : \A m \in Hits : n <= m
  <2> HIDE DEF Hits
  <2>1. QED BY <1>1, LeastIsThere
<1>3. PICK s : s \in flow[t[n]].needs /\ s \in C
  OBVIOUS
<1>4. PICK m \in DOMAIN t : m < n /\ t[m] = s
  BY <1>3 DEF NeedsPlaced
<1>5. m \in Hits
  BY <1>3, <1>4
<1>6. n <= m /\ m \in Nat /\ n \in Nat
  BY <1>1, <1>2, <1>5
<1>7. QED BY <1>4, <1>6

LEMMA BeforeOnce ==
  ASSUME SortConstants, SortInv, NEW s \in StepIds, NEW t \in StepIds, Before(s, t)
  PROVE  ~Before(t, s) /\ s # t
<1>1. s \in Nat /\ t \in Nat /\ flow[s].priority \in Nat /\ flow[t].priority \in Nat
  BY FlowIs
<1>2. QED BY <1>1 DEF Before

\* What a phase ends with has its steps, once, none of them too early.
LEMMA PhaseIsSorted ==
  ASSUME SortConstants, SortInv, Ready = {}, NEW G, G = InPhase(at),
         NEW c, c = IF Len(topo) = Len(Sorted(Group)) THEN topo ELSE Sorted(Group)
  PROVE  c \in Seq(StepIds) /\ EachOnce(c) /\ ToSet(c) = G /\ RequiredNone(G, c)
<1>1. G = Group /\ G \subseteq StepIds
  BY DEF Group, InPhase
<1>2. PICK t : t = topo
  OBVIOUS
<1>3. TopoUpTo(t, G) /\ t \in Seq(StepIds) /\ EachOnce(t) /\ ToSet(t) \subseteq G /\ NeedsPlaced(t, G)
  BY <1>2 DEF SortInv, TopoUpTo
<1>4. /\ Sorted(G) \in Seq(StepIds) /\ EachOnce(Sorted(G)) /\ ToSet(Sorted(G)) = G
      /\ Alphabetical(Sorted(G)) /\ Len(Sorted(G)) = Cardinality(G)
  BY <1>1, SortedKeeps
<1>6. IsFiniteSet(G) /\ Cardinality(ToSet(t)) = Len(t)
  BY <1>1, <1>3, OnceCounts, FS_Subset DEF SortConstants
<1>7. CASE Len(t) = Cardinality(G)
  <2>1. c = t
    BY <1>1, <1>2, <1>4, <1>7
  <2>2. ToSet(t) = G
    BY <1>3, <1>6, <1>7, FS_Subset
  <2>3. ~Cyclic(G)
    <3>1. SUFFICES ASSUME Cyclic(G) PROVE FALSE
      OBVIOUS
    <3>2. PICK C \in SUBSET G : C # {} /\ \A s \in C : flow[s].needs \cap C # {}
      BY <3>1 DEF Cyclic
    <3>3. C \subseteq ToSet(t)
      BY <2>2
    <3>4. QED BY <1>3, <3>2, <3>3, PlacedIsAcyclic
  <2>4. ASSUME NEW m \in DOMAIN t, NEW n \in DOMAIN t, m < n, Required(G, t[n], t[m]) PROVE FALSE
    <3>1. PICK x, y : x = t[m] /\ y = t[n]
      OBVIOUS
    <3>2. x \in G /\ y \in G
      BY <2>2, <3>1 DEF ToSet
    <3>5. y \in flow[x].needs \/ (Before(y, x) /\ Independent(G))
      BY <2>3, <2>4, <3>1 DEF Required
    <3>6. CASE y \in flow[x].needs
      <4>1. PICK k \in DOMAIN t : k < m /\ t[k] = y
        BY <1>3, <3>1, <3>2, <3>6 DEF NeedsPlaced
      <4>2. k = n
        BY <1>3, <3>1, <4>1 DEF EachOnce
      <4>3. m \in Nat /\ n \in Nat
        BY <1>3
      <4>4. QED BY <2>4, <4>1, <4>2, <4>3
    <3>7. CASE Before(y, x) /\ Independent(G)
      <4>1. t # <<>>
        BY <2>4
      <4>2. Alphabetical(t)
        BY <1>3, <3>7, <4>1 DEF TopoUpTo
      <4>3. Before(x, y)
        BY <2>4, <3>1, <4>2 DEF Alphabetical
      <4>4. QED BY <1>1, <3>2, <3>7, <4>3, BeforeOnce
    <3>8. QED BY <3>5, <3>6, <3>7
  <2>5. QED BY <1>3, <2>1, <2>2, <2>4 DEF RequiredNone
<1>8. CASE Len(t) # Cardinality(G)
  <2>1. c = Sorted(G)
    BY <1>1, <1>2, <1>4, <1>8
  <2>2. Cyclic(G)
    <3>1. PICK rest : rest = G \ ToSet(t)
      OBVIOUS
    <3>2. rest # {} /\ rest \subseteq G
      <4>1. ToSet(t) # G
        BY <1>6, <1>8
      <4>2. QED BY <1>3, <3>1, <4>1
    <3>3. \A s \in rest : flow[s].needs \cap rest # {}
      BY <1>1, <1>2, <3>1 DEF Ready
    <3>4. QED BY <3>2, <3>3 DEF Cyclic
  <2>3. PICK o : o = Sorted(G)
    OBVIOUS
  <2>4. ASSUME NEW m \in DOMAIN o, NEW n \in DOMAIN o, m < n, Required(G, o[n], o[m]) PROVE FALSE
    <3>1. PICK x, y : x = o[m] /\ y = o[n]
      OBVIOUS
    <3>2. x \in G /\ y \in G
      BY <1>4, <2>3, <3>1 DEF ToSet
    <3>5. Before(y, x)
      BY <2>2, <2>4, <3>1 DEF Required
    <3>6. Before(x, y)
      BY <1>4, <2>3, <2>4, <3>1 DEF Alphabetical
    <3>7. QED BY <1>1, <3>2, <3>5, <3>6, BeforeOnce
  <2>5. QED BY <1>4, <2>1, <2>3, <2>4 DEF RequiredNone
<1>9. QED BY <1>7, <1>8

\* A phase's steps, with the turn that places them.
LEMMA TurnTaken ==
  ASSUME NEW n \in DOMAIN Phases, NEW c \in Seq(StepIds), EachOnce(c), NEW d, d = [i \in DOMAIN c |-> <<n, c[i]>>]
  PROVE  /\ d \in Seq(Pairs) /\ EachOnce(d) /\ DOMAIN d = DOMAIN c
         /\ \A i \in DOMAIN c : d[i] = <<n, c[i]>> /\ d[i][1] = n /\ d[i][2] = c[i]
         /\ ToSet(d) = {p \in Pairs : p[1] = n /\ p[2] \in ToSet(c)}
<1>1. PICK l : l = Len(c)
  OBVIOUS
<1>2. l \in Nat /\ DOMAIN c = 1..l /\ \A i \in 1..l : c[i] \in StepIds
  BY <1>1
<1>3. /\ d = [i \in 1..l |-> d[i]] /\ DOMAIN d = 1..l
      /\ \A i \in 1..l : d[i] = <<n, c[i]>> /\ d[i][1] = n /\ d[i][2] = c[i] /\ d[i] \in Pairs
  BY <1>2 DEF Pairs
<1>4. d \in Seq(Pairs)
  BY <1>2, <1>3
<1>5. EachOnce(d)
  BY <1>2, <1>3 DEF EachOnce
<1>6. ToSet(d) = {p \in Pairs : p[1] = n /\ p[2] \in ToSet(c)}
  <2>1. \A i \in 1..l : d[i][2] \in ToSet(c)
    BY <1>2, <1>3 DEF ToSet
  <2>2. ASSUME NEW p \in Pairs, p[1] = n, p[2] \in ToSet(c) PROVE p \in ToSet(d)
    <3>1. PICK i \in 1..l : p[2] = c[i]
      BY <1>2, <2>2 DEF ToSet
    <3>2. p = <<n, c[i]>>
      BY <2>2, <3>1 DEF Pairs
    <3>3. QED BY <1>3, <3>2 DEF ToSet
  <2>3. \A p \in ToSet(d) : \E i \in 1..l : p = d[i]
    BY <1>3 DEF ToSet
  <2>4. QED BY <1>3, <2>1, <2>2, <2>3
<1>7. QED BY <1>2, <1>3, <1>4, <1>5, <1>6

LEMMA EndPhaseKeeps == ASSUME SortConstants, SortInv, EndPhase PROVE SortInv'
<1>1. PICK l, o, c, d, z, n : /\ l = Len(Phases) /\ o = steps /\ n = at
                             /\ c = (IF Len(topo) = Len(Sorted(Group)) THEN topo ELSE Sorted(Group))
                             /\ d = [i \in DOMAIN c |-> <<at, c[i]>>] /\ z = o \o d
  OBVIOUS
<1>2. n \in DOMAIN Phases /\ Ready = {} /\ steps' = z /\ at' = n + 1 /\ topo' = <<>> /\ UNCHANGED flow
  BY <1>1, Zenon DEF EndPhase
<1>3. n \in Nat /\ n + 1 \in 1..(l + 1)
  <2>1. n \in 1..l /\ l \in Nat
    BY <1>1, <1>2 DEF SortConstants
  <2>2. QED BY <2>1
<1>0. c \in Seq(StepIds) /\ EachOnce(c) /\ ToSet(c) = InPhase(n) /\ RequiredNone(InPhase(n), c)
  BY <1>1, <1>2, PhaseIsSorted
<1>4. /\ d \in Seq(Pairs) /\ EachOnce(d) /\ DOMAIN d = DOMAIN c
      /\ \A i \in DOMAIN c : d[i][1] = n /\ d[i][2] = c[i]
      /\ ToSet(d) = {p \in Pairs : p[1] = n /\ p[2] \in InPhase(n)}
  <2>1. d = [i \in DOMAIN c |-> <<n, c[i]>>]
    BY <1>1
  <2>2. /\ d \in Seq(Pairs) /\ EachOnce(d) /\ DOMAIN d = DOMAIN c
        /\ \A i \in DOMAIN c : d[i] = <<n, c[i]>> /\ d[i][1] = n /\ d[i][2] = c[i]
        /\ ToSet(d) = {p \in Pairs : p[1] = n /\ p[2] \in ToSet(c)}
    BY <1>0, <1>2, <2>1, TurnTaken
  <2>3. QED BY <1>0, <2>2
<1>5. o \in Seq(Pairs) /\ EachOnce(o) /\ ToSet(o) = PlacedBefore(n) /\ NothingRequired(o)
  BY <1>1 DEF SortInv, StepsUpTo
<1>6. \A p \in Pairs : p[1] \in Nat
  BY DEF Pairs, SortConstants
<1>7. \A p \in PlacedBefore(n) : p \in Pairs /\ p[1] < n
  BY DEF PlacedBefore, Placements, Pairs
<1>8. z \in Seq(Pairs) /\ IsConcat(z, o, d) /\ EachOnce(z)
  <2>1. \A e \in ToSet(o) : e \notin ToSet(d)
    BY <1>3, <1>4, <1>5, <1>6, <1>7
  <2>2. QED BY <1>1, <1>4, <1>5, <2>1, ConcatElements, ConcatOnce
<1>9. ToSet(z) = PlacedBefore(n + 1)
  <2>1. ToSet(z) = PlacedBefore(n) \cup {p \in Pairs : p[1] = n /\ p[2] \in InPhase(n)}
    BY <1>4, <1>5, <1>8 DEF IsConcat
  <2>2. \A p \in Pairs : p[1] < n + 1 <=> p[1] < n \/ p[1] = n
    BY <1>3, <1>6
  <2>3. QED BY <2>1, <2>2 DEF PlacedBefore, Placements, Pairs
<1>10. NothingRequired(z)
  <2>1. SUFFICES ASSUME NEW i \in DOMAIN z, NEW j \in DOMAIN z, i < j, Precedes(z[j], z[i]) PROVE FALSE
    BY DEF NothingRequired
  <2>2. /\ Len(o) \in Nat /\ Len(d) \in Nat /\ DOMAIN o = 1..Len(o) /\ DOMAIN z = 1..(Len(o) + Len(d))
        /\ \A k \in DOMAIN z : \/ k \in DOMAIN o /\ z[k] = o[k]
                               \/ k \notin DOMAIN o /\ k - Len(o) \in DOMAIN d /\ z[k] = d[k - Len(o)]
    BY <1>8 DEF IsConcat
  <2>3. i \in Nat /\ j \in Nat /\ (j \in DOMAIN o => i \in DOMAIN o)
    BY <2>1, <2>2
  <2>4. CASE j \in DOMAIN o
    <3>1. z[i] = o[i] /\ z[j] = o[j] /\ i \in DOMAIN o
      BY <2>2, <2>3, <2>4
    <3>2. QED BY <1>5, <2>1, <2>4, <3>1 DEF NothingRequired
  <2>5. CASE i \notin DOMAIN o
    <3>1. PICK x, y : x = i - Len(o) /\ y = j - Len(o)
      OBVIOUS
    <3>2. x \in DOMAIN c /\ y \in DOMAIN c /\ z[i] = d[x] /\ z[j] = d[y]
      BY <1>4, <2>2, <2>3, <2>5, <3>1
    <3>3. x < y
      BY <2>1, <2>2, <2>3, <3>1
    <3>4. /\ z[i][1] = n /\ z[j][1] = n /\ z[i][2] = c[x] /\ z[j][2] = c[y]
      BY <1>4, <3>2
    <3>5. Required(InPhase(n), c[y], c[x])
      BY <1>3, <2>1, <3>4 DEF Precedes
    <3>6. QED BY <1>0, <3>2, <3>3, <3>5 DEF RequiredNone
  <2>6. CASE i \in DOMAIN o /\ j \notin DOMAIN o
    <3>1. z[i] \in PlacedBefore(n) /\ z[j] \in ToSet(d)
      BY <1>5, <2>2, <2>6 DEF ToSet
    <3>2. z[i][1] < n /\ z[j][1] = n /\ z[i][1] \in Nat
      BY <1>4, <1>6, <1>7, <3>1
    <3>3. ~(z[j][1] < z[i][1]) /\ z[j][1] # z[i][1]
      BY <1>3, <3>2
    <3>4. QED BY <2>1, <3>3 DEF Precedes
  <2>7. QED BY <2>3, <2>4, <2>5, <2>6
<1>11. StepsUpTo(z, n + 1)
  BY <1>8, <1>9, <1>10 DEF StepsUpTo
<1>12. StepsUpTo(steps, at)'
  <2>1. PICK m : m = n + 1
    OBVIOUS
  <2>2. StepsUpTo(z, m)'
    BY <1>2, <1>11, <2>1, SortSame
  <2>3. steps' = z /\ at' = m
    BY <1>2, <2>1
  <2>4. QED BY <2>2, <2>3
<1>13. TopoUpTo(topo, InPhase(at))'
  <2>1. PICK m, G : m = n + 1 /\ G = InPhase(m)
    OBVIOUS
  <2>2. PICK e : e = <<>>
    OBVIOUS
  <2>3. TopoUpTo(e, G)' /\ InPhase(m)' = G
    BY <1>2, <2>1, <2>2, EmptyTopo, SortSame
  <2>4. topo' = e /\ at' = m
    BY <1>2, <2>1, <2>2
  <2>5. QED BY <2>3, <2>4
<1>14. (flow \in ParsedFlows /\ at \in 1..(Len(Phases) + 1))'
  BY <1>1, <1>2, <1>3 DEF SortInv, ParsedFlows
<1>15. QED BY <1>12, <1>13, <1>14 DEF SortInv

LEMMA SortSteps == ASSUME SortConstants, SortInv, [SortNext]_sortVars PROVE SortInv'
<1>1. CASE TopoRound
  BY <1>1, TopoRoundKeeps
<1>2. CASE EndPhase
  BY <1>2, EndPhaseKeeps
<1>3. CASE UNCHANGED sortVars
  <2>1. UNCHANGED <<flow, at, topo, steps>>
    BY <1>3 DEF sortVars
  <2>2. PICK t, o, n, G : t = topo /\ o = steps /\ n = at /\ G = InPhase(n)
    OBVIOUS
  <2>3. TopoUpTo(t, G) /\ StepsUpTo(o, n)
    BY <2>2 DEF SortInv
  <2>4. TopoUpTo(t, G)' /\ StepsUpTo(o, n)' /\ InPhase(n)' = G
    BY <2>1, <2>2, <2>3, SortSame
  <2>5. topo' = t /\ steps' = o /\ at' = n
    BY <2>1, <2>2
  <2>6. (flow \in ParsedFlows /\ at \in 1..(Len(Phases) + 1))'
    BY <2>1 DEF SortInv, ParsedFlows
  <2>7. QED BY <2>4, <2>5, <2>6 DEF SortInv
<1>4. QED BY <1>1, <1>2, <1>3 DEF SortNext

LEMMA SortMeans == ASSUME SortConstants, SortInv PROVE StepsInOrder
<1>1. SUFFICES ASSUME at > Len(Phases)
               PROVE  /\ Len(steps) = Cardinality(Placements) /\ ToSet(steps) = Placements
                      /\ \A p, q \in Placements : Precedes(p, q) => Pos(p) < Pos(q)
  BY DEF StepsInOrder, Precedes, Required
<1>2. PICK o : o = steps
  OBVIOUS
<1>3. o \in Seq(Pairs) /\ EachOnce(o) /\ ToSet(o) = PlacedBefore(at) /\ NothingRequired(o)
  BY <1>2 DEF SortInv, StepsUpTo
<1>4. ToSet(o) = Placements
  <2>1. PICK l : l = Len(Phases)
    OBVIOUS
  <2>2. l \in Nat /\ at \in 1..(l + 1) /\ at > l
    BY <1>1, <2>1 DEF SortInv, SortConstants
  <2>3. at = l + 1
    BY <2>2
  <2>4. \A p \in Placements : p[1] \in 1..l
    BY <2>1 DEF Placements, SortConstants
  <2>5. \A p \in Placements : p[1] < at
    BY <2>2, <2>3, <2>4
  <2>6. QED BY <1>3, <2>5 DEF PlacedBefore
<1>5. Len(o) = Cardinality(Placements)
  BY <1>3, <1>4, OnceCounts
<1>6. \A n \in DOMAIN o : Pos(o[n]) = n
  BY <1>2, <1>3 DEF Pos, EachOnce
<1>7. ASSUME NEW p \in Placements, NEW q \in Placements, Precedes(p, q) PROVE Pos(p) < Pos(q)
  <2>1. PICK m \in DOMAIN o, n \in DOMAIN o : o[m] = p /\ o[n] = q
    BY <1>4 DEF ToSet
  <2>2. m \in Nat /\ n \in Nat /\ Pos(p) = m /\ Pos(q) = n
    BY <1>3, <1>6, <2>1
  <2>3. ~(n < m)
    BY <1>3, <1>7, <2>1 DEF NothingRequired
  <2>4. p # q
    <3>1. ASSUME p = q PROVE FALSE
      <4>1. p[1] \in Nat /\ p[2] \in StepIds
        BY DEF Placements, SortConstants
      <4>2. Before(p[2], p[2])
        BY <1>7, <3>1, <4>1 DEF Precedes, Required
      <4>3. QED BY <4>1, <4>2, BeforeOnce
    <3>2. QED BY <3>1
  <2>5. m # n
    BY <2>1, <2>4
  <2>6. QED BY <2>2, <2>3, <2>5
<1>8. QED BY <1>2, <1>4, <1>5, <1>7

\* StepsInOrder (flow_loader.py, _sort_steps): the sorted steps of a flow are all of
\* its steps, once for each time their phase is listed and in the order of the list,
\* each after those it depends on where its phase has no circular dependency, for any
\* list of phases and any steps.
THEOREM StepsAreInOrder == ASSUME SortConstants PROVE SortSpec => []StepsInOrder
BY SortBegins, SortSteps, SortMeans, PTL DEF SortSpec

-----------------------------------------------------------------------------
(***************************************************************************)
(* FlowModifiers. Of two steps of the flow the one written first is first, *)
(* a step that was brought in is on its side of the one it targets, and    *)
(* what is targeted in a later pass stays.                                 *)
(***************************************************************************)
BaseIds == IdsOf(BaseSteps)
ModStep == [id: BaseIds \cup Modifiers, phase: 1..PhaseCount]

\* Each modifier names the phase of the step it targets.
Declared == \A m \in Modifiers : mods[m].action # "append" =>
    \E i \in DOMAIN BaseSteps : BaseSteps[i].id = mods[m].target /\ BaseSteps[i].phase = mods[m].phase

\* What a step of id i before one of id j has to do with.
WrittenFirst(i, j) == i \in BaseIds /\ j \in BaseIds =>
    \E k, l \in DOMAIN BaseSteps : k < l /\ BaseSteps[k].id = i /\ BaseSteps[l].id = j
OnItsSide(i, j) == \A m \in Modifiers :
    /\ mods[m].action = "inject_before" => ~(i = mods[m].target /\ j = m)
    /\ mods[m].action = "inject_after" => ~(i = m /\ j = mods[m].target)
Fits(a, b) ==
    /\ a.id # b.id /\ WrittenFirst(a.id, b.id) /\ OnItsSide(a.id, b.id)
    /\ Declared => a.phase <= b.phase
StepsThatFit == {e \in ModStep \X ModStep : Fits(e[1], e[2])}

Injects(m) == mods[m].action \in {"inject_before", "inject_after"}
LostIn(ids, taken) == \E f \in [BaseIds \ ids -> taken] : \A s, t \in BaseIds \ ids : f[s] = f[t] => s = t

ModInv ==
    /\ mods \in [Modifiers -> Accepted] /\ pass \in 1..5 /\ applied \subseteq Modifiers
    /\ left \subseteq Of(pass) /\ left \cap applied = {}
    /\ \A m \in applied : PassOf(mods[m].action) <= pass
    /\ new \in Seq(ModStep) /\ PairsIn(new, StepsThatFit)
    /\ \A i \in DOMAIN new :
          /\ new[i].id \in BaseIds => \E j \in DOMAIN BaseSteps : new[i] = BaseSteps[j]
          /\ new[i].id \in Modifiers => new[i].id \in applied
    /\ \A m \in applied : mods[m].action \notin {"replace", "remove"} => m \in IdsOf(new)
    /\ \A m \in applied : Injects(m) => mods[m].target # m /\ mods[m].target \in IdsOf(new) \cup {FirstStep, LastStep}
    /\ LostIn(IdsOf(new), Taken)

LEMMA ModStepIs ==
  ASSUME ModConstants
  PROVE  /\ \A a \in ModStep : a.id \in BaseIds \cup Modifiers /\ a.phase \in 1..PhaseCount /\ a.phase \in Nat
         /\ \A a, b \in ModStep : <<a, b>> \in StepsThatFit <=> Fits(a, b)
         /\ BaseSteps \in Seq(ModStep) /\ Len(BaseSteps) \in Nat /\ DOMAIN BaseSteps = 1..Len(BaseSteps)
         /\ \A i \in DOMAIN BaseSteps : BaseSteps[i] \in ModStep /\ BaseSteps[i].id \in BaseIds
         /\ \A i, j \in DOMAIN BaseSteps : i < j =>
              BaseSteps[i].id # BaseSteps[j].id /\ BaseSteps[i].phase <= BaseSteps[j].phase
         /\ \A i, j \in DOMAIN BaseSteps : BaseSteps[i].id = BaseSteps[j].id => i = j
         /\ Modifiers \cap BaseIds = {} /\ FirstStep \notin BaseIds \cup Modifiers /\ LastStep \notin BaseIds \cup Modifiers
<1>1. PICK B, I, X : B = BaseSteps /\ I = BaseIds /\ X = [id: I, phase: 1..PhaseCount]
  OBVIOUS
<1>2. /\ B \in Seq(X)
      /\ \A i, j \in DOMAIN B : i < j => B[i].id # B[j].id /\ B[i].phase <= B[j].phase
      /\ Modifiers \cap I = {} /\ FirstStep \notin I \cup Modifiers /\ LastStep \notin I \cup Modifiers
      /\ PhaseCount \in Nat
  BY <1>1 DEF ModConstants, BaseIds
<1>3. /\ Len(B) \in Nat /\ DOMAIN B = 1..Len(B)
      /\ \A i \in DOMAIN B : B[i] \in X
  BY <1>2
<1>4. X \subseteq ModStep /\ \A x \in X : x.id \in I
  BY <1>1 DEF ModStep
<1>5. B \in Seq(ModStep)
  <2>1. PICK n, M : n = Len(B) /\ M = ModStep
    OBVIOUS
  <2>2. n \in Nat /\ DOMAIN B = 1..n /\ \A i \in 1..n : B[i] \in M
    BY <1>3, <1>4, <2>1
  <2>3. B = [i \in 1..n |-> B[i]]
    BY <1>2, <2>1
  <2>4. B \in [1..n -> M]
    BY <2>2, <2>3
  <2>5. QED BY <2>1, <2>2, <2>4
<1>6. \A i \in DOMAIN B : B[i] \in ModStep /\ B[i].id \in I
  BY <1>3, <1>4
<1>7. ASSUME NEW i \in DOMAIN B, NEW j \in DOMAIN B, B[i].id = B[j].id PROVE i = j
  <2>1. i \in Nat /\ j \in Nat /\ ~(i < j) /\ ~(j < i)
    BY <1>2, <1>3, <1>7
  <2>2. QED BY <2>1
<1>8. \A a \in ModStep : a.id \in BaseIds \cup Modifiers /\ a.phase \in 1..PhaseCount /\ a.phase \in Nat
  BY <1>2 DEF ModStep
<1>9. \A a, b \in ModStep : <<a, b>> \in StepsThatFit <=> Fits(a, b)
  BY DEF StepsThatFit
<1>10. QED BY <1>1, <1>2, <1>3, <1>5, <1>6, <1>7, <1>8, <1>9

LEMMA ModSame ==
  ASSUME mods' = mods
  PROVE  /\ StepsThatFit' = StepsThatFit /\ \A m : Injects(m)' = Injects(m) /\ \A n : Of(n)' = Of(n)
<1>1. Declared' = Declared
  BY DEF Declared
<1>2. \A i, j : OnItsSide(i, j)' = OnItsSide(i, j)
  BY DEF OnItsSide
<1>3. \A a, b : Fits(a, b)' = Fits(a, b)
  BY <1>1, <1>2 DEF Fits, WrittenFirst
<1>4. StepsThatFit' = StepsThatFit
  BY <1>3 DEF StepsThatFit
<1>5. QED BY <1>4 DEF Injects, Of, Usable

LEMMA NewIs ==
  ASSUME ModConstants, ModInv
  PROVE  /\ new \in Seq(ModStep) /\ Len(new) \in Nat /\ DOMAIN new = 1..Len(new)
         /\ \A i \in DOMAIN new : new[i] \in ModStep /\ new[i].phase \in Nat
         /\ \A i, j \in DOMAIN new : i < j => Fits(new[i], new[j])
         /\ \A i, j \in DOMAIN new : new[i].id = new[j].id => i = j
<1>1. PICK u : u = new
  OBVIOUS
<1>2. u \in Seq(ModStep) /\ PairsIn(u, StepsThatFit)
  BY <1>1 DEF ModInv
<1>3. Len(u) \in Nat /\ DOMAIN u = 1..Len(u) /\ \A i \in DOMAIN u : u[i] \in ModStep
  BY <1>2
<1>4. \A i, j \in DOMAIN u : i < j => Fits(u[i], u[j])
  BY <1>2, <1>3, ModStepIs DEF PairsIn
<1>5. ASSUME NEW i \in DOMAIN u, NEW j \in DOMAIN u, u[i].id = u[j].id PROVE i = j
  <2>1. i \in Nat /\ j \in Nat
    BY <1>3
  <2>2. ~(i < j) /\ ~(j < i)
    BY <1>4, <1>5 DEF Fits
  <2>3. QED BY <2>1, <2>2
<1>6. \A i \in DOMAIN u : u[i].phase \in Nat
  BY <1>3, ModStepIs
<1>7. QED BY <1>1, <1>2, <1>3, <1>4, <1>5, <1>6

\* What _find_step_index finds.
LEMMA IndexIs ==
  ASSUME ModConstants, ModInv, NEW t, Index(t) > 0
  PROVE  /\ Index(t) \in DOMAIN new /\ t \in IdsOf(new) \cup {FirstStep, LastStep}
         /\ \A a \in DOMAIN new : new[a].id = t => a = Index(t)
         /\ t \in BaseIds => new[Index(t)].id = t
<1>1. /\ Len(new) \in Nat /\ DOMAIN new = 1..Len(new) /\ \A i \in DOMAIN new : new[i] \in ModStep
      /\ \A i, j \in DOMAIN new : new[i].id = new[j].id => i = j
  BY NewIs
<1>2. new # <<>> /\ new \in Seq(ModStep)
  BY NewIs DEF Index
<1>3. Len(new) > 0
  <2>1. PICK u : u = new
    OBVIOUS
  <2>2. u \in Seq(ModStep) /\ u # <<>> /\ Len(u) \in Nat
    BY <1>1, <1>2, <2>1
  <2>3. Len(u) # 0
    BY <2>2
  <2>4. QED BY <2>1, <2>2, <2>3
<1>4. 1 \in DOMAIN new /\ Len(new) \in DOMAIN new
  BY <1>1, <1>3
<1>5. CASE t = FirstStep
  <2>1. Index(t) = 1
    BY <1>2, <1>5 DEF Index
  <2>2. \A a \in DOMAIN new : new[a].id # t
    BY <1>1, <1>5, ModStepIs
  <2>3. QED BY <1>4, <1>5, <2>1, <2>2, ModStepIs
<1>6. CASE t # FirstStep /\ t = LastStep
  <2>1. Index(t) = Len(new)
    BY <1>2, <1>6 DEF Index
  <2>2. \A a \in DOMAIN new : new[a].id # t
    BY <1>1, <1>6, ModStepIs
  <2>3. QED BY <1>4, <1>6, <2>1, <2>2, ModStepIs
<1>7. CASE t # FirstStep /\ t # LastStep
  <2>1. PICK i \in DOMAIN new : new[i].id = t
    <3>1. CASE \E i \in DOMAIN new : new[i].id = t
      BY <3>1
    <3>2. CASE ~(\E i \in DOMAIN new : new[i].id = t)
      <4>1. Index(t) = 0
        BY <1>2, <1>7, <3>2 DEF Index
      <4>2. QED BY <4>1
    <3>3. QED BY <3>1, <3>2
  <2>2. \A j \in 1..(i - 1) : new[j].id # t
    <3>1. \A j \in 1..(i - 1) : j \in DOMAIN new /\ j # i
      BY <1>1, <2>1
    <3>2. QED BY <1>1, <2>1, <3>1
  <2>3. Index(t) = CHOOSE q \in DOMAIN new : new[q].id = t /\ \A j \in 1..(q - 1) : new[j].id # t
    BY <1>2, <1>7, <2>1 DEF Index
  <2>4. Index(t) \in DOMAIN new /\ new[Index(t)].id = t
    <3>1. \E q \in DOMAIN new : new[q].id = t /\ \A j \in 1..(q - 1) : new[j].id # t
      BY <2>1, <2>2
    <3>2. QED BY <2>3, <3>1, Zenon
  <2>5. t \in IdsOf(new)
    BY <2>1 DEF IdsOf
  <2>6. QED BY <1>1, <2>4, <2>5
<1>8. QED BY <1>5, <1>6, <1>7

LEMMA ModBegins == ASSUME ModConstants, ModInit PROVE ModInv
<1>1. mods \in [Modifiers -> Accepted] /\ pass = 1 /\ left = Of(1) /\ new = BaseSteps /\ applied = {}
  BY DEF ModInit
<1>2. PICK B : B = BaseSteps
  OBVIOUS
<1>3. /\ B \in Seq(ModStep) /\ DOMAIN B = 1..Len(B) /\ Len(B) \in Nat
      /\ \A i \in DOMAIN B : B[i] \in ModStep /\ B[i].id \in BaseIds
      /\ \A i, j \in DOMAIN B : i < j => B[i].id # B[j].id /\ B[i].phase <= B[j].phase
      /\ Modifiers \cap BaseIds = {}
  BY <1>2, ModStepIs
<1>4. ASSUME NEW i \in DOMAIN B, NEW j \in DOMAIN B, i < j PROVE <<B[i], B[j]>> \in StepsThatFit
  <2>1. WrittenFirst(B[i].id, B[j].id)
    BY <1>2, <1>4 DEF WrittenFirst
  <2>2. OnItsSide(B[i].id, B[j].id)
    BY <1>3 DEF OnItsSide
  <2>3. Fits(B[i], B[j])
    BY <1>3, <1>4, <2>1, <2>2 DEF Fits
  <2>4. QED BY <1>3, <2>3, ModStepIs
<1>5. PairsIn(B, StepsThatFit)
  BY <1>4 DEF PairsIn
<1>6. IdsOf(B) = BaseIds
  BY <1>2 DEF BaseIds
<1>7. LostIn(IdsOf(B), {})
  <2>1. PICK f : f = [x \in {} |-> x]
    OBVIOUS
  <2>2. f \in [{} -> {}]
    BY <2>1
  <2>3. QED BY <1>6, <2>2 DEF LostIn
<1>8. Taken = {}
  BY <1>1 DEF Taken
<1>9. \A i \in DOMAIN B : (B[i].id \in BaseIds => \E j \in DOMAIN BaseSteps : B[i] = BaseSteps[j]) /\ B[i].id \notin Modifiers
  BY <1>2, <1>3
<1>10. left \subseteq Of(pass) /\ left \cap applied = {} /\ pass \in 1..5 /\ applied \subseteq Modifiers
  BY <1>1
<1>11. QED BY <1>1, <1>2, <1>3, <1>5, <1>7, <1>8, <1>9, <1>10 DEF ModInv

LEMMA LeftIs ==
  ASSUME ModConstants, ModInv, NEW m \in left
  PROVE  /\ m \in Modifiers /\ m \in Nat /\ Usable(m) /\ PassOf(mods[m].action) = pass /\ m \notin applied
         /\ m \notin BaseIds /\ m \notin IdsOf(new) /\ m # FirstStep /\ m # LastStep
         /\ mods[m] \in OfferedMods /\ mods[m].priority \in Int /\ mods[m].phase \in Int
         /\ mods[m].action \in {"append", "inject_before", "inject_after", "replace", "remove"}
<1>1. m \in Modifiers /\ Usable(m) /\ PassOf(mods[m].action) = pass /\ m \notin applied
  BY DEF ModInv, Of
<1>2. m \in Nat /\ m \notin BaseIds /\ m # FirstStep /\ m # LastStep
  BY <1>1, ModStepIs DEF ModConstants
<1>3. mods[m] \in Accepted
  BY <1>1 DEF ModInv
<1>4. m \notin IdsOf(new)
  BY <1>1 DEF ModInv, IdsOf
<1>5. mods[m] \in OfferedMods /\ mods[m].action \in {"append", "inject_before", "inject_after", "replace", "remove"}
  BY <1>3 DEF Accepted
<1>6. mods[m].priority \in Int /\ mods[m].phase \in Int
  BY <1>5 DEF ModConstants
<1>7. QED BY <1>1, <1>2, <1>4, <1>5, <1>6

LEMMA StepForIs ==
  ASSUME ModConstants, NEW m \in Modifiers
  PROVE  StepFor(m) \in ModStep /\ StepFor(m).id = m
<1>1. PhaseCount \in 1..PhaseCount
  BY DEF ModConstants
<1>2. QED BY <1>1 DEF StepFor, ModStep

\* Steps of modifiers whose turn it is are put in the place of those between
\* the k-th and the l-th.
LEMMA ModCut ==
  ASSUME ModConstants, ModInv, NEW z \in Seq(ModStep), NEW s \in Seq(ModStep), NEW k \in Nat, NEW l \in Nat,
         k < l, l <= Len(new) + 1, IsCut(z, new, k, l, s), \A b \in DOMAIN s : s[b].id \in left,
         PairsIn(s, StepsThatFit),
         \A a \in 1..k, b \in DOMAIN s : OnItsSide(new[a].id, s[b].id) /\ (Declared => new[a].phase <= s[b].phase),
         \A b \in DOMAIN s, a \in l..Len(new) : OnItsSide(s[b].id, new[a].id) /\ (Declared => s[b].phase <= new[a].phase)
  PROVE  /\ PairsIn(z, StepsThatFit)
         /\ \A i \in DOMAIN z : \/ \E a \in (1..k) \cup (l..Len(new)) : a \in DOMAIN new /\ z[i] = new[a]
                                \/ \E b \in DOMAIN s : z[i] = s[b]
         /\ \A a \in (1..k) \cup (l..Len(new)) : \E i \in DOMAIN z : z[i] = new[a]
         /\ \A b \in DOMAIN s : \E i \in DOMAIN z : z[i] = s[b]
<1>1. PICK u, n : u = new /\ n = Len(new)
  OBVIOUS
<1>2. /\ n \in Nat /\ DOMAIN u = 1..n /\ \A i \in 1..n : u[i] \in ModStep
      /\ \A i \in DOMAIN s : s[i] \in ModStep
  BY <1>1, NewIs
<1>3. IsCut(z, u, k, l, s) /\ n = Len(u) /\ l <= n + 1
  BY <1>1
<1>4. \A i \in 1..k : i \in 1..n
  BY <1>1, <1>2
<1>5. \A i \in l..n : i \in 1..n
  BY <1>1, <1>2
<1>6. ASSUME NEW a \in 1..n, NEW b \in DOMAIN s
      PROVE  /\ u[a].id # s[b].id /\ WrittenFirst(u[a].id, s[b].id) /\ WrittenFirst(s[b].id, u[a].id)
  <2>1. s[b].id \notin BaseIds /\ s[b].id \notin IdsOf(new)
    BY LeftIs
  <2>2. u[a].id \in IdsOf(new)
    BY <1>1, <1>2 DEF IdsOf
  <2>3. QED BY <2>1, <2>2 DEF WrittenFirst
<1>7. PairsIn(z, StepsThatFit)
  <2>2. \A i \in 1..k, j \in DOMAIN s : <<u[i], s[j]>> \in StepsThatFit
    <3>1. \A i \in 1..k, j \in DOMAIN s : Fits(u[i], s[j])
      BY <1>1, <1>4, <1>6 DEF Fits
    <3>2. QED BY <1>2, <1>4, <3>1, ModStepIs
  <2>3. \A i \in DOMAIN s, j \in l..Len(u) : <<s[i], u[j]>> \in StepsThatFit
    <3>1. \A i \in DOMAIN s, j \in l..n : Fits(s[i], u[j])
      BY <1>1, <1>5, <1>6 DEF Fits
    <3>2. QED BY <1>2, <1>3, <1>5, <3>1, ModStepIs
  <2>4. PairsIn(u, StepsThatFit)
    BY <1>1 DEF ModInv
  <2>5. l <= Len(u) + 1
    BY <1>1
  <2>6. QED BY <1>3, <2>2, <2>3, <2>4, <2>5, CutPairs
<1>8. ASSUME NEW i \in DOMAIN z
      PROVE  \/ \E a \in (1..k) \cup (l..n) : a \in DOMAIN u /\ z[i] = u[a]
             \/ \E b \in DOMAIN s : z[i] = s[b]
  <2>1. \/ i \in 1..k /\ z[i] = u[i]
        \/ i - k \in 1..Len(s) /\ z[i] = s[i - k]
        \/ i - k - Len(s) + l - 1 \in l..Len(u) /\ z[i] = u[i - k - Len(s) + l - 1]
    BY <1>3 DEF IsCut
  <2>2. DOMAIN s = 1..Len(s)
    BY <1>3 DEF IsCut
  <2>3. CASE i \in 1..k /\ z[i] = u[i]
    BY <1>2, <1>4, <2>3
  <2>4. CASE i - k \in 1..Len(s) /\ z[i] = s[i - k]
    BY <2>2, <2>4
  <2>5. CASE i - k - Len(s) + l - 1 \in l..Len(u) /\ z[i] = u[i - k - Len(s) + l - 1]
    <3>1. PICK a : a = i - k - Len(s) + l - 1
      OBVIOUS
    <3>2. a \in l..n /\ z[i] = u[a]
      BY <1>3, <2>5, <3>1
    <3>3. QED BY <1>2, <1>5, <3>2
  <2>6. QED BY <2>1, <2>3, <2>4, <2>5
<1>9. ASSUME NEW a \in (1..k) \cup (l..n) PROVE \E i \in DOMAIN z : z[i] = u[a]
  <2>1. CASE a \in 1..k
    BY <1>3, <2>1 DEF IsCut
  <2>2. CASE a \in l..n
    BY <1>3, <2>2 DEF IsCut
  <2>3. QED BY <2>1, <2>2
<1>10. ASSUME NEW b \in DOMAIN s PROVE \E i \in DOMAIN z : z[i] = s[b]
  BY <1>3 DEF IsCut
<1>11. QED BY <1>1, <1>7, <1>8, <1>9, <1>10

\* Modifiers of this pass that bring in steps: those of a group, or one that appends.
LEMMA SpliceKeeps ==
  ASSUME ModConstants, ModInv, UNCHANGED <<mods, pass>>, NEW group \in SUBSET left, left' = left \ group,
         applied' = applied \cup group, NEW s \in Seq(ModStep), NEW k \in 0..Len(new), new' = Splice(k, s),
         \A b \in DOMAIN s : s[b].id \in group, \A m \in group : \E b \in DOMAIN s : s[b].id = m,
         PairsIn(s, StepsThatFit), \A m \in group : mods[m].action \notin {"replace", "remove"},
         \A m \in group : Injects(m) => mods[m].target # m /\ mods[m].target \in IdsOf(new) \cup {FirstStep, LastStep},
         \A a \in 1..k, b \in DOMAIN s : OnItsSide(new[a].id, s[b].id) /\ (Declared => new[a].phase <= s[b].phase),
         \A b \in DOMAIN s, a \in (k + 1)..Len(new) :
            OnItsSide(s[b].id, new[a].id) /\ (Declared => s[b].phase <= new[a].phase)
  PROVE  ModInv'
<1>1. PICK u, n, l : u = new /\ n = Len(u) /\ l = k + 1
  OBVIOUS
<1>2. /\ u \in Seq(ModStep) /\ n \in Nat /\ DOMAIN u = 1..n /\ k \in Nat /\ l \in Nat /\ k <= n
      /\ k < l /\ l <= n + 1 /\ k \in 0..n
  BY <1>1, NewIs
<1>3. PICK z : z = SubSeq(u, 1, k) \o s \o SubSeq(u, l, Len(u))
  OBVIOUS
<1>4. new' = z
  BY <1>1, <1>3, Zenon DEF Splice
<1>5. z \in Seq(ModStep) /\ IsCut(z, u, k, l, s)
  <2>1. l \in (k + 1)..(n + 1)
    BY <1>1, <1>2
  <2>2. QED BY <1>1, <1>2, <1>3, <2>1, CutElements
<1>6. /\ PairsIn(z, StepsThatFit)
      /\ \A i \in DOMAIN z : (\E a \in DOMAIN u : z[i] = u[a]) \/ \E b \in DOMAIN s : z[i] = s[b]
      /\ \A a \in DOMAIN u : \E i \in DOMAIN z : z[i] = u[a]
      /\ \A b \in DOMAIN s : \E i \in DOMAIN z : z[i] = s[b]
  <2>1. (1..k) \cup (l..n) = DOMAIN u
    BY <1>1, <1>2
  <2>2. \A b \in DOMAIN s : s[b].id \in left
    OBVIOUS
  <2>3. IsCut(z, new, k, l, s) /\ l <= Len(new) + 1
    BY <1>1, <1>2, <1>5
  <2>4. \A b \in DOMAIN s, a \in l..Len(new) : OnItsSide(s[b].id, new[a].id) /\ (Declared => s[b].phase <= new[a].phase)
    BY <1>1
  <2>5. /\ PairsIn(z, StepsThatFit)
        /\ \A i \in DOMAIN z : \/ \E a \in (1..k) \cup (l..Len(new)) : a \in DOMAIN new /\ z[i] = new[a]
                               \/ \E b \in DOMAIN s : z[i] = s[b]
        /\ \A a \in (1..k) \cup (l..Len(new)) : \E i \in DOMAIN z : z[i] = new[a]
        /\ \A b \in DOMAIN s : \E i \in DOMAIN z : z[i] = s[b]
    BY <1>2, <1>5, <2>2, <2>3, <2>4, ModCut
  <2>6. QED BY <1>1, <2>1, <2>5
<1>7. IdsOf(z) = IdsOf(new) \cup group
  <2>1. ASSUME NEW i \in DOMAIN z PROVE z[i].id \in IdsOf(new) \cup group
    BY <1>1, <1>6 DEF IdsOf
  <2>2. ASSUME NEW a \in DOMAIN u PROVE \E i \in DOMAIN z : z[i].id = u[a].id
    BY <1>6
  <2>3. ASSUME NEW m \in group PROVE \E i \in DOMAIN z : z[i].id = m
    BY <1>6
  <2>4. QED BY <1>1, <2>1, <2>2, <2>3 DEF IdsOf
<1>8. ASSUME NEW i \in DOMAIN z
      PROVE  /\ z[i].id \in BaseIds => \E j \in DOMAIN BaseSteps : z[i] = BaseSteps[j]
             /\ z[i].id \in Modifiers => z[i].id \in applied \cup group
  <2>1. CASE \E a \in DOMAIN u : z[i] = u[a]
    BY <1>1, <2>1 DEF ModInv
  <2>2. CASE \E b \in DOMAIN s : z[i] = s[b]
    <3>1. z[i].id \in group
      BY <2>2
    <3>2. z[i].id \notin BaseIds
      BY <3>1, LeftIs
    <3>3. QED BY <3>1, <3>2
  <2>3. QED BY <1>6, <2>1, <2>2
<1>9. LostIn(IdsOf(z), Taken') /\ Taken' = Taken
  <2>1. Taken' = Taken
    BY DEF Taken
  <2>2. \A m \in group : m \notin BaseIds
    BY LeftIs
  <2>3. BaseIds \ IdsOf(z) = BaseIds \ IdsOf(new)
    BY <1>7, <2>2
  <2>4. LostIn(IdsOf(new), Taken)
    BY DEF ModInv
  <2>5. QED BY <2>1, <2>3, <2>4 DEF LostIn
<1>10. /\ applied' \subseteq Modifiers /\ left' \subseteq Of(pass)' /\ left' \cap applied' = {}
       /\ \A m \in applied' : PassOf(mods[m].action) <= pass
  <2>1. \A m \in group : m \in Modifiers /\ PassOf(mods[m].action) = pass
    BY LeftIs
  <2>2. pass \in Nat
    BY DEF ModInv
  <2>3. Of(pass)' = Of(pass)
    BY DEF Of, Usable
  <2>4. QED BY <2>1, <2>2, <2>3 DEF ModInv
<1>11. /\ \A m \in applied' : mods[m].action \notin {"replace", "remove"} => m \in IdsOf(z)
       /\ \A m \in applied' : Injects(m) => mods[m].target # m /\ mods[m].target \in IdsOf(z) \cup {FirstStep, LastStep}
  BY <1>7 DEF ModInv
<1>12. PairsIn(new, StepsThatFit)' /\ IdsOf(new)' = IdsOf(z)
  BY <1>4, <1>6, ModSame DEF PairsIn, IdsOf
<1>13. mods' \in [Modifiers -> Accepted] /\ pass' \in 1..5 /\ (new \in Seq(ModStep))'
  BY <1>4, <1>5 DEF ModInv, ModStep
<1>14. \A m : Injects(m)' = Injects(m)
  BY ModSame
<1>15. LostIn(IdsOf(new), Taken)'
  BY <1>9, <1>12 DEF LostIn
<1>16. QED BY <1>4, <1>8, <1>9, <1>10, <1>11, <1>12, <1>13, <1>14, <1>15 DEF ModInv

\* A modifier takes the i-th step away, and at most its own takes the place.
LEMMA TakenKeeps ==
  ASSUME ModConstants, ModInv, UNCHANGED <<mods, pass>>, pass = 1, NEW m \in left, left' = left \ {m},
         applied' = applied \cup {m}, mods[m].action \in {"replace", "remove"}, NEW i \in DOMAIN new,
         NEW s \in Seq(ModStep), \A b \in DOMAIN s : s[b].id = m, PairsIn(s, StepsThatFit),
         NEW z \in Seq(ModStep), IsCut(z, new, i - 1, i + 1, s), new' = z,
         \A b \in DOMAIN s : Declared => s[b].phase = new[i].phase
  PROVE  ModInv'
<1>1. PICK u, n, k, l : u = new /\ n = Len(u) /\ k = i - 1 /\ l = i + 1
  OBVIOUS
<1>2. /\ u \in Seq(ModStep) /\ n \in Nat /\ DOMAIN u = 1..n /\ \A a \in 1..n : u[a] \in ModStep /\ u[a].phase \in Nat
      /\ \A a, b \in 1..n : a < b => Fits(u[a], u[b])
      /\ \A a, b \in 1..n : u[a].id = u[b].id => a = b
  BY <1>1, NewIs
<1>3. /\ i \in 1..n /\ i \in Nat /\ k \in Nat /\ l \in Nat /\ k < l /\ l <= n + 1
      /\ (1..k) \cup (l..n) = (1..n) \ {i}
  BY <1>1, <1>2
<1>4. ASSUME NEW a \in Modifiers, Injects(a) PROVE a # m /\ \A b \in 1..n : u[b].id # a
  <2>1. PassOf(mods[a].action) # 1
    BY <1>4 DEF Injects, PassOf
  <2>2. PassOf(mods[a].action) \in Nat /\ PassOf(mods[a].action) # 0
    BY <1>4 DEF Injects, PassOf
  <2>3. a \notin applied
    BY <2>1, <2>2 DEF ModInv
  <2>4. PassOf(mods[m].action) = 1
    BY LeftIs
  <2>5. \A b \in 1..n : u[b].id # a
    <3>1. \A b \in DOMAIN new : new[b].id \in Modifiers => new[b].id \in applied
      BY DEF ModInv
    <3>2. u = new /\ DOMAIN u = 1..n
      BY <1>1, <1>2
    <3>3. QED BY <1>4, <2>3, <3>1, <3>2, Zenon
  <2>6. QED BY <2>1, <2>4, <2>5
<1>5. ASSUME NEW b \in 1..n PROVE OnItsSide(u[b].id, m) /\ OnItsSide(m, u[b].id)
  BY <1>4 DEF OnItsSide, Injects
<1>6. ASSUME NEW a \in 1..k, NEW b \in DOMAIN s
      PROVE  OnItsSide(u[a].id, s[b].id) /\ (Declared => u[a].phase <= s[b].phase)
  <2>1. a \in 1..n /\ a < i
    BY <1>1, <1>2, <1>3
  <2>2. Fits(u[a], u[i])
    BY <1>2, <1>3, <2>1
  <2>3. QED BY <1>1, <1>5, <2>1, <2>2 DEF Fits
<1>7. ASSUME NEW b \in DOMAIN s, NEW a \in l..n
      PROVE  OnItsSide(s[b].id, u[a].id) /\ (Declared => s[b].phase <= u[a].phase)
  <2>1. a \in 1..n /\ i < a
    BY <1>1, <1>2, <1>3
  <2>2. Fits(u[i], u[a])
    BY <1>2, <1>3, <2>1
  <2>3. QED BY <1>1, <1>5, <2>1, <2>2 DEF Fits
<1>8. /\ PairsIn(z, StepsThatFit)
      /\ \A j \in DOMAIN z : (\E a \in (1..n) \ {i} : z[j] = u[a]) \/ \E b \in DOMAIN s : z[j] = s[b]
      /\ \A a \in (1..n) \ {i} : \E j \in DOMAIN z : z[j] = u[a]
      /\ \A b \in DOMAIN s : \E j \in DOMAIN z : z[j] = s[b]
  <2>1. \A b \in DOMAIN s : s[b].id \in left
    OBVIOUS
  <2>2. IsCut(z, new, k, l, s) /\ l <= Len(new) + 1 /\ n = Len(new)
    BY <1>1, <1>3
  <2>3. /\ \A a \in 1..k, b \in DOMAIN s : OnItsSide(new[a].id, s[b].id) /\ (Declared => new[a].phase <= s[b].phase)
        /\ \A b \in DOMAIN s, a \in l..Len(new) :
             OnItsSide(s[b].id, new[a].id) /\ (Declared => s[b].phase <= new[a].phase)
    BY <1>1, <1>6, <1>7
  <2>4. /\ PairsIn(z, StepsThatFit)
        /\ \A j \in DOMAIN z : \/ \E a \in (1..k) \cup (l..Len(new)) : a \in DOMAIN new /\ z[j] = new[a]
                               \/ \E b \in DOMAIN s : z[j] = s[b]
        /\ \A a \in (1..k) \cup (l..Len(new)) : \E j \in DOMAIN z : z[j] = new[a]
        /\ \A b \in DOMAIN s : \E j \in DOMAIN z : z[j] = s[b]
    BY <1>3, <2>1, <2>2, <2>3, ModCut
  <2>5. QED BY <1>1, <1>3, <2>4
<1>9. \A j \in DOMAIN z : z[j].id \in (IdsOf(new) \ {u[i].id}) \cup {m}
  <2>1. ASSUME NEW j \in DOMAIN z, NEW a \in (1..n) \ {i}, z[j] = u[a] PROVE z[j].id \in IdsOf(new) \ {u[i].id}
    BY <1>1, <1>2, <1>3, <2>1 DEF IdsOf
  <2>2. QED BY <1>8, <2>1
<1>10. \A x \in IdsOf(new) \ {u[i].id} : \E j \in DOMAIN z : z[j].id = x
  <2>1. ASSUME NEW x \in IdsOf(new) \ {u[i].id} PROVE \E j \in DOMAIN z : z[j].id = x
    <3>1. PICK a \in 1..n : u[a].id = x
      BY <1>1, <1>2 DEF IdsOf
    <3>2. a # i
      BY <3>1
    <3>3. QED BY <1>8, <3>1, <3>2
  <2>2. QED BY <2>1
<1>11. IdsOf(z) \subseteq (IdsOf(new) \ {u[i].id}) \cup {m} /\ IdsOf(new) \ {u[i].id} \subseteq IdsOf(z)
  BY <1>9, <1>10 DEF IdsOf
<1>12. m \notin BaseIds /\ m \in Modifiers /\ m \notin applied
  BY LeftIs
<1>13. ASSUME NEW j \in DOMAIN z
       PROVE  /\ z[j].id \in BaseIds => \E a \in DOMAIN BaseSteps : z[j] = BaseSteps[a]
              /\ z[j].id \in Modifiers => z[j].id \in applied \cup {m}
  <2>1. CASE \E a \in (1..n) \ {i} : z[j] = u[a]
    BY <1>1, <1>2, <2>1 DEF ModInv
  <2>2. CASE \E b \in DOMAIN s : z[j] = s[b]
    BY <1>12, <2>2
  <2>3. QED BY <1>8, <2>1, <2>2
<1>14. Taken' = Taken \cup {m} /\ m \notin Taken
  BY <1>12 DEF Taken
<1>15. LostIn(IdsOf(z), Taken \cup {m})
  <2>1. PICK old, lost : old = BaseIds \ IdsOf(new) /\ lost = BaseIds \ IdsOf(z)
    OBVIOUS
  <2>2. PICK f \in [old -> Taken] : \A x, y \in old : f[x] = f[y] => x = y
    BY <2>1 DEF ModInv, LostIn
  <2>3. lost \subseteq old \cup {u[i].id}
    BY <1>11, <2>1
  <2>4. u[i].id \notin old
    BY <1>1, <1>2, <1>3, <2>1 DEF IdsOf
  <2>5. PICK g : g = [x \in lost |-> IF x \in old THEN f[x] ELSE m]
    OBVIOUS
  <2>6. g \in [lost -> Taken \cup {m}]
    BY <2>2, <2>5
  <2>7. ASSUME NEW x \in lost, NEW y \in lost, g[x] = g[y] PROVE x = y
    <3>1. \A e \in old : f[e] \in Taken /\ f[e] # m
      BY <1>14, <2>2
    <3>2. CASE x \in old /\ y \in old
      BY <2>2, <2>5, <2>7, <3>2
    <3>3. CASE x \notin old /\ y \notin old
      BY <2>3, <3>3
    <3>4. CASE x \in old /\ y \notin old
      BY <2>5, <2>7, <3>1, <3>4
    <3>5. CASE x \notin old /\ y \in old
      BY <2>5, <2>7, <3>1, <3>5
    <3>6. QED BY <3>2, <3>3, <3>4, <3>5
  <2>8. QED BY <2>1, <2>6, <2>7 DEF LostIn
<1>16. /\ applied' \subseteq Modifiers /\ left' \subseteq Of(pass)' /\ left' \cap applied' = {}
       /\ \A a \in applied' : PassOf(mods[a].action) <= pass
  <2>1. PassOf(mods[m].action) = pass /\ pass \in Nat
    BY LeftIs
  <2>2. Of(pass)' = Of(pass)
    BY DEF Of, Usable
  <2>3. QED BY <1>12, <2>1, <2>2 DEF ModInv
<1>17. ASSUME NEW a \in applied' PROVE ~Injects(a) /\ mods[a].action \in {"replace", "remove"}
  <2>1. PassOf(mods[a].action) <= 1 /\ a \in Modifiers
    BY <1>16
  <2>2. mods[a].action \in {"append", "inject_before", "inject_after", "replace", "remove"}
    BY <2>1 DEF ModInv, Accepted
  <2>3. QED BY <2>1, <2>2 DEF PassOf, Injects
<1>18. PairsIn(new, StepsThatFit)' /\ IdsOf(new)' = IdsOf(z)
  BY <1>8, ModSame DEF PairsIn, IdsOf
<1>19. mods' \in [Modifiers -> Accepted] /\ pass' \in 1..5 /\ (new \in Seq(ModStep))'
  BY DEF ModInv, ModStep
<1>20. \A a : Injects(a)' = Injects(a)
  BY ModSame
<1>21. LostIn(IdsOf(new), Taken)'
  BY <1>14, <1>15, <1>18 DEF LostIn
<1>22. QED BY <1>13, <1>16, <1>17, <1>18, <1>19, <1>20, <1>21 DEF ModInv

LEMMA LowerIsTotal ==
  ASSUME ModConstants, ModInv, NEW S \in SUBSET left, NEW R, R = {e \in S \X S : Lower(e[1], e[2])}
  PROVE  TotalOn(S, R) /\ IsFiniteSet(S)
<1>1. \A a, b \in S : <<a, b>> \in R <=> Lower(a, b)
  OBVIOUS
<1>2. \A a \in S : a \in Nat /\ mods[a].priority \in Int
  BY LeftIs
<1>3. TotalOn(S, R)
  BY <1>1, <1>2 DEF TotalOn, Lower
<1>4. IsFiniteSet(S)
  <2>1. S \subseteq Modifiers
    BY LeftIs
  <2>2. QED BY <2>1, FS_Subset DEF ModConstants
<1>5. QED BY <1>3, <1>4

LEMMA FirstOfIs == ASSUME ModConstants, ModInv, left # {} PROVE FirstOf(left) \in left
<1>1. PICK S, R : S = left /\ R = {e \in S \X S : Earlier(e[1], e[2])}
  OBVIOUS
<1>2. \A a, b \in S : <<a, b>> \in R <=> Earlier(a, b)
  BY <1>1
<1>3. \A a \in S : a \in Nat /\ a \in Modifiers /\ mods[a].priority \in Int /\ mods[a].phase \in Int
  BY <1>1, LeftIs
<1>4. TotalOn(S, R)
  <2>1. \A a \in S : ~Earlier(a, a)
    BY <1>3 DEF Earlier, Lower
  <2>2. \A a, b \in S : a = b \/ Earlier(a, b) \/ Earlier(b, a)
    BY <1>3 DEF Earlier, Lower
  <2>3. \A a, b, c \in S : Earlier(a, b) /\ Earlier(b, c) => Earlier(a, c)
    BY <1>3 DEF Earlier, Lower
  <2>4. QED BY <1>2, <2>1, <2>2, <2>3 DEF TotalOn
<1>5. IsFiniteSet(S)
  BY <1>1, <1>3, FS_Subset DEF ModConstants
<1>6. PICK o : o = Ordered(S, R)
  OBVIOUS
<1>7. /\ DOMAIN o = 1..Cardinality(S) /\ Cardinality(S) \in Nat
      /\ \A x \in S : \E n \in DOMAIN o : o[n] = x
      /\ \A m, n \in DOMAIN o : m < n => <<o[m], o[n]>> \in R
      /\ o \in Seq(S)
  BY <1>4, <1>5, <1>6, OrderedKeeps
<1>8. 1 \in DOMAIN o
  <2>1. PICK x \in S : TRUE
    BY <1>1
  <2>2. PICK n \in DOMAIN o : o[n] = x
    BY <1>7, <2>1
  <2>3. QED BY <1>7, <2>2
<1>9. o[1] \in S
  BY <1>7, <1>8
<1>10. ASSUME NEW x \in S \ {o[1]} PROVE Earlier(o[1], x)
  <2>1. PICK n \in DOMAIN o : o[n] = x
    BY <1>7
  <2>2. n # 1 /\ n \in Nat /\ 1 <= n
    BY <1>7, <2>1
  <2>5. 1 < n
    BY <2>2
  <2>3. <<o[1], x>> \in R
    <3>1. <<o[1], o[n]>> \in R
      BY <1>7, <1>8, <2>1, <2>5
    <3>2. QED BY <2>1, <3>1
  <2>4. QED BY <1>2, <1>9, <2>3
<1>11. \E m \in S : \A n \in S \ {m} : Earlier(m, n)
  BY <1>9, <1>10
<1>12. QED BY <1>1, <1>11, Zenon DEF FirstOf

LEMMA ModUnchanged == ASSUME ModConstants, ModInv, UNCHANGED <<mods, pass, new, applied>>, left' \subseteq left PROVE ModInv'
<1>1. StepsThatFit' = StepsThatFit /\ (\A m : Injects(m)' = Injects(m)) /\ Of(pass)' = Of(pass)
  BY ModSame
<1>2. PairsIn(new, StepsThatFit)' /\ IdsOf(new)' = IdsOf(new) /\ Taken' = Taken
  BY <1>1 DEF ModInv, PairsIn, IdsOf, Taken
<1>3. LostIn(IdsOf(new), Taken)'
  BY <1>2 DEF ModInv, LostIn
<1>4. (new \in Seq(ModStep))' /\ mods' \in [Modifiers -> Accepted]
  BY DEF ModInv, ModStep
<1>5. left' \subseteq Of(pass)' /\ left' \cap applied' = {} /\ pass' \in 1..5 /\ applied' \subseteq Modifiers
  BY <1>1 DEF ModInv
<1>6. QED BY <1>1, <1>2, <1>3, <1>4, <1>5 DEF ModInv

\* Next to a step it does not target, a newcomer is on nobody's wrong side.
LEMMA NewcomerSide ==
  ASSUME ModConstants, ModInv, NEW m \in left, NEW a \in DOMAIN new
  PROVE  /\ (~Injects(m) \/ mods[m].target # new[a].id) => OnItsSide(new[a].id, m) /\ OnItsSide(m, new[a].id)
         /\ mods[m].action = "inject_before" => OnItsSide(new[a].id, m) \/ mods[m].target = new[a].id
         /\ mods[m].action = "inject_before" => OnItsSide(m, new[a].id)
         /\ mods[m].action = "inject_after" => OnItsSide(new[a].id, m)
<1>1. m \in Modifiers /\ m \notin IdsOf(new) /\ m \notin applied /\ m # FirstStep /\ m # LastStep
  BY LeftIs
<1>2. new[a].id # m
  BY <1>1 DEF IdsOf
<1>3. ASSUME NEW b \in Modifiers, Injects(b), new[a].id = b PROVE mods[b].target # m
  <2>1. b \in applied
    BY <1>3 DEF ModInv
  <2>2. mods[b].target \in IdsOf(new) \cup {FirstStep, LastStep}
    BY <1>3, <2>1 DEF ModInv
  <2>3. QED BY <1>1, <2>2
<1>4. QED BY <1>1, <1>2, <1>3 DEF OnItsSide, Injects

\* If phases are declared, a modifier's step has the phase of the step it targets.
LEMMA TargetPhase ==
  ASSUME ModConstants, ModInv, NEW m \in left, mods[m].action # "append", Declared, NEW i \in DOMAIN new,
         mods[m].target \in BaseIds => new[i].id = mods[m].target
  PROVE  StepFor(m).phase = new[i].phase
<1>1. m \in Modifiers /\ Usable(m)
  BY LeftIs
<1>2. PICK j \in DOMAIN BaseSteps : BaseSteps[j].id = mods[m].target /\ BaseSteps[j].phase = mods[m].phase
  BY <1>1 DEF Declared
<1>3. mods[m].target \in BaseIds
  BY <1>2, ModStepIs
<1>4. new[i].id = BaseSteps[j].id /\ new[i].id \in BaseIds
  BY <1>2, <1>3
<1>5. PICK c \in DOMAIN BaseSteps : new[i] = BaseSteps[c]
  BY <1>4 DEF ModInv
<1>6. c = j
  BY <1>4, <1>5, ModStepIs
<1>7. mods[m].phase \in 1..PhaseCount
  BY <1>1 DEF Usable
<1>8. QED BY <1>2, <1>5, <1>6, <1>7 DEF StepFor

LEMMA ReplaceOrRemoveKeeps == ASSUME ModConstants, ModInv, ReplaceOrRemove PROVE ModInv'
<1>1. PICK m, i : m = FirstOf(left) /\ i = Index(mods[m].target)
  OBVIOUS
<1>2. /\ pass = 1 /\ left # {} /\ left' = left \ {m} /\ UNCHANGED <<mods, pass>>
      /\ \/ i = 0 /\ UNCHANGED <<new, applied>>
         \/ /\ i > 0 /\ applied' = applied \cup {m}
            /\ new' = IF mods[m].action = "remove" THEN RemoveAt(new, i) ELSE ReplaceAt(new, i, StepFor(m))
  BY <1>1, Zenon DEF ReplaceOrRemove
<1>3. m \in left /\ m \in Modifiers
  BY <1>1, <1>2, FirstOfIs, LeftIs
<1>4. CASE i = 0 /\ UNCHANGED <<new, applied>>
  BY <1>2, <1>4, ModUnchanged
<1>5. CASE /\ i > 0 /\ applied' = applied \cup {m}
           /\ new' = IF mods[m].action = "remove" THEN RemoveAt(new, i) ELSE ReplaceAt(new, i, StepFor(m))
  <2>1. i \in DOMAIN new /\ (mods[m].target \in BaseIds => new[i].id = mods[m].target)
    BY <1>1, <1>5, IndexIs
  <2>2. mods[m].action \in {"replace", "remove"}
    <3>1. PassOf(mods[m].action) = 1 /\ mods[m].action \in {"append", "inject_before", "inject_after", "replace", "remove"}
      BY <1>2, <1>3, LeftIs
    <3>2. QED BY <3>1 DEF PassOf
  <2>3. PICK u, n, k, l : u = new /\ n = Len(u) /\ k = i - 1 /\ l = i + 1
    OBVIOUS
  <2>4. u \in Seq(ModStep) /\ n \in Nat /\ DOMAIN u = 1..n /\ i \in DOMAIN u /\ i \in Nat
    BY <2>1, <2>3, NewIs
  <2>5. k \in 0..n /\ l \in (k + 1)..(n + 1)
    BY <2>3, <2>4
  <2>6. CASE mods[m].action = "remove"
    <3>1. PICK a, b, e, z : a = SubSeq(u, 1, k) /\ b = SubSeq(u, l, n) /\ e = <<>> /\ z = a \o b
      OBVIOUS
    <3>2. new' = z
      <4>1. new' = RemoveAt(new, i)
        BY <1>5, <2>6
      <4>2. QED BY <2>3, <3>1, <4>1, Zenon DEF RemoveAt
    <3>3. e \in Seq(ModStep) /\ DOMAIN e = {}
      BY <3>1
    <3>4. a \in Seq(ModStep)
      <4>1. \A j \in 1..k : u[j] \in ModStep
        BY <2>4, <2>5
      <4>2. k \in Int
        BY <2>4, <2>5
      <4>3. QED BY <3>1, <4>1, <4>2, SubSeqProperties
    <3>5. a \o e = a
      BY <3>1, <3>4, ConcatEmptySeq
    <3>6. z \in Seq(ModStep) /\ IsCut(z, u, k, l, e)
      <4>1. (a \o e \o b) \in Seq(ModStep) /\ IsCut(a \o e \o b, u, k, l, e)
        BY <2>3, <2>4, <2>5, <3>1, <3>3, CutElements
      <4>2. QED BY <3>1, <3>5, <4>1
    <3>7. IsCut(z, new, i - 1, i + 1, e)
      BY <2>3, <3>6
    <3>8. PairsIn(e, StepsThatFit)
      BY <3>3 DEF PairsIn
    <3>9. QED BY <1>2, <1>3, <1>5, <2>1, <2>2, <3>2, <3>3, <3>6, <3>7, <3>8, TakenKeeps
  <2>7. CASE mods[m].action # "remove"
    <3>1. PICK x, z, s : x = StepFor(m) /\ z = [u EXCEPT ![i] = x] /\ s = <<x>>
      OBVIOUS
    <3>2. x \in ModStep /\ x.id = m
      BY <1>3, <3>1, StepForIs
    <3>3. z \in Seq(ModStep) /\ s \in Seq(ModStep) /\ IsCut(z, u, i - 1, i + 1, s)
      BY <2>4, <3>1, <3>2, ReplaceElements
    <3>4. new' = z
      BY <1>5, <2>3, <2>7, <3>1 DEF ReplaceAt
    <3>5. DOMAIN s = {1} /\ s[1] = x
      BY <3>1
    <3>6. PairsIn(s, StepsThatFit)
      BY <3>5 DEF PairsIn
    <3>7. ASSUME Declared PROVE x.phase = new[i].phase
      BY <1>3, <2>1, <2>2, <2>7, <3>1, <3>7, TargetPhase
    <3>8. IsCut(z, new, i - 1, i + 1, s)
      BY <2>3, <3>3
    <3>9. \A b \in DOMAIN s : s[b].id = m
      BY <3>2, <3>5
    <3>10. \A b \in DOMAIN s : Declared => s[b].phase = new[i].phase
      BY <3>5, <3>7
    <3>11. QED BY <1>2, <1>3, <1>5, <2>1, <2>2, <3>3, <3>4, <3>6, <3>8, <3>9, <3>10, TakenKeeps
  <2>8. QED BY <2>6, <2>7
<1>6. QED BY <1>2, <1>4, <1>5

LEMMA AppendKeeps == ASSUME ModConstants, ModInv, AppendToPhase PROVE ModInv'
<1>1. PICK m, x, k, s : m = FirstOf(left) /\ x = StepFor(m) /\ k = EndOfPhase(m) /\ s = <<x>>
  OBVIOUS
<1>2. PICK later, least : later = Later(m) /\ least = CHOOSE c \in later : \A j \in later : c <= j
  OBVIOUS
<1>3. /\ later = {j \in DOMAIN new : new[j].phase > x.phase}
      /\ k = IF later = {} THEN Len(new) ELSE least - 1
  BY <1>1, <1>2 DEF Later, EndOfPhase
<1>4. /\ pass = 4 /\ left # {} /\ left' = left \ {m} /\ applied' = applied \cup {m} /\ UNCHANGED <<mods, pass>>
      /\ new' = Splice(k, s)
  BY <1>1, Zenon DEF AppendToPhase
<1>5. m \in left /\ m \in Modifiers
  BY <1>1, <1>4, FirstOfIs, LeftIs
<1>6. x \in ModStep /\ x.id = m /\ x.phase \in Nat
  BY <1>1, <1>5, StepForIs, ModStepIs
<1>7. s \in Seq(ModStep) /\ DOMAIN s = {1} /\ s[1] = x /\ PairsIn(s, StepsThatFit)
  BY <1>1, <1>6 DEF PairsIn
<1>8. mods[m].action = "append" /\ ~Injects(m)
  <2>1. PassOf(mods[m].action) = 4 /\ mods[m].action \in {"append", "inject_before", "inject_after", "replace", "remove"}
    BY <1>4, <1>5, LeftIs
  <2>2. QED BY <2>1 DEF PassOf, Injects
<1>9. PICK n : n = Len(new)
  OBVIOUS
<1>10. /\ n \in Nat /\ DOMAIN new = 1..n
       /\ \A a \in 1..n : new[a] \in ModStep /\ new[a].phase \in Nat
       /\ \A a, b \in 1..n : a < b => Fits(new[a], new[b])
  BY <1>9, NewIs
<1>11. /\ k \in 0..n /\ (\A a \in 1..k : a \notin later)
       /\ \A a \in (k + 1)..n : a \in 1..n /\ \E c \in later : c = a \/ c < a
  <2>1. CASE later = {}
    <3>1. k = n
      BY <1>3, <1>9, <2>1
    <3>2. (k + 1)..n = {}
      BY <1>10, <3>1
    <3>3. QED BY <1>10, <2>1, <3>1, <3>2
  <2>2. CASE later # {}
    <3>1. later \subseteq 1..n /\ later \in SUBSET Nat
      BY <1>3, <1>10
    <3>2. PICK c \in later : (\A j \in later : c <= j) /\ k = c - 1
      <4>1. \E c \in later : \A j \in later : c <= j
        BY <2>2, <3>1, LeastIsThere
      <4>2. least \in later /\ \A j \in later : least <= j
        BY <1>2, <4>1
      <4>3. QED BY <1>3, <2>2, <4>2
    <3>3. c \in Nat /\ 1 <= c /\ c <= n
      BY <1>10, <3>1
    <3>4. k \in 0..n
      BY <1>10, <3>2, <3>3
    <3>5. \A a \in 1..k : a \notin later
      <4>1. \A a \in 1..k : ~(c <= a)
        BY <3>2, <3>3
      <4>2. QED BY <3>2, <4>1
    <3>6. ASSUME NEW a \in (k + 1)..n PROVE a \in 1..n /\ (c = a \/ c < a)
      <4>1. a \in Int /\ c <= a /\ a <= n
        BY <1>10, <3>2, <3>3
      <4>2. QED BY <1>10, <3>3, <4>1
    <3>7. QED BY <3>4, <3>5, <3>6
  <2>3. QED BY <2>1, <2>2
<1>12. ASSUME NEW a \in 1..k, NEW b \in DOMAIN s
       PROVE  OnItsSide(new[a].id, s[b].id) /\ (Declared => new[a].phase <= s[b].phase)
  <2>1. a \in 1..n /\ a \notin later
    BY <1>10, <1>11
  <2>2. new[a].phase <= x.phase
    BY <1>3, <1>6, <1>10, <2>1
  <2>3. OnItsSide(new[a].id, m)
    BY <1>5, <1>8, <2>1, <1>9, <1>10, NewcomerSide
  <2>4. QED BY <1>6, <1>7, <2>2, <2>3
<1>13. ASSUME NEW b \in DOMAIN s, NEW a \in (k + 1)..n
       PROVE  OnItsSide(s[b].id, new[a].id) /\ (Declared => s[b].phase <= new[a].phase)
  <2>1. a \in 1..n /\ \E c \in later : c = a \/ c < a
    BY <1>11
  <2>2. ASSUME Declared PROVE x.phase <= new[a].phase
    <3>1. PICK c \in later : c = a \/ c < a
      BY <2>1
    <3>2. c \in 1..n /\ new[c].phase > x.phase
      BY <1>3, <1>10
    <3>3. c = a \/ new[c].phase <= new[a].phase
      BY <1>10, <2>1, <2>2, <3>1, <3>2 DEF Fits
    <3>4. QED BY <1>6, <1>10, <2>1, <3>2, <3>3
  <2>3. OnItsSide(m, new[a].id)
    BY <1>5, <1>8, <2>1, <1>9, <1>10, NewcomerSide
  <2>4. QED BY <1>6, <1>7, <2>2, <2>3
<1>14. /\ \A b \in DOMAIN s : s[b].id \in {m}
       /\ \A a \in {m} : \E b \in DOMAIN s : s[b].id = a
       /\ \A a \in {m} : mods[a].action \notin {"replace", "remove"} /\ ~Injects(a)
  BY <1>6, <1>7, <1>8
<1>15. k \in 0..Len(new)
  BY <1>9, <1>11
<1>16. \A b \in DOMAIN s, a \in (k + 1)..Len(new) :
         OnItsSide(s[b].id, new[a].id) /\ (Declared => s[b].phase <= new[a].phase)
  BY <1>9, <1>13
<1>17. {m} \in SUBSET left
  BY <1>5
<1>18. QED BY <1>4, <1>7, <1>12, <1>14, <1>15, <1>16, <1>17, SpliceKeeps

\* The steps of a group of modifiers.
LEMMA StepsForIs ==
  ASSUME ModConstants, ModInv, NEW S \in SUBSET left
  PROVE  /\ StepsFor(S) \in Seq(ModStep)
         /\ \A b \in DOMAIN StepsFor(S) : StepsFor(S)[b].id \in S /\ StepsFor(S)[b] = StepFor(StepsFor(S)[b].id)
         /\ \A m \in S : \E b \in DOMAIN StepsFor(S) : StepsFor(S)[b].id = m
         /\ \A a, b \in DOMAIN StepsFor(S) : a < b => StepsFor(S)[a].id # StepsFor(S)[b].id
<1>1. PICK R : R = {e \in S \X S : Lower(e[1], e[2])}
  OBVIOUS
<1>2. PICK o, s : o = Ordered(S, R) /\ s = [k \in DOMAIN o |-> StepFor(o[k])]
  OBVIOUS
<1>3. StepsFor(S) = s
  BY <1>1, <1>2, Zenon DEF StepsFor
<1>4. TotalOn(S, R) /\ IsFiniteSet(S)
  BY <1>1, LowerIsTotal
<1>5. PICK c : c = Cardinality(S)
  OBVIOUS
<1>6. /\ DOMAIN o = 1..c /\ c \in Nat /\ \A x \in S : \E n \in DOMAIN o : o[n] = x
      /\ \A m, n \in DOMAIN o : o[m] = o[n] => m = n
      /\ o \in Seq(S)
  BY <1>2, <1>4, <1>5, OrderedKeeps
<1>7. \A k \in 1..c : o[k] \in S
  BY <1>6
<1>8. \A m \in S : StepFor(m) \in ModStep /\ StepFor(m).id = m
  BY LeftIs, StepForIs
<1>9. DOMAIN s = 1..c /\ \A k \in 1..c : s[k] = StepFor(o[k]) /\ s[k] \in ModStep /\ s[k].id = o[k]
  BY <1>2, <1>6, <1>7, <1>8
<1>10. s \in Seq(ModStep)
  <2>1. s \in [1..c -> ModStep]
    BY <1>2, <1>6, <1>9
  <2>2. QED BY <1>6, <2>1
<1>11. ASSUME NEW a \in 1..c, NEW b \in 1..c, a < b PROVE s[a].id # s[b].id
  <2>1. a # b
    BY <1>6, <1>11
  <2>2. QED BY <1>6, <1>9, <2>1
<1>12. QED BY <1>3, <1>6, <1>7, <1>9, <1>10, <1>11

LEMMA InjectKeeps == ASSUME ModConstants, ModInv, InjectGroup PROVE ModInv'
<1>1. PICK m, i, group, t : m = FirstOf(left) /\ i = Index(mods[m].target) /\ group = SameTarget(m) /\ t = mods[m].target
  OBVIOUS
<1>2. PICK k, s : k = (IF pass = 2 THEN i - 1 ELSE i) /\ s = StepsFor(group)
  OBVIOUS
<1>3. /\ pass \in {2, 3} /\ left # {} /\ left' = left \ group /\ UNCHANGED <<mods, pass>>
      /\ \/ i = 0 /\ UNCHANGED <<new, applied>>
         \/ i > 0 /\ applied' = applied \cup group /\ new' = Splice(k, s)
  BY <1>1, <1>2, Zenon DEF InjectGroup
<1>4. m \in left
  BY <1>1, <1>3, FirstOfIs
<1>5. group \subseteq left /\ \A a \in group : mods[a].target = t
  BY <1>1 DEF SameTarget
<1>6. CASE i = 0 /\ UNCHANGED <<new, applied>>
  BY <1>3, <1>6, ModUnchanged
<1>7. CASE i > 0 /\ applied' = applied \cup group /\ new' = Splice(k, s)
  <2>1. /\ i \in DOMAIN new /\ t \in IdsOf(new) \cup {FirstStep, LastStep}
        /\ \A a \in DOMAIN new : new[a].id = t => a = i
        /\ t \in BaseIds => new[i].id = t
    BY <1>1, <1>7, IndexIs
  <2>2. PICK n : n = Len(new)
    OBVIOUS
  <2>3. /\ n \in Nat /\ DOMAIN new = 1..n
        /\ \A a \in 1..n : new[a] \in ModStep /\ new[a].phase \in Nat
        /\ \A a, b \in 1..n : a < b => Fits(new[a], new[b])
    BY <2>2, NewIs
  <2>4. i \in 1..n /\ i \in Nat /\ 1 <= i /\ i <= n
    BY <2>1, <2>3
  <2>5. /\ s \in Seq(ModStep)
        /\ \A b \in DOMAIN s : s[b].id \in group /\ s[b] = StepFor(s[b].id)
        /\ \A a \in group : \E b \in DOMAIN s : s[b].id = a
        /\ \A a, b \in DOMAIN s : a < b => s[a].id # s[b].id
        /\ \A b \in DOMAIN s : s[b] \in ModStep /\ s[b].phase \in Nat
    <3>1. /\ s \in Seq(ModStep)
          /\ \A b \in DOMAIN s : s[b].id \in group /\ s[b] = StepFor(s[b].id)
          /\ \A a \in group : \E b \in DOMAIN s : s[b].id = a
          /\ \A a, b \in DOMAIN s : a < b => s[a].id # s[b].id
      BY <1>2, <1>5, StepsForIs
    <3>2. \A b \in DOMAIN s : s[b] \in ModStep
      BY <1>5, <3>1, LeftIs, StepForIs
    <3>3. QED BY <3>1, <3>2, ModStepIs
  <2>6. ASSUME NEW a \in group
        PROVE  /\ Injects(a) /\ a \in left /\ mods[a].target = t /\ mods[a].action # "append" /\ t # a
               /\ mods[a].action \notin {"replace", "remove"}
               /\ mods[a].action = (IF pass = 2 THEN "inject_before" ELSE "inject_after")
    <3>1. /\ a \in left /\ mods[a].target = t /\ PassOf(mods[a].action) = pass
          /\ mods[a].action \in {"append", "inject_before", "inject_after", "replace", "remove"}
          /\ a \notin IdsOf(new) /\ a # FirstStep /\ a # LastStep
      BY <1>5, LeftIs
    <3>2. t # a
      BY <2>1, <3>1
    <3>3. QED BY <1>3, <3>1, <3>2 DEF PassOf, Injects
  <2>7. ASSUME NEW b \in DOMAIN s, Declared PROVE s[b].phase = new[i].phase
    <3>1. s[b].id \in left /\ mods[s[b].id].target = t /\ mods[s[b].id].action # "append" /\ s[b] = StepFor(s[b].id)
      BY <2>5, <2>6
    <3>2. QED BY <2>1, <2>7, <3>1, TargetPhase
  <2>8. ASSUME NEW a \in 1..n, NEW b \in DOMAIN s
        PROVE  /\ a # i => OnItsSide(new[a].id, s[b].id) /\ OnItsSide(s[b].id, new[a].id)
               /\ pass = 2 => OnItsSide(s[b].id, new[a].id)
               /\ pass = 3 => OnItsSide(new[a].id, s[b].id)
    <3>1. s[b].id \in left /\ mods[s[b].id].target = t
      BY <2>5, <2>6
    <3>2. mods[s[b].id].action = (IF pass = 2 THEN "inject_before" ELSE "inject_after")
      BY <2>5, <2>6
    <3>3. a # i => new[a].id # t
      BY <2>1, <2>3
    <3>4. QED BY <2>3, <3>1, <3>2, <3>3, NewcomerSide
  <2>9. PairsIn(s, StepsThatFit)
    <3>1. ASSUME NEW a \in DOMAIN s, NEW b \in DOMAIN s, a < b PROVE <<s[a], s[b]>> \in StepsThatFit
      <4>1. s[a].id # s[b].id /\ s[a].id \in group /\ s[b].id \in group
        BY <2>5, <3>1
      <4>2. s[a].id \notin BaseIds
        BY <1>5, <4>1, LeftIs
      <4>3. ASSUME NEW c \in Modifiers, Injects(c), c \in {s[a].id, s[b].id} PROVE mods[c].target \notin {s[a].id, s[b].id}
        <5>1. c \in group
          BY <4>1, <4>3
        <5>2. QED BY <2>6, <4>1, <5>1
      <4>4. OnItsSide(s[a].id, s[b].id)
        BY <4>3 DEF OnItsSide, Injects
      <4>5. Declared => s[a].phase <= s[b].phase
        BY <2>5, <2>7
      <4>6. Fits(s[a], s[b])
        BY <4>1, <4>2, <4>4, <4>5 DEF Fits, WrittenFirst
      <4>7. QED BY <2>5, <4>6, ModStepIs
    <3>2. QED BY <3>1 DEF PairsIn
  <2>10. /\ k \in 0..n /\ \A a \in 1..k : a \in 1..n /\ (a = i \/ a < i) /\ (pass = 2 => a # i)
         /\ \A a \in (k + 1)..n : a \in 1..n /\ (a = i \/ i < a) /\ (pass = 3 => a # i)
    <3>1. CASE pass = 2
      <4>1. k = i - 1 /\ k + 1 = i
        BY <1>2, <2>4, <3>1
      <4>2. k \in 0..n
        BY <2>3, <2>4, <4>1
      <4>3. ASSUME NEW a \in 1..k PROVE a \in 1..n /\ a < i /\ a # i
        BY <2>3, <2>4, <4>1
      <4>4. ASSUME NEW a \in (k + 1)..n PROVE a \in 1..n /\ (a = i \/ i < a)
        BY <2>3, <2>4, <4>1
      <4>5. QED BY <3>1, <4>2, <4>3, <4>4
    <3>2. CASE pass = 3
      <4>1. k = i
        BY <1>2, <3>2
      <4>2. k \in 0..n
        BY <2>3, <2>4, <4>1
      <4>3. ASSUME NEW a \in 1..k PROVE a \in 1..n /\ (a = i \/ a < i)
        BY <2>3, <2>4, <4>1
      <4>4. ASSUME NEW a \in (k + 1)..n PROVE a \in 1..n /\ i < a /\ a # i
        <5>1. a \in Int /\ i + 1 <= a /\ a <= n
          BY <2>3, <2>4, <4>1
        <5>2. QED BY <2>3, <2>4, <5>1
      <4>5. QED BY <3>2, <4>2, <4>3, <4>4
    <3>3. QED BY <1>3, <3>1, <3>2
  <2>11. ASSUME NEW a \in 1..k, NEW b \in DOMAIN s
         PROVE  OnItsSide(new[a].id, s[b].id) /\ (Declared => new[a].phase <= s[b].phase)
    <3>1. a \in 1..n /\ (a = i \/ a < i) /\ (pass = 2 => a # i)
      BY <2>10
    <3>2. OnItsSide(new[a].id, s[b].id)
      BY <1>3, <2>8, <3>1
    <3>3. ASSUME Declared PROVE new[a].phase <= s[b].phase
      <4>1. new[a].phase <= new[i].phase
        BY <2>3, <2>4, <3>1, <3>3 DEF Fits
      <4>2. QED BY <2>7, <3>3, <4>1
    <3>4. QED BY <3>2, <3>3
  <2>12. ASSUME NEW b \in DOMAIN s, NEW a \in (k + 1)..Len(new)
         PROVE  OnItsSide(s[b].id, new[a].id) /\ (Declared => s[b].phase <= new[a].phase)
    <3>1. a \in 1..n /\ (a = i \/ i < a) /\ (pass = 3 => a # i)
      BY <2>2, <2>10
    <3>2. OnItsSide(s[b].id, new[a].id)
      BY <1>3, <2>8, <3>1
    <3>3. ASSUME Declared PROVE s[b].phase <= new[a].phase
      <4>1. new[i].phase <= new[a].phase
        BY <2>3, <2>4, <3>1, <3>3 DEF Fits
      <4>2. QED BY <2>7, <3>3, <4>1
    <3>4. QED BY <3>2, <3>3
  <2>13. k \in 0..Len(new) /\ group \in SUBSET left
    BY <1>5, <2>2, <2>10
  <2>14. \A a \in group : Injects(a) => mods[a].target # a /\ mods[a].target \in IdsOf(new) \cup {FirstStep, LastStep}
    BY <2>1, <2>6
  <2>15. \A a \in group : mods[a].action \notin {"replace", "remove"}
    BY <2>6
  <2>16. \A b \in DOMAIN s : s[b].id \in group
    BY <2>5
  <2>17. \A a \in group : \E b \in DOMAIN s : s[b].id = a
    BY <2>5
  <2>18. s \in Seq(ModStep)
    BY <2>5
  <2>19. QED BY <1>3, <1>7, <2>9, <2>11, <2>12, <2>13, <2>14, <2>15, <2>16, <2>17, <2>18, SpliceKeeps
<1>8. QED BY <1>3, <1>6, <1>7

LEMMA NextPassKeeps == ASSUME ModConstants, ModInv, NextPass PROVE ModInv'
<1>1. /\ pass < 5 /\ left = {} /\ pass' = pass + 1 /\ left' = (IF pass < 4 THEN Of(pass + 1) ELSE {})
      /\ UNCHANGED <<mods, new, applied>>
  BY DEF NextPass
<1>2. StepsThatFit' = StepsThatFit /\ (\A m : Injects(m)' = Injects(m)) /\ \A n : Of(n)' = Of(n)
  BY <1>1, ModSame
<1>3. PairsIn(new, StepsThatFit)' /\ IdsOf(new)' = IdsOf(new) /\ Taken' = Taken
  BY <1>1, <1>2 DEF ModInv, PairsIn, IdsOf, Taken
<1>4. LostIn(IdsOf(new), Taken)'
  BY <1>3 DEF ModInv, LostIn
<1>5. (new \in Seq(ModStep))' /\ mods' \in [Modifiers -> Accepted]
  BY <1>1 DEF ModInv, ModStep
<1>6. pass \in 1..4 /\ pass' \in 1..5 /\ pass \in Nat
  BY <1>1 DEF ModInv
<1>7. \A m \in applied : PassOf(mods[m].action) <= pass /\ m \in Modifiers /\ PassOf(mods[m].action) \in Nat
  <2>1. \A m \in applied : mods[m].action \in {"append", "inject_before", "inject_after", "replace", "remove"}
    BY DEF ModInv, Accepted
  <2>2. QED BY <2>1 DEF ModInv, PassOf
<1>8. \A m \in applied : PassOf(mods[m].action) <= pass'
  BY <1>1, <1>6, <1>7
<1>9. left' \subseteq Of(pass') /\ left' \cap applied' = {}
  <2>1. \A m \in Of(pass') : m \notin applied
    <3>1. \A m \in Of(pass') : PassOf(mods[m].action) = pass + 1
      BY <1>1 DEF Of
    <3>2. QED BY <1>6, <1>7, <3>1
  <2>2. left' \subseteq Of(pass')
    BY <1>1
  <2>3. QED BY <1>1, <2>1, <2>2
<1>10. left' \subseteq Of(pass)'
  BY <1>1, <1>9 DEF Of, Usable
<1>11. QED BY <1>1, <1>2, <1>3, <1>4, <1>5, <1>6, <1>8, <1>9, <1>10 DEF ModInv

LEMMA ModSteps == ASSUME ModConstants, ModInv, [ModNext]_modVars PROVE ModInv'
<1>1. CASE UNCHANGED modVars
  BY <1>1, ModUnchanged DEF modVars
<1>2. QED BY <1>1, ReplaceOrRemoveKeeps, InjectKeeps, AppendKeeps, NextPassKeeps DEF ModNext

LEMMA ModMeans == ASSUME ModConstants, ModInv PROVE ModifiedAsDeclared /\ ModTypeOK
<1>1. PICK u, n, B : u = new /\ n = Len(u) /\ B = BaseSteps
  OBVIOUS
<1>2. /\ u \in Seq(ModStep) /\ n \in Nat /\ DOMAIN u = 1..n /\ \A i \in DOMAIN u : u[i] \in ModStep /\ u[i].phase \in 1..PhaseCount
      /\ \A i, j \in DOMAIN u : i < j => Fits(u[i], u[j])
      /\ \A i, j \in DOMAIN u : u[i].id = u[j].id => i = j
  BY <1>1, NewIs, ModStepIs
<1>3. /\ B \in Seq(ModStep) /\ Len(B) \in Nat /\ DOMAIN B = 1..Len(B)
      /\ \A i \in DOMAIN B : B[i] \in ModStep /\ B[i].id \in BaseIds
      /\ \A i, j \in DOMAIN B : B[i].id = B[j].id => i = j
  BY <1>1, ModStepIs
<1>4. PICK S, R, K, L : /\ S = {B[i] : i \in {j \in DOMAIN B : B[j].id \in IdsOf(new)}}
                        /\ R = {e \in ModStep \X ModStep : \E i, j \in DOMAIN B : i < j /\ e[1] = B[i] /\ e[2] = B[j]}
                        /\ K = {i \in DOMAIN B : B[i].id \in IdsOf(new)} /\ L = {i \in DOMAIN u : u[i].id \in BaseIds}
  OBVIOUS
<1>5. ASSUME NEW i \in DOMAIN B, NEW j \in DOMAIN B PROVE <<B[i], B[j]>> \in R <=> i < j
  <2>1. ASSUME i < j PROVE <<B[i], B[j]>> \in R
    BY <1>3, <1>4, <2>1
  <2>2. ASSUME <<B[i], B[j]>> \in R PROVE i < j
    <3>1. PICK k \in DOMAIN B, l \in DOMAIN B : k < l /\ B[i] = B[k] /\ B[j] = B[l]
      BY <1>4, <2>2
    <3>2. k = i /\ l = j
      BY <1>3, <3>1
    <3>3. QED BY <3>1, <3>2
  <2>3. QED BY <2>1, <2>2
<1>6. S \in SUBSET {B[i] : i \in DOMAIN B}
  BY <1>4
<1>7. TotalOn(S, R)
  <2>1. ASSUME NEW x \in S PROVE \E i \in DOMAIN B : B[i] = x /\ i \in Nat
    BY <1>3, <1>6
  <2>2. ASSUME NEW x \in S PROVE <<x, x>> \notin R
    <3>1. PICK i \in DOMAIN B : B[i] = x /\ i \in Nat
      BY <2>1
    <3>2. ~(i < i)
      BY <3>1
    <3>3. QED BY <1>5, <3>1, <3>2
  <2>3. ASSUME NEW x \in S, NEW y \in S PROVE x = y \/ <<x, y>> \in R \/ <<y, x>> \in R
    <3>1. PICK i \in DOMAIN B : B[i] = x /\ i \in Nat
      BY <2>1
    <3>2. PICK j \in DOMAIN B : B[j] = y /\ j \in Nat
      BY <2>1
    <3>3. i = j \/ i < j \/ j < i
      BY <3>1, <3>2
    <3>4. QED BY <1>5, <3>1, <3>2, <3>3
  <2>4. ASSUME NEW x \in S, NEW y \in S, NEW z \in S, <<x, y>> \in R, <<y, z>> \in R PROVE <<x, z>> \in R
    <3>1. PICK i \in DOMAIN B : B[i] = x /\ i \in Nat
      BY <2>1
    <3>2. PICK j \in DOMAIN B : B[j] = y /\ j \in Nat
      BY <2>1
    <3>3. PICK k \in DOMAIN B : B[k] = z /\ k \in Nat
      BY <2>1
    <3>4. i < j /\ j < k
      BY <1>5, <2>4, <3>1, <3>2, <3>3
    <3>5. i < k
      BY <3>1, <3>2, <3>3, <3>4
    <3>6. QED BY <1>5, <3>1, <3>3, <3>5
  <2>5. QED BY <2>2, <2>3, <2>4 DEF TotalOn
<1>8. IsFiniteSet(S)
  <2>1. PICK T : T = {B[i] : i \in DOMAIN B}
    OBVIOUS
  <2>2. IsFiniteSet(DOMAIN B)
    BY <1>3, FS_Interval
  <2>3. PICK f : f = [i \in DOMAIN B |-> B[i]]
    OBVIOUS
  <2>4. f \in Surjection(DOMAIN B, T)
    BY <2>1, <2>3 DEF Surjection
  <2>5. IsFiniteSet(T)
    BY <2>2, <2>4, FS_Surjection
  <2>6. QED BY <1>6, <2>1, <2>5, FS_Subset
<1>9. Selected(B, K) = Ordered(S, R)
  <2>1. \A i \in K : B[i] \in S
    BY <1>4
  <2>2. \A x \in S : \E i \in K : B[i] = x
    BY <1>4
  <2>3. \A i, j \in K : i < j => <<B[i], B[j]>> \in R
    BY <1>4, <1>5
  <2>4. K \in SUBSET DOMAIN B
    BY <1>4
  <2>5. QED BY <1>3, <1>7, <1>8, <2>1, <2>2, <2>3, <2>4, SelectedIsOrdered
<1>10. Selected(u, L) = Ordered(S, R)
  <2>1. ASSUME NEW i \in L PROVE \E j \in K : u[i] = B[j]
    <3>1. PICK j \in DOMAIN B : u[i] = B[j]
      BY <1>1, <1>4 DEF ModInv
    <3>2. u[i].id \in IdsOf(new)
      BY <1>1, <1>4 DEF IdsOf
    <3>3. QED BY <1>4, <3>1, <3>2
  <2>2. \A i \in L : u[i] \in S
    BY <1>4, <2>1
  <2>3. ASSUME NEW x \in S PROVE \E i \in L : u[i] = x
    <3>1. PICK j \in DOMAIN B : x = B[j] /\ B[j].id \in IdsOf(new)
      BY <1>4
    <3>2. PICK i \in DOMAIN u : u[i].id = B[j].id
      BY <1>1, <3>1 DEF IdsOf
    <3>3. i \in L
      BY <1>3, <1>4, <3>2
    <3>4. PICK k \in K : u[i] = B[k]
      BY <2>1, <3>3
    <3>5. k = j
      BY <1>3, <1>4, <3>2, <3>4
    <3>6. QED BY <3>1, <3>3, <3>4, <3>5
  <2>4. ASSUME NEW i \in L, NEW j \in L, i < j PROVE <<u[i], u[j]>> \in R
    <3>1. WrittenFirst(u[i].id, u[j].id) /\ u[i].id \in BaseIds /\ u[j].id \in BaseIds
      BY <1>2, <1>4, <2>4 DEF Fits
    <3>2. PICK k \in DOMAIN B, l \in DOMAIN B : k < l /\ B[k].id = u[i].id /\ B[l].id = u[j].id
      BY <1>1, <3>1 DEF WrittenFirst
    <3>3. PICK a \in K : u[i] = B[a]
      BY <2>1
    <3>4. PICK b \in K : u[j] = B[b]
      BY <2>1
    <3>5. a = k /\ b = l
      BY <1>3, <1>4, <3>2, <3>3, <3>4
    <3>6. QED BY <1>5, <3>2, <3>3, <3>4, <3>5
  <2>5. L \in SUBSET DOMAIN u
    BY <1>4
  <2>6. QED BY <1>2, <1>7, <1>8, <2>2, <2>3, <2>4, <2>5, SelectedIsOrdered
<1>11. WithIds(BaseSteps, IdsOf(new)) = WithIds(new, IdsOf(BaseSteps))
  <2>1. WithIds(BaseSteps, IdsOf(new)) = Selected(B, K)
    BY <1>1, <1>4, Zenon DEF WithIds
  <2>2. WithIds(new, IdsOf(BaseSteps)) = Selected(u, L)
    BY <1>1, <1>4, Zenon DEF WithIds, BaseIds
  <2>3. QED BY <1>9, <1>10, <2>1, <2>2
<1>12. \E lost \in SUBSET IdsOf(BaseSteps) :
         lost = IdsOf(BaseSteps) \ IdsOf(new) /\ \E f \in [lost -> Taken] : \A s, t \in lost : f[s] = f[t] => s = t
  <2>1. PICK lost : lost = BaseIds \ IdsOf(new)
    OBVIOUS
  <2>2. \E f \in [lost -> Taken] : \A s, t \in lost : f[s] = f[t] => s = t
    BY <2>1 DEF ModInv, LostIn
  <2>3. lost \in SUBSET IdsOf(BaseSteps) /\ lost = IdsOf(BaseSteps) \ IdsOf(new)
    BY <2>1 DEF BaseIds
  <2>4. QED BY <2>2, <2>3
<1>13. ASSUME NEW m \in applied, mods[m].action \notin {"remove", "replace"}
       PROVE  \E i \in DOMAIN new :
                /\ new[i].id = m /\ \A j \in DOMAIN new : new[j].id = m => i = j
                /\ \A j \in DOMAIN new : new[j].id = mods[m].target =>
                     /\ mods[m].action = "inject_before" => i < j
                     /\ mods[m].action = "inject_after" => i > j
  <2>1. PICK i \in DOMAIN u : u[i].id = m
    BY <1>1, <1>13 DEF ModInv, IdsOf
  <2>2. m \in Modifiers /\ (Injects(m) => mods[m].target # m) /\ i \in Nat
    BY <1>2 DEF ModInv
  <2>3. ASSUME NEW j \in DOMAIN u, u[j].id = mods[m].target
        PROVE  /\ mods[m].action = "inject_before" => i < j
               /\ mods[m].action = "inject_after" => i > j
    <3>1. Injects(m) => i # j
      BY <2>1, <2>2, <2>3
    <3>2. j < i => OnItsSide(u[j].id, m)
      BY <1>2, <2>1 DEF Fits
    <3>3. i < j => OnItsSide(m, u[j].id)
      BY <1>2, <2>1 DEF Fits
    <3>4. mods[m].action = "inject_before" => ~(j < i) /\ i # j
      BY <2>2, <2>3, <3>1, <3>2 DEF OnItsSide, Injects
    <3>5. mods[m].action = "inject_after" => ~(i < j) /\ i # j
      BY <2>2, <2>3, <3>1, <3>3 DEF OnItsSide, Injects
    <3>6. j \in Nat
      BY <1>2
    <3>7. QED BY <2>2, <3>4, <3>5, <3>6
  <2>4. \A j \in DOMAIN u : u[j].id = m => i = j
    BY <1>2, <2>1
  <2>5. QED BY <1>1, <2>1, <2>3, <2>4
<1>14. Declared => \A i, j \in DOMAIN new : i < j => new[i].phase <= new[j].phase
  BY <1>1, <1>2 DEF Fits
<1>15. ModTypeOK
  <2>1. mods \in [Modifiers -> OfferedMods]
    BY DEF ModInv, Accepted
  <2>2. left \subseteq Modifiers
    BY LeftIs
  <2>3. \A i \in DOMAIN new : new[i].phase \in 1..PhaseCount
    BY <1>1, <1>2
  <2>4. QED BY <2>1, <2>2, <2>3 DEF ModTypeOK, ModInv
<1>16. QED BY <1>11, <1>12, <1>13, <1>14, <1>15 DEF ModifiedAsDeclared, Declared

\* ModifiedAsDeclared (flow_modifier.py, apply_modifiers): modifiers leave the flow's
\* steps in their order, take away only what one of them replaces or removes, and put
\* a step on its side of the one it targets, for any flow and modifiers.
THEOREM ModifiersDoAsDeclared == ASSUME ModConstants PROVE ModSpec => []ModifiedAsDeclared
BY ModBegins, ModSteps, ModMeans, PTL DEF ModSpec

-----------------------------------------------------------------------------
(***************************************************************************)
(* FlowComposer. The steps of the pipeline that nobody took away are       *)
(* there, in the order they were written in; a step brought in is in       *)
(* nobody's way.                                                           *)
(***************************************************************************)
\* The order in which the steps of the pipeline were written.
WrittenBefore == {e \in PipelineIds \X PipelineIds :
    \E i, j \in DOMAIN Pipeline : i < j /\ e[1] = Pipeline[i] /\ e[2] = Pipeline[j]}
PiecesInOrder == {e \in Piece \X Piece :
    e[1].id # Injected /\ e[2].id # Injected => <<e[1].id, e[2].id>> \in WrittenBefore}

ComposerInv ==
    /\ ComposerTypeOK /\ (started => turn # 0)
    /\ PairsIn(composed, PiecesInOrder)
    /\ IdsOf(composed) \cap PipelineIds = PipelineIds \ gone

LEMMA WrittenIsTotal ==
  ASSUME ComposerConstants
  PROVE  TotalOn(PipelineIds, WrittenBefore) /\ IsFiniteSet(PipelineIds)
<1>1. PICK n : n = Len(Pipeline)
  OBVIOUS
<1>2. /\ n \in Nat /\ DOMAIN Pipeline = 1..n
      /\ \A i, j \in 1..n : Pipeline[i] = Pipeline[j] => i = j
  BY <1>1 DEF ComposerConstants
<1>3. \A p \in PipelineIds : \E i \in 1..n : Pipeline[i] = p
  BY <1>2 DEF PipelineIds, ToSet
<1>4. \A i \in 1..n : Pipeline[i] \in PipelineIds
  BY <1>2 DEF PipelineIds, ToSet
<1>5. ASSUME NEW i \in 1..n, NEW j \in 1..n PROVE <<Pipeline[i], Pipeline[j]>> \in WrittenBefore <=> i < j
  <2>1. ASSUME i < j PROVE <<Pipeline[i], Pipeline[j]>> \in WrittenBefore
    BY <1>2, <1>4, <2>1 DEF WrittenBefore
  <2>2. ASSUME <<Pipeline[i], Pipeline[j]>> \in WrittenBefore PROVE i < j
    <3>1. PICK k \in 1..n, l \in 1..n : k < l /\ Pipeline[i] = Pipeline[k] /\ Pipeline[j] = Pipeline[l]
      BY <1>2, <2>2 DEF WrittenBefore
    <3>2. i = k /\ j = l
      BY <1>2, <3>1
    <3>3. QED BY <3>1, <3>2
  <2>3. QED BY <2>1, <2>2
<1>6. ASSUME NEW p \in PipelineIds PROVE ~(<<p, p>> \in WrittenBefore)
  <2>1. PICK i \in 1..n : Pipeline[i] = p
    BY <1>3
  <2>2. ~(i < i)
    BY <1>2
  <2>3. QED BY <1>5, <2>1, <2>2
<1>7. ASSUME NEW p \in PipelineIds, NEW q \in PipelineIds
      PROVE  p = q \/ <<p, q>> \in WrittenBefore \/ <<q, p>> \in WrittenBefore
  <2>1. PICK i \in 1..n, j \in 1..n : Pipeline[i] = p /\ Pipeline[j] = q
    BY <1>3
  <2>2. i = j \/ i < j \/ j < i
    BY <1>2
  <2>3. QED BY <1>5, <2>1, <2>2
<1>8. ASSUME NEW p \in PipelineIds, NEW q \in PipelineIds, NEW r \in PipelineIds,
             <<p, q>> \in WrittenBefore, <<q, r>> \in WrittenBefore
      PROVE  <<p, r>> \in WrittenBefore
  <2>1. PICK i \in 1..n, j \in 1..n, k \in 1..n : Pipeline[i] = p /\ Pipeline[j] = q /\ Pipeline[k] = r
    BY <1>3
  <2>2. i < j /\ j < k
    BY <1>5, <1>8, <2>1
  <2>3. i < k
    BY <1>2, <2>2
  <2>4. QED BY <1>5, <2>1, <2>3
<1>9. IsFiniteSet(PipelineIds)
  <2>1. Pipeline = [i \in 1..n |-> Pipeline[i]] \/ TRUE
    OBVIOUS
  <2>2. PICK f : f = [i \in 1..n |-> Pipeline[i]]
    OBVIOUS
  <2>3. f \in Surjection(1..n, PipelineIds)
    BY <1>3, <1>4, <2>2 DEF Surjection
  <2>4. IsFiniteSet(1..n)
    BY <1>2, FS_Interval
  <2>5. QED BY <2>3, <2>4, FS_Surjection
<1>10. QED BY <1>6, <1>7, <1>8, <1>9 DEF TotalOn

LEMMA PieceIs ==
  ASSUME ComposerConstants
  PROVE  /\ \A a \in Piece : a.id \in PipelineIds \cup {Injected} /\ a.looped \in BOOLEAN
         /\ \A a, b \in Piece : <<a, b>> \in PiecesInOrder <=>
                (a.id # Injected /\ b.id # Injected => <<a.id, b.id>> \in WrittenBefore)
         /\ Injected \notin PipelineIds
         /\ \A i \in PipelineIds \cup {Injected} : PlainStep(i) \in Piece /\ PlainStep(i).id = i
<1>1. Injected \notin PipelineIds
  BY DEF ComposerConstants, PipelineIds, ToSet
<1>2. QED BY <1>1 DEF Piece, PiecesInOrder, PlainStep

LEMMA ComposedIs ==
  ASSUME ComposerConstants, ComposerInv
  PROVE  /\ composed \in Seq(Piece) /\ Len(composed) \in Nat /\ DOMAIN composed = 1..Len(composed)
         /\ \A i \in DOMAIN composed : composed[i] \in Piece
<1>1. composed \in Seq(Piece)
  BY DEF ComposerInv, ComposerTypeOK
<1>2. QED BY <1>1

\* A step of the pipeline is there once.
LEMMA ComposedOnce ==
  ASSUME ComposerConstants, ComposerInv, NEW i \in DOMAIN composed, NEW j \in DOMAIN composed,
         composed[i].id = composed[j].id, composed[i].id # Injected
  PROVE  i = j
<1>1. PICK a, b : a = composed[i] /\ b = composed[j]
  OBVIOUS
<1>2. a \in Piece /\ b \in Piece /\ i \in Nat /\ j \in Nat
  BY <1>1, ComposedIs
<1>3. a.id \in PipelineIds /\ b.id = a.id
  BY <1>1, <1>2, PieceIs
<1>4. ~(<<a.id, a.id>> \in WrittenBefore)
  BY <1>3, WrittenIsTotal DEF TotalOn
<1>5. ~(<<a, b>> \in PiecesInOrder) /\ ~(<<b, a>> \in PiecesInOrder)
  BY <1>1, <1>2, <1>3, <1>4, PieceIs
<1>6. ~(i < j) /\ ~(j < i)
  BY <1>1, <1>5 DEF ComposerInv, PairsIn
<1>7. QED BY <1>2, <1>6

LEMMA ComposerBegins == ASSUME ComposerConstants, ComposerInit PROVE ComposerInv
<1>1. PICK n, c : n = Len(Pipeline) /\ c = [i \in 1..n |-> PlainStep(Pipeline[i])]
  OBVIOUS
<1>2. n \in Nat /\ DOMAIN Pipeline = 1..n /\ composed = c
  BY <1>1 DEF ComposerInit, ComposerConstants
<1>3. \A i \in 1..n : Pipeline[i] \in PipelineIds
  BY <1>2 DEF PipelineIds, ToSet
<1>4. \A i \in 1..n : c[i] \in Piece /\ c[i].id = Pipeline[i] /\ Pipeline[i] # Injected
  BY <1>1, <1>2, <1>3, PieceIs
<1>5. c \in Seq(Piece) /\ DOMAIN c = 1..n
  <2>1. c \in [1..n -> Piece]
    BY <1>1, <1>4
  <2>2. QED BY <1>2, <2>1
<1>6. PairsIn(c, PiecesInOrder)
  <2>1. SUFFICES ASSUME NEW i \in 1..n, NEW j \in 1..n, i < j PROVE <<c[i], c[j]>> \in PiecesInOrder
    BY <1>5 DEF PairsIn
  <2>2. <<Pipeline[i], Pipeline[j]>> \in WrittenBefore
    BY <1>2, <1>3, <2>1 DEF WrittenBefore
  <2>3. QED BY <1>4, <2>2, PieceIs
<1>7. IdsOf(c) = PipelineIds
  BY <1>2, <1>4, <1>5 DEF IdsOf, PipelineIds, ToSet
<1>8. ComposerTypeOK
  <2>1. 0 \in 0..Composers /\ 0 \in 0..MaxModifications
    BY DEF ComposerConstants
  <2>2. QED BY <1>2, <1>5, <2>1 DEF ComposerTypeOK, ComposerInit
<1>9. QED BY <1>2, <1>6, <1>7, <1>8 DEF ComposerInv, ComposerInit

LEMMA ModifyKeeps ==
  ASSUME ComposerConstants, ComposerInv, NEW z \in Seq(Piece), NEW lost, Modify(z, lost), PairsIn(z, PiecesInOrder),
         \A p \in PipelineIds : p \in IdsOf(z) <=> p \in IdsOf(composed) /\ p \notin lost
  PROVE  ComposerInv'
<1>1. /\ modifications < MaxModifications /\ modifications' = modifications + 1
      /\ composed' = z /\ gone' = gone \cup (lost \cap PipelineIds)
      /\ UNCHANGED <<turn, started, recorded>>
  BY DEF Modify
<1>2. modifications' \in 0..MaxModifications
  <2>1. modifications \in 0..MaxModifications /\ MaxModifications \in Nat
    BY DEF ComposerInv, ComposerTypeOK, ComposerConstants
  <2>2. QED BY <1>1, <2>1
<1>3. ComposerTypeOK'
  BY <1>1, <1>2 DEF ComposerInv, ComposerTypeOK
<1>4. IdsOf(z) \cap PipelineIds = PipelineIds \ gone'
  BY <1>1 DEF ComposerInv
<1>5. IdsOf(composed)' = IdsOf(z)
  BY <1>1 DEF IdsOf
<1>6. PairsIn(composed, PiecesInOrder)'
  BY <1>1 DEF PairsIn
<1>7. QED BY <1>1, <1>3, <1>4, <1>5, <1>6 DEF ComposerInv

\* Steps that modifications bring in are in nobody's way.
LEMMA InjectedCut ==
  ASSUME ComposerConstants, ComposerInv, NEW z \in Seq(Piece), NEW s \in Seq(Piece), NEW k \in Nat, NEW l \in Nat,
         k < l, l <= Len(composed) + 1, IsCut(z, composed, k, l, s), \A j \in DOMAIN s : s[j].id = Injected
  PROVE  /\ PairsIn(z, PiecesInOrder)
         /\ \A p \in PipelineIds : p \in IdsOf(z) <=> \E j \in (1..k) \cup (l..Len(composed)) : composed[j].id = p
<1>1. PICK u, n : u = composed /\ n = Len(composed)
  OBVIOUS
<1>2. /\ n \in Nat /\ DOMAIN u = 1..n /\ \A i \in 1..n : u[i] \in Piece
      /\ \A i \in DOMAIN s : s[i] \in Piece
  BY <1>1, ComposedIs
<1>3. IsCut(z, u, k, l, s) /\ n = Len(u)
  BY <1>1
<1>4. \A i \in 1..k : i \in 1..n
  BY <1>1, <1>2
<1>5. \A i \in l..n : i \in 1..n
  BY <1>1, <1>2
<1>6. PairsIn(z, PiecesInOrder)
  <2>1. PairsIn(s, PiecesInOrder)
    BY <1>2, PieceIs DEF PairsIn
  <2>2. \A i \in 1..k, j \in DOMAIN s : <<u[i], s[j]>> \in PiecesInOrder
    BY <1>2, <1>4, PieceIs
  <2>3. \A i \in DOMAIN s, j \in l..Len(u) : <<s[i], u[j]>> \in PiecesInOrder
    BY <1>2, <1>3, <1>5, PieceIs
  <2>4. PairsIn(u, PiecesInOrder)
    BY <1>1 DEF ComposerInv
  <2>5. l <= Len(u) + 1
    BY <1>1
  <2>6. QED BY <1>3, <2>1, <2>2, <2>3, <2>4, <2>5, CutPairs
<1>7. ASSUME NEW p \in PipelineIds, NEW j \in DOMAIN z, z[j].id = p
      PROVE  \E i \in (1..k) \cup (l..n) : u[i].id = p
  <2>1. \/ j \in 1..k /\ z[j] = u[j]
        \/ j - k \in 1..Len(s) /\ z[j] = s[j - k]
        \/ j - k - Len(s) + l - 1 \in l..Len(u) /\ z[j] = u[j - k - Len(s) + l - 1]
    BY <1>3 DEF IsCut
  <2>2. p # Injected
    BY PieceIs
  <2>3. DOMAIN s = 1..Len(s)
    BY <1>3 DEF IsCut
  <2>4. ~(j - k \in 1..Len(s) /\ z[j] = s[j - k])
    BY <1>7, <2>2, <2>3
  <2>5. QED BY <1>3, <1>7, <2>1, <2>4
<1>8. ASSUME NEW p \in PipelineIds, NEW i \in (1..k) \cup (l..n), u[i].id = p PROVE \E j \in DOMAIN z : z[j].id = p
  <2>1. CASE i \in 1..k
    BY <1>3, <1>8, <2>1 DEF IsCut
  <2>2. CASE i \in l..n
    BY <1>3, <1>8, <2>2 DEF IsCut
  <2>3. QED BY <2>1, <2>2
<1>9. QED BY <1>1, <1>6, <1>7, <1>8 DEF IdsOf

\* A step is brought in before the i-th one.
LEMMA InsertKeeps ==
  ASSUME ComposerConstants, ComposerInv, NEW i \in 1..(Len(composed) + 1),
         Modify(InsertAt(composed, i, PlainStep(Injected)), {})
  PROVE  ComposerInv'
<1>1. PICK u, n, x : u = composed /\ n = Len(u) /\ x = PlainStep(Injected)
  OBVIOUS
<1>2. PICK s, k : s = <<x>> /\ k = i - 1
  OBVIOUS
<1>3. PICK z : z = SubSeq(u, 1, k) \o s \o SubSeq(u, i, Len(u))
  OBVIOUS
<1>4. InsertAt(composed, i, PlainStep(Injected)) = z
  BY <1>1, <1>2, <1>3, Zenon DEF InsertAt
<1>5. /\ u \in Seq(Piece) /\ n \in Nat /\ DOMAIN u = 1..n /\ x \in Piece /\ x.id = Injected
  BY <1>1, ComposedIs, PieceIs
<1>6. s \in Seq(Piece) /\ DOMAIN s = {1} /\ s[1] = x
  BY <1>2, <1>5
<1>7. k \in 0..n /\ i \in (k + 1)..(n + 1) /\ k \in Nat /\ i \in Nat /\ k < i /\ i <= n + 1 /\ i = k + 1
  BY <1>1, <1>2, <1>5
<1>8. z \in Seq(Piece) /\ IsCut(z, u, k, i, s)
  BY <1>1, <1>3, <1>5, <1>6, <1>7, CutElements
<1>9. /\ PairsIn(z, PiecesInOrder)
      /\ \A p \in PipelineIds : p \in IdsOf(z) <=> \E j \in (1..k) \cup (i..n) : u[j].id = p
  <2>1. \A j \in DOMAIN s : s[j].id = Injected
    BY <1>5, <1>6
  <2>2. QED BY <1>1, <1>6, <1>7, <1>8, <2>1, InjectedCut
<1>10. (1..k) \cup (i..n) = DOMAIN u
  BY <1>5, <1>7
<1>11. \A p \in PipelineIds : p \in IdsOf(z) <=> p \in IdsOf(composed) /\ p \notin {}
  BY <1>1, <1>9, <1>10 DEF IdsOf
<1>12. Modify(z, {})
  BY <1>4
<1>13. QED BY <1>8, <1>9, <1>11, <1>12, ModifyKeeps

\* The i-th step is taken away, and at most a step brought in takes its place.
LEMMA TakeKeeps ==
  ASSUME ComposerConstants, ComposerInv, NEW i \in DOMAIN composed, NEW z \in Seq(Piece), NEW s \in Seq(Piece),
         IsCut(z, composed, i - 1, i + 1, s), \A j \in DOMAIN s : s[j].id = Injected,
         Modify(z, {composed[i].id})
  PROVE  ComposerInv'
<1>1. PICK u, n, k, l : u = composed /\ n = Len(u) /\ k = i - 1 /\ l = i + 1
  OBVIOUS
<1>2. n \in Nat /\ DOMAIN u = 1..n
  BY <1>1, ComposedIs
<1>3. k \in Nat /\ l \in Nat /\ k < l /\ l <= n + 1 /\ i \in Nat
  BY <1>1, <1>2
<1>4. /\ PairsIn(z, PiecesInOrder)
      /\ \A p \in PipelineIds : p \in IdsOf(z) <=> \E j \in (1..k) \cup (l..n) : u[j].id = p
  BY <1>1, <1>3, InjectedCut
<1>5. (1..k) \cup (l..n) = (DOMAIN u) \ {i}
  BY <1>1, <1>2, <1>3
<1>6. ASSUME NEW p \in PipelineIds PROVE p \in IdsOf(z) <=> p \in IdsOf(composed) /\ p \notin {composed[i].id}
  <2>1. p # Injected
    BY PieceIs
  <2>2. ASSUME NEW j \in (DOMAIN u) \ {i}, u[j].id = p PROVE p \in IdsOf(composed) /\ p # u[i].id
    <3>1. p \in IdsOf(composed)
      BY <1>1, <2>2 DEF IdsOf
    <3>2. ASSUME p = u[i].id PROVE FALSE
      <4>1. i = j
        BY <1>1, <2>1, <2>2, <3>2, ComposedOnce
      <4>2. QED BY <2>2, <4>1
    <3>3. QED BY <3>1, <3>2
  <2>3. ASSUME p \in IdsOf(composed), p # u[i].id PROVE \E j \in (DOMAIN u) \ {i} : u[j].id = p
    BY <1>1, <2>3 DEF IdsOf
  <2>4. QED BY <1>1, <1>4, <1>5, <2>2, <2>3
<1>7. QED BY <1>4, <1>6, ModifyKeeps

LEMMA ReplaceStepKeeps ==
  ASSUME ComposerConstants, ComposerInv, NEW i \in DOMAIN composed, NEW x \in Piece, x.id = Injected,
         Modify([composed EXCEPT ![i] = x], {composed[i].id})
  PROVE  ComposerInv'
<1>1. PICK z, s : z = [composed EXCEPT ![i] = x] /\ s = <<x>>
  OBVIOUS
<1>2. z \in Seq(Piece) /\ s \in Seq(Piece) /\ IsCut(z, composed, i - 1, i + 1, s)
  <2>1. PICK u : u = composed
    OBVIOUS
  <2>2. u \in Seq(Piece) /\ i \in DOMAIN u /\ z = [u EXCEPT ![i] = x]
    BY <1>1, <2>1, ComposedIs
  <2>3. z \in Seq(Piece) /\ s \in Seq(Piece) /\ IsCut(z, u, i - 1, i + 1, s)
    BY <1>1, <2>2, ReplaceElements
  <2>4. QED BY <2>1, <2>3
<1>3. \A j \in DOMAIN s : s[j].id = Injected
  BY <1>1
<1>4. Modify(z, {composed[i].id})
  BY <1>1
<1>5. QED BY <1>2, <1>3, <1>4, TakeKeeps

LEMMA RemoveStepKeeps ==
  ASSUME ComposerConstants, ComposerInv, NEW i \in DOMAIN composed, Modify(RemoveAt(composed, i), {composed[i].id})
  PROVE  ComposerInv'
<1>1. PICK u, n, k, l, e : u = composed /\ n = Len(u) /\ k = i - 1 /\ l = i + 1 /\ e = <<>>
  OBVIOUS
<1>2. u \in Seq(Piece) /\ n \in Nat /\ DOMAIN u = 1..n
  BY <1>1, ComposedIs
<1>3. k \in 0..n /\ l \in (k + 1)..(n + 1) /\ i \in Nat
  BY <1>1, <1>2
<1>4. PICK a, b, z : a = SubSeq(u, 1, k) /\ b = SubSeq(u, l, n) /\ z = a \o b
  OBVIOUS
<1>5. RemoveAt(composed, i) = z
  BY <1>1, <1>4, Zenon DEF RemoveAt
<1>6. e \in Seq(Piece) /\ DOMAIN e = {}
  BY <1>1
<1>7. a \in Seq(Piece)
  <2>1. \A j \in 1..k : u[j] \in Piece
    BY <1>2, <1>3
  <2>2. k \in Int
    BY <1>2, <1>3
  <2>3. QED BY <1>4, <2>1, <2>2, SubSeqProperties
<1>8. a \o e = a
  BY <1>1, <1>7, ConcatEmptySeq
<1>9. z \in Seq(Piece) /\ IsCut(z, u, k, l, e)
  <2>1. (a \o e \o b) \in Seq(Piece) /\ IsCut(a \o e \o b, u, k, l, e)
    BY <1>1, <1>2, <1>3, <1>4, <1>6, CutElements
  <2>2. QED BY <1>4, <1>8, <2>1
<1>10. IsCut(z, composed, i - 1, i + 1, e) /\ Modify(z, {composed[i].id})
  BY <1>1, <1>5, <1>9
<1>11. QED BY <1>6, <1>9, <1>10, TakeKeeps

LEMMA WrapKeeps ==
  ASSUME ComposerConstants, ComposerInv, NEW f \in DOMAIN composed, NEW t \in DOMAIN composed, f <= t,
         Modify(SubSeq(composed, 1, f - 1) \o Looped(SubSeq(composed, f, t)) \o SubSeq(composed, t + 1, Len(composed)), {})
  PROVE  ComposerInv'
<1>1. PICK u, n, k, l, m : u = composed /\ n = Len(u) /\ k = f - 1 /\ l = t + 1 /\ m = SubSeq(u, f, t)
  OBVIOUS
<1>2. u \in Seq(Piece) /\ n \in Nat /\ DOMAIN u = 1..n /\ \A i \in 1..n : u[i] \in Piece
  BY <1>1, ComposedIs
<1>3. f \in 1..n /\ t \in 1..n /\ f \in Nat /\ t \in Nat /\ 1 <= f /\ t <= n
  BY <1>1, <1>2
<1>4. k \in 0..n /\ l \in (k + 1)..(n + 1) /\ k \in Nat /\ l \in Nat /\ k < l /\ l <= n + 1
  BY <1>1, <1>2, <1>3
<1>5. PICK c : c = t - f + 1
  OBVIOUS
<1>6. c \in Nat /\ m \in Seq(Piece) /\ Len(m) = c /\ DOMAIN m = 1..c /\ \A j \in 1..c : m[j] = u[f + j - 1]
  <2>1. \A j \in f..t : u[j] \in Piece
    BY <1>2, <1>3
  <2>2. c \in Nat
    BY <1>3, <1>5
  <2>3. m \in Seq(Piece) /\ Len(m) = (IF f <= t THEN t - f + 1 ELSE 0) /\ \A j \in 1..(t - f + 1) : m[j] = u[f + j - 1]
    BY <1>1, <1>3, <2>1, SubSeqProperties
  <2>4. QED BY <1>5, <2>2, <2>3
<1>7. PICK s : s = Looped(m)
  OBVIOUS
<1>8. ASSUME NEW j \in 1..c PROVE f + j - 1 \in 1..n /\ s[j] \in Piece /\ s[j].id = u[f + j - 1].id
  <2>1. f + j - 1 \in 1..n
    <3>1. j \in Int /\ 1 <= j /\ j <= c
      BY <1>6
    <3>2. c \in Int /\ f + c = t + 1
      BY <1>3, <1>5
    <3>3. 1 <= f + j - 1 /\ f + j - 1 <= n /\ f + j - 1 \in Int
      BY <1>2, <1>3, <3>1, <3>2
    <3>4. QED BY <1>2, <3>3
  <2>2. m[j] \in Piece /\ s[j] = [m[j] EXCEPT !.looped = TRUE] /\ m[j] = u[f + j - 1]
    BY <1>2, <1>6, <1>7, <2>1 DEF Looped
  <2>3. QED BY <2>1, <2>2 DEF Piece
<1>9. s \in Seq(Piece) /\ DOMAIN s = 1..c /\ Len(s) = c
  <2>1. DOMAIN s = 1..c /\ \A j \in 1..c : s[j] \in Piece
    BY <1>6, <1>7, <1>8 DEF Looped
  <2>2. s \in [1..c -> Piece]
    BY <1>7, <2>1 DEF Looped
  <2>3. s \in Seq(Piece)
    BY <1>6, <2>2
  <2>4. Len(s) = c
    BY <1>6, <2>1, <2>3
  <2>5. QED BY <2>1, <2>3, <2>4
<1>10. PICK z : z = SubSeq(u, 1, k) \o s \o SubSeq(u, l, Len(u))
  OBVIOUS
<1>11. z \in Seq(Piece) /\ IsCut(z, u, k, l, s)
  BY <1>1, <1>2, <1>4, <1>9, <1>10, CutElements
<1>12. Modify(z, {})
  BY <1>1, <1>7, <1>10, Zenon
<1>13. ASSUME NEW i \in 1..n, NEW j \in 1..n, i < j, NEW a \in Piece, NEW b \in Piece, a.id = u[i].id, b.id = u[j].id
       PROVE  <<a, b>> \in PiecesInOrder
  <2>1. <<u[i], u[j]>> \in PiecesInOrder
    BY <1>1, <1>2, <1>13 DEF ComposerInv, PairsIn
  <2>2. QED BY <1>2, <1>13, <2>1, PieceIs
<1>14. PairsIn(z, PiecesInOrder)
  <2>1. ASSUME NEW i \in 1..c, NEW j \in 1..c, i < j PROVE <<s[i], s[j]>> \in PiecesInOrder
    <3>1. i \in Int /\ j \in Int
      BY <1>6
    <3>2. f + i - 1 < f + j - 1
      BY <1>3, <2>1, <3>1
    <3>3. QED BY <1>8, <1>13, <3>2
  <2>2. ASSUME NEW i \in 1..k, NEW j \in 1..c PROVE <<u[i], s[j]>> \in PiecesInOrder
    <3>1. i \in Int /\ 1 <= i /\ i <= k /\ j \in Int /\ 1 <= j
      BY <1>4, <1>6
    <3>3. i < f
      BY <1>1, <1>3, <3>1
    <3>4. i < f + j - 1 /\ i <= n
      BY <1>2, <1>3, <3>1, <3>3
    <3>5. i \in 1..n
      BY <1>2, <3>1, <3>4
    <3>2. QED BY <1>2, <1>8, <1>13, <3>4, <3>5
  <2>3. ASSUME NEW i \in 1..c, NEW j \in l..n PROVE <<s[i], u[j]>> \in PiecesInOrder
    <3>1. i \in Int /\ i <= c /\ j \in Int /\ l <= j /\ j <= n
      BY <1>2, <1>4, <1>6
    <3>2. c \in Int /\ f + c = t + 1 /\ t < j
      BY <1>1, <1>3, <1>5, <3>1
    <3>3. f + i - 1 < j /\ 1 <= j
      BY <1>3, <3>1, <3>2
    <3>4. j \in 1..n
      BY <1>2, <3>1, <3>3
    <3>5. QED BY <1>2, <1>8, <1>13, <3>3, <3>4
  <2>4. PairsIn(s, PiecesInOrder) /\ PairsIn(u, PiecesInOrder)
    BY <1>1, <1>9, <2>1 DEF PairsIn, ComposerInv
  <2>5. l <= Len(u) + 1
    BY <1>1, <1>4
  <2>6. \A i \in 1..k, j \in DOMAIN s : <<u[i], s[j]>> \in PiecesInOrder
    BY <1>9, <2>2
  <2>7. \A i \in DOMAIN s, j \in l..Len(u) : <<s[i], u[j]>> \in PiecesInOrder
    BY <1>1, <1>9, <2>3
  <2>8. QED BY <1>4, <1>11, <2>4, <2>5, <2>6, <2>7, CutPairs
<1>15. IdsOf(z) = IdsOf(u)
  <2>1. ASSUME NEW j \in DOMAIN z PROVE \E i \in DOMAIN u : u[i].id = z[j].id
    <3>1. \/ j \in 1..k /\ z[j] = u[j]
          \/ j - k \in 1..Len(s) /\ z[j] = s[j - k]
          \/ j - k - Len(s) + l - 1 \in l..Len(u) /\ z[j] = u[j - k - Len(s) + l - 1]
      BY <1>11 DEF IsCut
    <3>2. \A i \in 1..k : i \in DOMAIN u
      BY <1>2, <1>4
    <3>3. \A i \in l..Len(u) : i \in DOMAIN u
      BY <1>1, <1>2, <1>4
    <3>4. \A i \in 1..Len(s) : f + i - 1 \in DOMAIN u /\ s[i].id = u[f + i - 1].id
      BY <1>2, <1>8, <1>9
    <3>5. CASE j - k \in 1..Len(s) /\ z[j] = s[j - k]
      BY <3>4, <3>5
    <3>6. QED BY <3>1, <3>2, <3>3, <3>5
  <2>2. ASSUME NEW i \in DOMAIN u PROVE \E j \in DOMAIN z : z[j].id = u[i].id
    <3>1. i \in 1..k \/ i \in f..t \/ i \in l..n
      BY <1>1, <1>2, <1>3
    <3>2. CASE i \in 1..k
      BY <1>11, <3>2 DEF IsCut
    <3>3. CASE i \in l..n
      BY <1>1, <1>11, <3>3 DEF IsCut
    <3>4. CASE i \in f..t
      <4>1. PICK j : j = i - f + 1
        OBVIOUS
      <4>5. i \in Int /\ f <= i /\ i <= t
        BY <1>3, <3>4
      <4>7. f \in Int /\ t \in Int
        BY <1>3
      <4>8. j \in Int /\ f + j - 1 = i
        BY <4>1, <4>5, <4>7
      <4>9. 1 <= j
        BY <4>1, <4>5, <4>7
      <4>10. j <= c
        BY <1>5, <4>1, <4>5, <4>7
      <4>6. j \in Int /\ 1 <= j /\ j <= c /\ f + j - 1 = i
        BY <4>8, <4>9, <4>10
      <4>2. j \in 1..c /\ f + j - 1 = i
        BY <1>6, <4>6
      <4>3. k + j \in DOMAIN z /\ z[k + j] = s[j]
        BY <1>9, <1>11, <4>2 DEF IsCut
      <4>4. QED BY <1>8, <4>2, <4>3
    <3>5. QED BY <3>1, <3>2, <3>3, <3>4
  <2>3. QED BY <2>1, <2>2 DEF IdsOf
<1>16. \A p \in PipelineIds : p \in IdsOf(z) <=> p \in IdsOf(composed) /\ p \notin {}
  BY <1>1, <1>15
<1>17. QED BY <1>11, <1>12, <1>14, <1>16, ModifyKeeps

LEMMA ComposerSteps == ASSUME ComposerConstants, ComposerInv, [ComposerNext]_composerVars PROVE ComposerInv'
<1>1. Composers \in Nat /\ turn \in 0..Composers /\ 0 \in 0..Composers
  BY DEF ComposerConstants, ComposerInv, ComposerTypeOK
<1>2. ASSUME UNCHANGED <<composed, gone, modifications>>, turn' \in 0..Composers, started' \in BOOLEAN,
             recorded' \subseteq 1..Composers, started' => turn' # 0
      PROVE  ComposerInv'
  <2>1. ComposerTypeOK'
    BY <1>2 DEF ComposerInv, ComposerTypeOK
  <2>2. PairsIn(composed, PiecesInOrder)' /\ IdsOf(composed)' = IdsOf(composed)
    BY <1>2 DEF ComposerInv, PairsIn, IdsOf
  <2>3. QED BY <1>2, <2>1, <2>2 DEF ComposerInv
<1>3. CASE Compose
  <2>1. /\ turn' = (IF Composers > 0 THEN 1 ELSE 0)
        /\ started' = FALSE /\ recorded' = {} /\ UNCHANGED <<composed, gone, modifications>>
    BY <1>3 DEF Compose
  <2>2. turn' \in 0..Composers
    BY <1>1, <2>1
  <2>3. QED BY <1>2, <2>1, <2>2
<1>4. recorded \subseteq 1..Composers /\ started \in BOOLEAN /\ (started => turn # 0)
  BY DEF ComposerInv, ComposerTypeOK
<1>5. ASSUME NextModifier PROVE turn' \in 0..Composers /\ started' = FALSE
  BY <1>1, <1>5 DEF NextModifier
<1>6. CASE MeetsRequirements
  BY <1>1, <1>2, <1>4, <1>6 DEF MeetsRequirements
<1>7. CASE SkipModifier
  BY <1>2, <1>4, <1>5, <1>7 DEF SkipModifier
<1>8. CASE EndModifier
  <2>1. turn \in 1..Composers
    BY <1>1, <1>4, <1>8 DEF EndModifier
  <2>2. QED BY <1>2, <1>4, <1>5, <1>8, <2>1 DEF EndModifier
<1>9. CASE RaiseInModifier
  BY <1>2, <1>4, <1>5, <1>9 DEF RaiseInModifier
<1>10. Len(composed) \in Nat /\ DOMAIN composed = 1..Len(composed) /\ \A i \in DOMAIN composed : composed[i] \in Piece
  BY ComposedIs
<1>11. PlainStep(Injected) \in Piece /\ PlainStep(Injected).id = Injected
  BY PieceIs
<1>12. ASSUME NEW T \in Targets, InjectBefore(T) PROVE ComposerInv'
  <2>1. PICK i \in DOMAIN composed : Modify(InsertAt(composed, i + 0, PlainStep(Injected)), {})
    BY <1>12 DEF InjectBefore, Inject, Found
  <2>2. i + 0 \in 1..(Len(composed) + 1)
    BY <1>10
  <2>3. QED BY <2>1, <2>2, InsertKeeps
<1>13. ASSUME NEW T \in Targets, InjectAfter(T) PROVE ComposerInv'
  <2>1. PICK i \in DOMAIN composed : Modify(InsertAt(composed, i + 1, PlainStep(Injected)), {})
    BY <1>13 DEF InjectAfter, Inject, Found
  <2>2. i + 1 \in 1..(Len(composed) + 1)
    BY <1>10
  <2>3. QED BY <2>1, <2>2, InsertKeeps
<1>14. ASSUME NEW T \in Targets, ReplaceStep(T) PROVE ComposerInv'
  <2>1. PICK i \in DOMAIN composed : Modify([composed EXCEPT ![i] = PlainStep(Injected)], {composed[i].id})
    BY <1>14 DEF ReplaceStep, Found, ReplaceAt
  <2>2. QED BY <1>11, <2>1, ReplaceStepKeeps
<1>15. ASSUME NEW T \in Targets, RemoveStep(T) PROVE ComposerInv'
  <2>1. PICK i \in DOMAIN composed : Modify(RemoveAt(composed, i), {composed[i].id})
    BY <1>15 DEF RemoveStep, Found
  <2>2. QED BY <2>1, RemoveStepKeeps
<1>16. ASSUME NEW T \in Targets, SetProperty(T) PROVE ComposerInv'
  <2>1. PICK i \in DOMAIN composed : Modify([composed EXCEPT ![i].id = Injected], {composed[i].id})
    BY <1>16 DEF SetProperty, Found
  <2>2. PICK x : x = [composed[i] EXCEPT !.id = Injected]
    OBVIOUS
  <2>3. x \in Piece /\ x.id = Injected
    BY <1>10, <2>2 DEF Piece
  <2>4. [composed EXCEPT ![i].id = Injected] = [composed EXCEPT ![i] = x]
    BY <2>2
  <2>5. Modify([composed EXCEPT ![i] = x], {composed[i].id})
    BY <2>1, <2>4
  <2>6. QED BY <2>3, <2>5, ReplaceStepKeeps
<1>17. ASSUME NEW named \in Wraps, WrapWithLoop(named) PROVE ComposerInv'
  <2>1. PICK hit : hit = UNION {Found({x}) : x \in named}
    OBVIOUS
  <2>2. PICK f, t : f = (CHOOSE i \in hit : \A j \in hit : i <= j) /\ t = CHOOSE i \in hit : \A j \in hit : i >= j
    OBVIOUS
  <2>3. /\ hit # {}
        /\ Modify(SubSeq(composed, 1, f - 1) \o Looped(SubSeq(composed, f, t)) \o SubSeq(composed, t + 1, Len(composed)), {})
    BY <1>17, <2>1, <2>2, Zenon DEF WrapWithLoop
  <2>4. hit \subseteq DOMAIN composed
    BY <2>1 DEF Found
  <2>5. hit \in SUBSET Nat /\ hit \in SUBSET (1..Len(composed))
    BY <1>10, <2>4
  <2>6. f \in hit /\ \A j \in hit : f <= j
    <3>1. \E i \in hit : \A j \in hit : i <= j
      BY <2>3, <2>5, LeastIsThere
    <3>2. QED BY <2>2, <3>1
  <2>7. t \in hit
    <3>1. \E i \in hit : \A j \in hit : i >= j
      BY <1>10, <2>3, <2>5, GreatestIsThere
    <3>2. QED BY <2>2, <3>1
  <2>8. QED BY <2>3, <2>4, <2>6, <2>7, WrapKeeps
<1>18. CASE UNCHANGED composerVars
  BY <1>1, <1>2, <1>4, <1>18 DEF composerVars
<1>19. QED BY <1>3, <1>6, <1>7, <1>8, <1>9, <1>12, <1>13, <1>14, <1>15, <1>16, <1>17, <1>18 DEF ComposerNext

LEMMA ComposerMeans == ASSUME ComposerConstants, ComposerInv PROVE StepsAccountedFor
<1>1. PICK w, S : w = [i \in DOMAIN composed |-> composed[i].id] /\ S = PipelineIds \ gone
  OBVIOUS
<1>2. /\ composed \in Seq(Piece) /\ Len(composed) \in Nat /\ DOMAIN composed = 1..Len(composed)
      /\ \A i \in DOMAIN composed : composed[i] \in Piece
  BY ComposedIs
<1>3. DOMAIN w = DOMAIN composed /\ \A i \in DOMAIN w : w[i] = composed[i].id /\ w[i] \in PipelineIds \cup {Injected}
  BY <1>1, <1>2, PieceIs
<1>4. w \in Seq(PipelineIds \cup {Injected})
  BY <1>1, <1>2, <1>3
<1>5. PICK R : R = WrittenBefore
  OBVIOUS
<1>6. TotalOn(S, R) /\ IsFiniteSet(S)
  <2>1. TotalOn(PipelineIds, R) /\ IsFiniteSet(PipelineIds)
    BY <1>5, WrittenIsTotal
  <2>2. S \subseteq PipelineIds
    BY <1>1
  <2>3. QED BY <2>1, <2>2, FS_Subset DEF TotalOn
<1>7. PICK K : K = {i \in DOMAIN w : w[i] \notin {Injected}}
  OBVIOUS
<1>8. Selected(w, K) = Ordered(S, R)
  <2>1. \A i \in K : w[i] \in S
    BY <1>1, <1>3, <1>7 DEF ComposerInv, IdsOf
  <2>2. ASSUME NEW x \in S PROVE \E i \in K : w[i] = x
    <3>1. x \in IdsOf(composed) /\ x # Injected
      BY <1>1, <2>2, PieceIs DEF ComposerInv
    <3>2. QED BY <1>3, <1>7, <3>1 DEF IdsOf
  <2>3. ASSUME NEW i \in K, NEW j \in K, i < j PROVE <<w[i], w[j]>> \in R
    <3>1. <<composed[i], composed[j]>> \in PiecesInOrder
      BY <1>3, <1>7, <2>3 DEF ComposerInv, PairsIn
    <3>2. QED BY <1>2, <1>3, <1>5, <1>7, <3>1, PieceIs
  <2>4. K \in SUBSET DOMAIN w
    BY <1>7
  <2>5. QED BY <1>4, <1>6, <2>1, <2>2, <2>3, <2>4, SelectedIsOrdered
<1>9. PICK s, n : s = Pipeline /\ n = Len(Pipeline)
  OBVIOUS
<1>10. n \in Nat /\ DOMAIN s = 1..n /\ \A i \in 1..n : s[i] \in PipelineIds
  BY <1>9 DEF ComposerConstants, PipelineIds, ToSet
<1>11. PICK L : L = {i \in DOMAIN s : s[i] \notin gone}
  OBVIOUS
<1>12. Selected(s, L) = Ordered(S, R)
  <2>1. \A i \in L : s[i] \in S
    BY <1>1, <1>10, <1>11
  <2>2. ASSUME NEW x \in S PROVE \E i \in L : s[i] = x
    BY <1>1, <1>9, <1>11, <2>2 DEF PipelineIds, ToSet
  <2>3. ASSUME NEW i \in L, NEW j \in L, i < j PROVE <<s[i], s[j]>> \in R
    BY <1>5, <1>9, <1>10, <1>11, <2>3 DEF WrittenBefore
  <2>4. L \in SUBSET DOMAIN s
    BY <1>11
  <2>5. s \in Seq(PipelineIds)
    BY <1>9 DEF ComposerConstants, PipelineIds
  <2>6. QED BY <1>6, <2>1, <2>2, <2>3, <2>4, <2>5, SelectedIsOrdered
<1>13. QED BY <1>1, <1>7, <1>8, <1>9, <1>11, <1>12, Zenon DEF StepsAccountedFor, Without

\* StepsAccountedFor (flow_composer.py, apply_modifiers): the steps that no modifier
\* took away are there once and in the order they were written in, for any pipeline
\* and however modifiers inject, wrap or fail.
THEOREM ComposedIsAccountedFor == ASSUME ComposerConstants PROVE ComposerSpec => []StepsAccountedFor
BY ComposerBegins, ComposerSteps, ComposerMeans, PTL DEF ComposerSpec

-----------------------------------------------------------------------------
(***************************************************************************)
(* PackImport.  A pack's directory is empty when the new version is copied *)
(* into it, and what it held is in a backup before it is removed.          *)
(***************************************************************************)
InBackup(p, c) == \E t \in 0..MaxSeconds : backups[p][t] = c

Kept == \A p \in ImpPacks : \A c \in complete[p] : c # Absent /\ c # Broken /\ (ecosystem[p] = c \/ InBackup(p, c))

\* What an apply under way has done for its pack so far.
JobSound ==
    /\ job = NoJob \/ (job.step # "idle" /\ job.todo # <<>> /\ job.staging \in Stagings)
    /\ At("remove") => \A c \in complete[P] : InBackup(P, c)
    /\ At("copy") => ecosystem[P] = Absent

StagedWhole == \A s \in Stagings : staged[s].state = "complete" => staged[s].bundle \in Bundles

ImpInv == ImpTypeOK /\ Kept /\ JobSound /\ StagedWhole

LEMMA ImpBegins == ASSUME ImpConstants PROVE ImpInit => ImpInv
<1>1. SUFFICES ASSUME ImpInit PROVE ImpInv
  OBVIOUS
<1>2. 0 \in 0..MaxSeconds /\ 0 \in 0..MaxImpFaults /\ Absent \in Contents
  BY DEF ImpConstants, Contents
<1>3. /\ staged \in [Stagings -> [state : {"none", "partial", "complete", "gone"}, bundle : Bundles \cup {NoBundle}]]
      /\ StagedWhole
  BY <1>1 DEF ImpInit, StagedWhole
<1>4. backups \in [ImpPacks -> [0..MaxSeconds -> Contents]]
  BY <1>1, <1>2 DEF ImpInit
<1>5. job \in [todo : Seq([pack : ImpPacks, identity : Identities]), staging : {0} \cup Stagings,
               step : {"idle", "check", "backup", "remove", "copy"}] /\ JobSound
  BY <1>1 DEF ImpInit, NoJob, JobSound, At
<1>6. ImpTypeOK
  BY <1>1, <1>2, <1>3, <1>4, <1>5 DEF ImpInit, ImpTypeOK
<1>7. Kept
  BY <1>1 DEF ImpInit, Kept
<1>8. QED BY <1>3, <1>5, <1>6, <1>7 DEF ImpInv

\* The pack that is applied, and what becomes of the job.
LEMMA JobIs ==
  ASSUME ImpConstants, ImpInv, job # NoJob
  PROVE  /\ P \in ImpPacks /\ Identity \in Identities /\ Identity # "none" /\ job.staging \in Stagings
         /\ Content(Identity, job.staging) \in Contents \ {Absent, Broken}
         /\ ecosystem[P] \in Contents /\ backups[P] \in [0..MaxSeconds -> Contents] /\ complete[P] \subseteq Contents
         /\ backups[P][second] \in Contents /\ second \in 0..MaxSeconds
<1>1. job.todo \in Seq([pack : ImpPacks, identity : Identities]) /\ job.todo # <<>> /\ job.staging \in Stagings
  BY DEF ImpInv, ImpTypeOK, JobSound
<1>2. Head(job.todo) \in [pack : ImpPacks, identity : Identities]
  <2>1. PICK Items : Items = [pack : ImpPacks, identity : Identities]
    OBVIOUS
  <2>2. PICK s : s = job.todo
    OBVIOUS
  <2>3. Head(s) \in Items
    BY <1>1, <2>1, <2>2, HeadTailProperties
  <2>4. QED BY <2>1, <2>2, <2>3
<1>3. P \in ImpPacks /\ Identity \in Identities /\ Identity # "none"
  BY <1>2 DEF P, Identity, ImpConstants
<1>4. Content(Identity, job.staging) \in Contents \ {Absent, Broken}
  BY <1>1, <1>3 DEF Contents, Content, Absent, Broken
<1>5. QED BY <1>1, <1>3, <1>4 DEF ImpInv, ImpTypeOK

JobType == job \in [todo : Seq([pack : ImpPacks, identity : Identities]), staging : {0} \cup Stagings,
                    step : {"idle", "check", "backup", "remove", "copy"}]

LEMMA JobGoesOn ==
  ASSUME ImpConstants, ImpInv, job # NoJob,
         EndJob \/ job' = NoJob \/ \E step \in {"check", "backup"} : Become(step)
  PROVE  JobType' /\ (job' = NoJob \/ (job'.step \in {"check", "backup"} /\ job'.todo # <<>> /\ job'.staging \in Stagings))
<1>1. JobType /\ job.todo # <<>> /\ job.staging \in Stagings
  BY DEF ImpInv, ImpTypeOK, JobSound, JobType
<1>2. CASE job' = NoJob
  BY <1>2 DEF JobType, NoJob
<1>3. ASSUME NEW step \in {"check", "backup"}, Become(step)
      PROVE  JobType' /\ job'.step \in {"check", "backup"} /\ job'.todo # <<>> /\ job'.staging \in Stagings
  BY <1>1, <1>3 DEF Become, JobType
<1>4. CASE EndJob /\ Len(job.todo) # 1
  <2>1. job' = [job EXCEPT !.todo = Tail(@), !.step = "check"]
    BY <1>4 DEF EndJob
  <2>2. PICK t : t = Tail(job.todo)
    OBVIOUS
  <2>3. t \in Seq([pack : ImpPacks, identity : Identities]) /\ t # <<>>
    <3>1. PICK Items : Items = [pack : ImpPacks, identity : Identities]
      OBVIOUS
    <3>2. PICK s : s = job.todo
      OBVIOUS
    <3>3. s \in Seq(Items) /\ s # <<>> /\ Len(s) # 1
      BY <1>1, <1>4, <3>1, <3>2 DEF JobType
    <3>4. Tail(s) \in Seq(Items) /\ Tail(s) # <<>>
      <4>1. PICK u : u = Tail(s)
        OBVIOUS
      <4>2. u \in Seq(Items) /\ Len(u) = Len(s) - 1 /\ Len(s) \in Nat \ {0}
        BY <3>3, <4>1, HeadTailProperties, EmptySeq
      <4>3. Len(u) # 0
        BY <3>3, <4>2
      <4>4. QED BY <4>1, <4>2, <4>3
    <3>5. QED BY <2>2, <3>1, <3>2, <3>4
  <2>4. QED BY <1>1, <2>1, <2>2, <2>3 DEF JobType
<1>5. QED BY <1>2, <1>3, <1>4 DEF EndJob

LEMMA ImpSteps == ASSUME ImpConstants, ImpInv, [ImpNext]_impVars PROVE ImpInv'
<1>0. ImpTypeOK /\ JobType /\ Kept /\ JobSound /\ StagedWhole
  BY DEF ImpInv, ImpTypeOK, JobType
<1>1. CASE UNCHANGED impVars
  BY <1>0, <1>1 DEF impVars, ImpInv, ImpTypeOK, Kept, InBackup, JobSound, StagedWhole, At, P
<1>2. CASE CheckIdentity
  <2>1. UNCHANGED <<staged, ecosystem, backups, second, impFaults, complete>> /\ job # NoJob
    BY <1>2 DEF CheckIdentity, At, NoJob
  <2>2. \/ EndJob \/ Become("backup")
        \/ Become("copy") /\ ecosystem[P] = Absent
    BY <1>2 DEF CheckIdentity
  <2>3. CASE EndJob \/ Become("backup")
    <3>1. JobType' /\ (job' = NoJob \/ (job'.step \in {"check", "backup"} /\ job'.todo # <<>> /\ job'.staging \in Stagings))
      BY <2>1, <2>3, JobGoesOn
    <3>2. JobSound'
      BY <3>1 DEF JobSound, At, NoJob
    <3>3. QED BY <1>0, <2>1, <3>1, <3>2 DEF ImpInv, ImpTypeOK, JobType, Kept, InBackup, StagedWhole
  <2>4. CASE Become("copy") /\ ecosystem[P] = Absent
    <3>1. JobType' /\ JobSound'
      BY <1>0, <2>1, <2>4 DEF Become, JobType, JobSound, At, P
    <3>2. QED BY <1>0, <2>1, <3>1 DEF ImpInv, ImpTypeOK, JobType, Kept, InBackup, StagedWhole
  <2>5. QED BY <2>2, <2>3, <2>4
<1>3. CASE CreateBackup
  <2>1. UNCHANGED <<staged, ecosystem, second, impFaults, complete>> /\ job # NoJob
    BY <1>3 DEF CreateBackup, At, NoJob
  <2>2. CASE job' = NoJob /\ UNCHANGED backups
    <3>1. JobType' /\ JobSound'
      BY <2>1, <2>2, JobGoesOn DEF JobSound, At, NoJob
    <3>2. QED BY <1>0, <2>1, <2>2, <3>1 DEF ImpInv, ImpTypeOK, JobType, Kept, InBackup, StagedWhole
  <2>3. CASE /\ backups[P][second] = Absent /\ Become("remove")
             /\ backups' = [backups EXCEPT ![P][second] = ecosystem[P]]
    <3>1. /\ backups' \in [ImpPacks -> [0..MaxSeconds -> Contents]]
          /\ \A p \in ImpPacks, t \in 0..MaxSeconds :
               backups'[p][t] = IF p = P /\ t = second THEN ecosystem[P] ELSE backups[p][t]
      BY <1>0, <2>1, <2>3, JobIs DEF ImpTypeOK
    <3>2. ASSUME NEW p \in ImpPacks, NEW c, c # Absent, InBackup(p, c) PROVE InBackup(p, c)'
      <4>1. PICK t \in 0..MaxSeconds : backups[p][t] = c
        BY <3>2 DEF InBackup
      <4>2. backups'[p][t] = c
        BY <2>3, <3>1, <3>2, <4>1
      <4>3. QED BY <4>1, <4>2 DEF InBackup
    <3>6. Kept'
      BY <1>0, <2>1, <3>2 DEF Kept
    <3>3. PICK q : q = P /\ q = P'
      BY <1>0, <2>3 DEF Become, JobType, P
    <3>4. ASSUME NEW c \in complete[q] PROVE InBackup(q, c)'
      <4>1. q \in ImpPacks /\ c # Absent /\ (ecosystem[q] = c \/ InBackup(q, c))
        BY <1>0, <2>1, <3>3, JobIs DEF Kept
      <4>2. CASE ecosystem[q] = c
        <5>1. second \in 0..MaxSeconds /\ backups'[q][second] = c
          BY <2>1, <3>1, <3>3, <4>1, <4>2, JobIs
        <5>2. QED BY <5>1 DEF InBackup
      <4>3. QED BY <3>2, <4>1, <4>2
    <3>7. JobType' /\ JobSound'
      <4>1. JobType' /\ job'.todo = job.todo /\ job'.step = "remove" /\ job'.staging = job.staging
        BY <1>0, <2>3 DEF Become, JobType
      <4>2. QED BY <1>0, <2>1, <3>3, <3>4, <4>1 DEF JobSound, At
    <3>5. QED BY <1>0, <2>1, <3>1, <3>6, <3>7 DEF ImpInv, ImpTypeOK, JobType, StagedWhole
  <2>4. QED BY <1>3, <2>2, <2>3 DEF CreateBackup
<1>4. CASE RemoveOld
  <2>1. /\ UNCHANGED <<staged, backups, second, impFaults, complete>> /\ job # NoJob
        /\ At("remove") /\ Become("copy") /\ ecosystem' = [ecosystem EXCEPT ![P] = Absent]
    BY <1>4 DEF RemoveOld, At, NoJob
  <2>2. /\ ecosystem' \in [ImpPacks -> Contents]
        /\ \A p \in ImpPacks : ecosystem'[p] = IF p = P THEN Absent ELSE ecosystem[p]
    BY <1>0, <2>1, JobIs DEF ImpTypeOK, Contents
  <2>3. Kept'
    BY <1>0, <2>1, <2>2 DEF Kept, InBackup, JobSound
  <2>4. JobType' /\ JobSound'
    <3>1. JobType' /\ job'.todo = job.todo /\ job'.step = "copy" /\ job'.staging = job.staging
      BY <1>0, <2>1 DEF Become, JobType
    <3>2. P' = P /\ ecosystem'[P] = Absent
      BY <2>1, <2>2, <3>1, JobIs DEF P
    <3>3. QED BY <1>0, <2>1, <3>1, <3>2 DEF JobSound, At
  <2>5. QED BY <1>0, <2>1, <2>2, <2>3, <2>4 DEF ImpInv, ImpTypeOK, JobType, StagedWhole
<1>5. CASE CopyNew
  <2> DEFINE c == Content(Identity, job.staging)
  <2>1. /\ UNCHANGED <<staged, backups, second, impFaults>> /\ job # NoJob /\ At("copy") /\ EndJob
        /\ ecosystem' = [ecosystem EXCEPT ![P] = c] /\ complete' = [complete EXCEPT ![P] = @ \cup {c}]
    BY <1>5 DEF CopyNew, At, NoJob
  <2>2. P \in ImpPacks /\ c \in Contents \ {Absent, Broken}
    BY <2>1, JobIs
  <2> HIDE DEF c
  <2>3. /\ ecosystem' \in [ImpPacks -> Contents]
        /\ \A p \in ImpPacks : ecosystem'[p] = IF p = P THEN c ELSE ecosystem[p]
    BY <1>0, <2>1, <2>2 DEF ImpTypeOK
  <2>4. /\ complete' \in [ImpPacks -> SUBSET Contents]
        /\ \A p \in ImpPacks : complete'[p] = IF p = P THEN complete[P] \cup {c} ELSE complete[p]
    BY <1>0, <2>1, <2>2 DEF ImpTypeOK
  <2>5. Kept'
    BY <1>0, <2>1, <2>2, <2>3, <2>4 DEF Kept, InBackup, JobSound
  <2>6. JobType' /\ JobSound'
    BY <2>1, JobGoesOn DEF JobSound, At, NoJob
  <2>7. QED BY <1>0, <2>1, <2>3, <2>4, <2>5, <2>6 DEF ImpInv, ImpTypeOK, JobType, StagedWhole
<1>6. CASE Interrupted
  <2>1. UNCHANGED <<staged, second, complete>> /\ job # NoJob /\ job' = NoJob /\ impFaults' \in 0..MaxImpFaults
    BY <1>0, <1>6 DEF Interrupted, Fails, ImpTypeOK, ImpConstants
  <2>2. JobType' /\ JobSound'
    BY <2>1, JobGoesOn DEF JobSound, At, NoJob
  <2>3. CASE UNCHANGED <<ecosystem, backups>>
    BY <1>0, <2>1, <2>2, <2>3 DEF ImpInv, ImpTypeOK, JobType, Kept, InBackup, StagedWhole
  <2>4. CASE /\ backups[P][second] = Absent /\ UNCHANGED ecosystem
             /\ backups' = [backups EXCEPT ![P][second] = Broken]
    <3>1. /\ backups' \in [ImpPacks -> [0..MaxSeconds -> Contents]]
          /\ \A p \in ImpPacks, t \in 0..MaxSeconds :
               backups'[p][t] = IF p = P /\ t = second THEN Broken ELSE backups[p][t]
      <4>1. Broken \in Contents
        BY DEF Contents
      <4>2. QED BY <1>0, <2>1, <2>4, <4>1, JobIs DEF ImpTypeOK
    <3>2. ASSUME NEW p \in ImpPacks, NEW c, c # Absent, InBackup(p, c) PROVE InBackup(p, c)'
      <4>1. PICK t \in 0..MaxSeconds : backups[p][t] = c
        BY <3>2 DEF InBackup
      <4>2. backups'[p][t] = c
        BY <2>4, <3>1, <3>2, <4>1
      <4>3. QED BY <4>1, <4>2 DEF InBackup
    <3>3. Kept'
      BY <1>0, <2>1, <2>4, <3>2 DEF Kept
    <3>4. QED BY <1>0, <2>1, <2>2, <2>4, <3>1, <3>3 DEF ImpInv, ImpTypeOK, JobType, StagedWhole
  <2>5. CASE /\ job.step \in {"remove", "copy"} /\ UNCHANGED backups
             /\ ecosystem' = [ecosystem EXCEPT ![P] = Broken]
    <3>1. /\ ecosystem' \in [ImpPacks -> Contents]
          /\ \A p \in ImpPacks : ecosystem'[p] = IF p = P THEN Broken ELSE ecosystem[p]
      <4>1. Broken \in Contents
        BY DEF Contents
      <4>2. QED BY <1>0, <2>1, <2>5, <4>1, JobIs DEF ImpTypeOK
    <3>2. Kept'
      BY <1>0, <2>1, <2>5, <3>1 DEF Kept, InBackup, JobSound, At
    <3>3. QED BY <1>0, <2>1, <2>2, <2>5, <3>1, <3>2 DEF ImpInv, ImpTypeOK, JobType, StagedWhole
  <2>6. QED BY <1>6, <2>3, <2>4, <2>5 DEF Interrupted
<1>7. ASSUME NEW s \in Stagings, ApplyPack(s) PROVE ImpInv'
  <2>1. /\ UNCHANGED <<staged, ecosystem, backups, second, impFaults, complete>>
        /\ job' = [todo |-> staged[s].bundle, staging |-> s, step |-> "check"] /\ staged[s].bundle \in Bundles
    BY <1>0, <1>7 DEF ApplyPack, StagedWhole
  <2>2. JobType' /\ JobSound'
    BY <2>1 DEF ImpConstants, JobType, JobSound, At
  <2>3. QED BY <1>0, <2>1, <2>2 DEF ImpInv, ImpTypeOK, JobType, Kept, InBackup, StagedWhole
<1>8. ASSUME NEW s \in Stagings, CleanupStaging(s) PROVE ImpInv'
  <2>1. /\ UNCHANGED <<ecosystem, backups, job, second, impFaults, complete>>
        /\ staged' = [staged EXCEPT ![s] = [state |-> "gone", bundle |-> NoBundle]]
    BY <1>8 DEF CleanupStaging
  <2>2. StagedWhole' /\ staged' \in [Stagings -> [state : {"none", "partial", "complete", "gone"}, bundle : Bundles \cup {NoBundle}]]
    BY <1>0, <2>1 DEF StagedWhole, ImpTypeOK
  <2>3. QED BY <1>0, <2>1, <2>2 DEF ImpInv, ImpTypeOK, Kept, InBackup, JobSound, At, P
<1>9. ASSUME NEW s \in Stagings, NEW b \in Bundles, ImportPack(s, b) PROVE ImpInv'
  <2>1. /\ UNCHANGED <<ecosystem, backups, job, second, complete>> /\ impFaults' \in 0..MaxImpFaults
        /\ \E state \in {"complete", "partial"} : staged' = [staged EXCEPT ![s] = [state |-> state, bundle |-> b]]
    BY <1>0, <1>9 DEF ImportPack, Fails, ImpTypeOK, ImpConstants
  <2>2. StagedWhole' /\ staged' \in [Stagings -> [state : {"none", "partial", "complete", "gone"}, bundle : Bundles \cup {NoBundle}]]
    BY <1>0, <2>1 DEF StagedWhole, ImpTypeOK
  <2>3. QED BY <1>0, <2>1, <2>2 DEF ImpInv, ImpTypeOK, Kept, InBackup, JobSound, At, P
<1>10. CASE NextSecond
  <2>1. UNCHANGED <<staged, ecosystem, backups, job, impFaults, complete>> /\ second' \in 0..MaxSeconds
    BY <1>0, <1>10 DEF NextSecond, ImpTypeOK, ImpConstants
  <2>2. QED BY <1>0, <2>1 DEF ImpInv, ImpTypeOK, Kept, InBackup, JobSound, At, P, StagedWhole
<1>11. QED BY <1>1, <1>2, <1>3, <1>4, <1>5, <1>6, <1>7, <1>8, <1>9, <1>10 DEF ImpNext

LEMMA ImportMeans == ImpInv => ContentsKept
BY DEF ImpInv, Kept, InBackup, ContentsKept

\* ContentsKept (pack_applier.py): an import that fails or crashes at any step loses no
\* content that stood complete in ecosystem/, for any sources, seconds and faults.
THEOREM ContentsAreKept == ASSUME ImpConstants PROVE ImpSpec => []ContentsKept
BY ImportMeans, ImpBegins, ImpSteps, PTL DEF ImpSpec

-----------------------------------------------------------------------------
(***************************************************************************)
(* Vocabularies.  A group has the terms that point to it, which the lines  *)
(* connect; the older a group, the earlier the first of its lines.         *)
(***************************************************************************)
VocabGroup == [preferred : Terms \cup {0}, members : SUBSET Terms]
GroupsMatch ==
    /\ termGroup \in [Terms -> 0..groupCount] /\ groupCount \in 0..MaxGroups
    /\ groups \in [1..MaxGroups -> VocabGroup]
    /\ \A g \in 1..MaxGroups : /\ groups[g].members = {t \in Terms : termGroup[t] = g}
                               /\ groups[g] # NoGroup => groups[g].preferred \in groups[g].members

LinesGrouped ==
    /\ lines \in Seq(Seq(Terms) \ {<<>>})
    /\ \A i \in DOMAIN lines : \A t, u \in ToSet(lines[i]) : termGroup[t] = termGroup[u] /\ termGroup[t] # 0

\* A set of terms that no line leaves.
Closed(S, list) == \A i \in DOMAIN list : ToSet(list[i]) \cap S # {} => ToSet(list[i]) \subseteq S
Connected(list) == \A t, u \in Terms : termGroup[t] # 0 /\ termGroup[t] = termGroup[u] =>
    \A S \in SUBSET Terms : t \in S /\ Closed(S, list) => u \in S

\* The line that begins with the group, before any other of its lines does.
BeginsAt(g, i) == i \in DOMAIN lines /\ termGroup[lines[i][1]] = g /\ \A j \in 1..(i - 1) : termGroup[lines[j][1]] # g
OlderFirst ==
    /\ \A g \in 1..MaxGroups : groups[g].members # {} => \E i : BeginsAt(g, i) /\ groups[g].preferred = lines[i][1]
    /\ \A g, h \in 1..MaxGroups : \A i, j : BeginsAt(g, i) /\ BeginsAt(h, j) /\ g < h => i < j

GroupInv == GroupsMatch /\ LinesGrouped /\ Connected(lines) /\ OlderFirst
LoaderInv ==
    /\ loadedVocab \subseteq VocabPacks
    /\ loader \in [Loaders -> [pack : VocabPacks \cup {"none"}, line : Nat]]
    /\ \A l \in Loaders : loader[l] = Unloaded \/ loader[l].pack \in VocabPacks
VocabInv == GroupInv /\ LoaderInv

LEMMA LinesAre ==
  ASSUME GroupInv
  PROVE  /\ Len(lines) \in Nat /\ DOMAIN lines = 1..Len(lines) /\ lines \in Seq(Seq(Terms) \ {<<>>})
         /\ \A i \in DOMAIN lines : lines[i] \in Seq(Terms) \ {<<>>} /\ lines[i][1] \in ToSet(lines[i]) /\ ToSet(lines[i]) \subseteq Terms
<1>1. lines \in Seq(Seq(Terms) \ {<<>>})
  BY DEF GroupInv, LinesGrouped
<1>2. PICK s : s = lines
  OBVIOUS
<1>3. Len(s) \in Nat /\ DOMAIN s = 1..Len(s) /\ \A i \in DOMAIN s : s[i] \in Seq(Terms) \ {<<>>}
  BY <1>1, <1>2
<1>4. ASSUME NEW line \in Seq(Terms) \ {<<>>} PROVE line[1] \in ToSet(line) /\ ToSet(line) \subseteq Terms
  <2>1. Len(line) \in Nat /\ DOMAIN line = 1..Len(line) /\ Len(line) # 0 /\ \A i \in DOMAIN line : line[i] \in Terms
    BY EmptySeq
  <2>2. 1 \in DOMAIN line
    BY <2>1
  <2>3. QED BY <2>1, <2>2 DEF ToSet
<1>5. QED BY <1>1, <1>2, <1>3, <1>4

\* A line that is registered again changes nothing.
LEMMA SameLineAgain ==
  ASSUME VocabConstants, GroupInv, NEW i \in DOMAIN lines, MakeGroup(lines[i]) \/ MergeGroups(lines[i])
  PROVE  termGroup' = termGroup /\ groups' = groups /\ groupCount' = groupCount
<1>1. PICK line, g : line = lines[i] /\ g = termGroup[line[1]]
  OBVIOUS
<1>2. /\ line[1] \in ToSet(line) /\ ToSet(line) \subseteq Terms
      /\ termGroup \in [Terms -> 0..groupCount] /\ groupCount \in 0..MaxGroups /\ MaxGroups \in Nat
      /\ groups \in [1..MaxGroups -> VocabGroup]
  BY <1>1, LinesAre DEF GroupInv, GroupsMatch, VocabConstants
<1>3. g # 0 /\ \A t \in ToSet(line) : termGroup[t] = g
  BY <1>1, <1>2 DEF GroupInv, LinesGrouped
<1>4. g \in 1..MaxGroups
  <2>1. g \in 0..groupCount
    BY <1>1, <1>2
  <2>2. QED BY <1>2, <1>3, <2>1
<1>5. Touched(line) = {g}
  BY <1>2, <1>3, <1>4 DEF Touched
<1>6. PICK o, all : o = Oldest(Touched(line)) /\ all = ToSet(line) \cup UNION {groups[h].members : h \in Touched(line)}
  OBVIOUS
<1>7. o = g
  BY <1>4, <1>5, <1>6 DEF Oldest
<1>8. groups[g].members = {t \in Terms : termGroup[t] = g}
  BY <1>4 DEF GroupInv, GroupsMatch
<1>9. all = groups[g].members
  BY <1>2, <1>3, <1>5, <1>6, <1>8
<1>10. ~MakeGroup(line)
  BY <1>5 DEF MakeGroup
<1>11. MergeGroups(line)
  BY <1>1, <1>10
<1>12. /\ groupCount' = groupCount
       /\ groups' = [h \in 1..MaxGroups |-> IF h = o THEN [preferred |-> groups[o].preferred, members |-> all]
                                            ELSE IF h \in Touched(line) THEN NoGroup ELSE groups[h]]
       /\ termGroup' = [t \in Terms |-> IF t \in all THEN o ELSE termGroup[t]]
  BY <1>6, <1>11, Zenon DEF MergeGroups
<1>13. groups[g] = [preferred |-> groups[g].preferred, members |-> groups[g].members]
  BY <1>2, <1>4 DEF VocabGroup
<1>14. ASSUME NEW h \in 1..MaxGroups PROVE groups'[h] = groups[h]
  BY <1>5, <1>7, <1>9, <1>12, <1>13
<1>15. groups' = groups
  BY <1>2, <1>12, <1>14
<1>16. ASSUME NEW t \in Terms PROVE termGroup'[t] = termGroup[t]
  BY <1>7, <1>8, <1>9, <1>12
<1>17. termGroup' = termGroup
  BY <1>2, <1>12, <1>16
<1>18. QED BY <1>12, <1>15, <1>17

LEMMA LineAdded ==
  ASSUME GroupInv, NEW line \in Seq(Terms) \ {<<>>}, lines' = Append(lines, line)
  PROVE  /\ lines' \in Seq(Seq(Terms) \ {<<>>}) /\ DOMAIN lines' = 1..(Len(lines) + 1) /\ Len(lines') = Len(lines) + 1
         /\ lines'[Len(lines) + 1] = line
         /\ \A i \in DOMAIN lines : i \in DOMAIN lines' /\ lines'[i] = lines[i]
         /\ \A i \in DOMAIN lines' : (i \in DOMAIN lines /\ i < Len(lines) + 1) \/ i = Len(lines) + 1
         /\ line[1] \in ToSet(line) /\ ToSet(line) \subseteq Terms
         /\ \A S : Closed(S, lines') => Closed(S, lines) /\ (ToSet(line) \cap S # {} => ToSet(line) \subseteq S)
<1>1. PICK s, u : s = lines /\ u = Append(s, line)
  OBVIOUS
<1>2. s \in Seq(Seq(Terms) \ {<<>>}) /\ Len(s) \in Nat /\ DOMAIN s = 1..Len(s)
  BY <1>1, LinesAre
<1>3. /\ u \in Seq(Seq(Terms) \ {<<>>}) /\ Len(u) = Len(s) + 1 /\ u[Len(s) + 1] = line /\ \A i \in 1..Len(s) : u[i] = s[i]
  BY <1>1, <1>2, AppendProperties
<1>4. DOMAIN u = 1..(Len(s) + 1)
  BY <1>2, <1>3
<1>5. line[1] \in ToSet(line) /\ ToSet(line) \subseteq Terms
  <2>1. Len(line) \in Nat /\ DOMAIN line = 1..Len(line) /\ Len(line) # 0 /\ \A i \in DOMAIN line : line[i] \in Terms
    BY EmptySeq
  <2>2. 1 \in DOMAIN line
    BY <2>1
  <2>3. QED BY <2>1, <2>2 DEF ToSet
<1>6. \A i \in DOMAIN s : i \in DOMAIN u /\ u[i] = s[i]
  BY <1>2, <1>3, <1>4
<1>7. \A i \in DOMAIN u : (i \in DOMAIN s /\ i < Len(s) + 1) \/ i = Len(s) + 1
  BY <1>2, <1>4
<1>8. ASSUME NEW S, Closed(S, u) PROVE Closed(S, s) /\ (ToSet(line) \cap S # {} => ToSet(line) \subseteq S)
  <2>1. Len(s) + 1 \in DOMAIN u
    BY <1>2, <1>4
  <2>2. QED BY <1>3, <1>6, <1>8, <2>1 DEF Closed
<1>9. QED BY <1>1, <1>3, <1>4, <1>5, <1>6, <1>7, <1>8

\* The line makes a group.
LEMMA MadeKeeps ==
  ASSUME VocabConstants, GroupInv, NEW line \in Seq(Terms) \ {<<>>}, line \notin ToSet(lines), MakeGroup(line),
         lines' = Append(lines, line)
  PROVE  GroupInv'
<1>0. PICK c, n : c = groupCount + 1 /\ n = Len(lines) + 1
  OBVIOUS
<1>1. /\ termGroup \in [Terms -> 0..groupCount] /\ groupCount \in 0..MaxGroups /\ groupCount \in Nat
      /\ groups \in [1..MaxGroups -> VocabGroup] /\ MaxGroups \in Nat
      /\ Len(lines) \in Nat /\ DOMAIN lines = 1..Len(lines)
      /\ \A i \in DOMAIN lines : lines[i][1] \in ToSet(lines[i]) /\ ToSet(lines[i]) \subseteq Terms
  BY LinesAre DEF GroupInv, GroupsMatch, VocabConstants
<1>2. /\ lines' \in Seq(Seq(Terms) \ {<<>>}) /\ DOMAIN lines' = 1..n /\ lines'[n] = line
      /\ \A i \in DOMAIN lines : i \in DOMAIN lines' /\ lines'[i] = lines[i]
      /\ \A i \in DOMAIN lines' : (i \in DOMAIN lines /\ i < n) \/ i = n
      /\ line[1] \in ToSet(line) /\ ToSet(line) \subseteq Terms
      /\ \A S : Closed(S, lines') => Closed(S, lines) /\ (ToSet(line) \cap S # {} => ToSet(line) \subseteq S)
  BY <1>0, LineAdded
<1>3. /\ \A t \in ToSet(line) : termGroup[t] = 0 /\ t \in Terms
      /\ groupCount < MaxGroups /\ groupCount' = c /\ c \in 1..MaxGroups /\ c \in Nat
      /\ groups' = [groups EXCEPT ![c] = [preferred |-> line[1], members |-> ToSet(line)]]
      /\ termGroup' = [t \in Terms |-> IF t \in ToSet(line) THEN c ELSE termGroup[t]]
  <2>1. \A t \in ToSet(line) : termGroup[t] = 0 /\ t \in Terms
    BY <1>2 DEF MakeGroup, Touched
  <2>2. /\ groupCount < MaxGroups /\ groupCount' = c /\ termGroup' = [t \in Terms |-> IF t \in ToSet(line) THEN c ELSE termGroup[t]]
        /\ groups' = [groups EXCEPT ![c] = [preferred |-> line[1], members |-> ToSet(line)]]
    BY <1>0 DEF MakeGroup
  <2>3. c \in 1..MaxGroups /\ c \in Nat
    BY <1>0, <1>1, <2>2
  <2>4. QED BY <2>1, <2>2, <2>3
<1>4. \A t \in Terms : termGroup[t] # c /\ termGroup[t] \in 0..groupCount
  BY <1>0, <1>1
<1>5. GroupsMatch'
  <2>1. [preferred |-> line[1], members |-> ToSet(line)] \in VocabGroup
    BY <1>2 DEF VocabGroup
  <2>2. termGroup' \in [Terms -> 0..groupCount'] /\ groupCount' \in 0..MaxGroups
    BY <1>0, <1>1, <1>3
  <2>3. groups' \in [1..MaxGroups -> VocabGroup]
    BY <1>1, <1>3, <2>1
  <2>4. ASSUME NEW g \in 1..MaxGroups
        PROVE  /\ groups'[g].members = {t \in Terms : termGroup'[t] = g}
               /\ groups'[g] # NoGroup => groups'[g].preferred \in groups'[g].members
    <3>1. CASE g = c
      <4>1. groups'[g] = [preferred |-> line[1], members |-> ToSet(line)]
        BY <1>1, <1>3, <3>1
      <4>2. \A t \in Terms : termGroup'[t] = g <=> t \in ToSet(line)
        BY <1>3, <1>4, <3>1
      <4>3. QED BY <1>2, <4>1, <4>2
    <3>2. CASE g # c
      <4>1. groups'[g] = groups[g]
        BY <1>1, <1>3, <3>2
      <4>2. \A t \in Terms : termGroup'[t] = g <=> termGroup[t] = g
        BY <1>3, <3>2
      <4>3. QED BY <4>1, <4>2 DEF GroupInv, GroupsMatch
    <3>3. QED BY <3>1, <3>2
  <2>5. QED BY <2>2, <2>3, <2>4 DEF GroupsMatch
<1>6. LinesGrouped'
  <2>1. ASSUME NEW i \in DOMAIN lines', NEW t \in ToSet(lines'[i]), NEW u \in ToSet(lines'[i])
        PROVE  termGroup'[t] = termGroup'[u] /\ termGroup'[t] # 0
    <3>1. CASE i = n
      BY <1>0, <1>2, <1>3, <2>1, <3>1
    <3>2. CASE i \in DOMAIN lines
      <4>1. t \in ToSet(lines[i]) /\ u \in ToSet(lines[i]) /\ t \in Terms /\ u \in Terms
        BY <1>1, <1>2, <2>1, <3>2
      <4>2. termGroup[t] = termGroup[u] /\ termGroup[t] # 0
        BY <3>2, <4>1 DEF GroupInv, LinesGrouped
      <4>3. QED BY <1>3, <4>1, <4>2
    <3>3. QED BY <1>2, <3>1, <3>2
  <2>2. QED BY <1>2, <2>1 DEF LinesGrouped
<1>7. Connected(lines)'
  <2>1. ASSUME NEW t \in Terms, NEW u \in Terms, termGroup'[t] # 0, termGroup'[t] = termGroup'[u],
               NEW S \in SUBSET Terms, t \in S, Closed(S, lines')
        PROVE  u \in S
    <3>1. CASE t \in ToSet(line)
      <4>1. u \in ToSet(line)
        BY <1>3, <1>4, <2>1, <3>1
      <4>2. QED BY <1>2, <2>1, <3>1, <4>1
    <3>2. CASE t \notin ToSet(line)
      <4>1. termGroup[t] # 0 /\ termGroup[t] = termGroup[u]
        BY <1>3, <1>4, <2>1, <3>2
      <4>2. QED BY <1>2, <2>1, <4>1 DEF GroupInv, Connected
    <3>3. QED BY <3>1, <3>2
  <2>2. QED BY <2>1 DEF Connected
<1>8. /\ \A i : BeginsAt(c, i)' <=> i = n
      /\ \A g \in 1..MaxGroups : g # c => \A i : BeginsAt(g, i)' <=> BeginsAt(g, i)
  <2>1. n \in DOMAIN lines' /\ termGroup'[lines'[n][1]] = c /\ n \in Nat
    BY <1>0, <1>1, <1>2, <1>3
  <2>2. \A i \in DOMAIN lines : termGroup'[lines'[i][1]] = termGroup[lines[i][1]] /\ termGroup[lines[i][1]] # c
    <3>1. ASSUME NEW i \in DOMAIN lines PROVE termGroup'[lines'[i][1]] = termGroup[lines[i][1]] /\ termGroup[lines[i][1]] # c
      <4>1. lines'[i] = lines[i] /\ lines[i][1] \in Terms /\ termGroup[lines[i][1]] # 0
        BY <1>1, <1>2 DEF GroupInv, LinesGrouped
      <4>2. QED BY <1>3, <1>4, <4>1
    <3>2. QED BY <3>1
  <2>3. DOMAIN lines' = 1..n /\ DOMAIN lines = 1..(n - 1)
    BY <1>0, <1>1, <1>2
  <2>4. ASSUME NEW i, BeginsAt(c, i)' PROVE i = n
    <3>1. i \in DOMAIN lines' /\ termGroup'[lines'[i][1]] = c
      BY <2>4 DEF BeginsAt
    <3>2. QED BY <1>2, <2>2, <3>1
  <2>5. ASSUME NEW i, i = n PROVE BeginsAt(c, i)'
    <3>1. \A j \in 1..(i - 1) : termGroup'[lines'[j][1]] # c
      BY <2>2, <2>3, <2>5
    <3>2. QED BY <2>1, <2>5, <3>1 DEF BeginsAt
  <2>6. ASSUME NEW g \in 1..MaxGroups, g # c, NEW i PROVE BeginsAt(g, i)' <=> BeginsAt(g, i)
    <3>1. ASSUME BeginsAt(g, i)' PROVE BeginsAt(g, i)
      <4>1. i \in DOMAIN lines' /\ termGroup'[lines'[i][1]] = g /\ \A j \in 1..(i - 1) : termGroup'[lines'[j][1]] # g
        BY <3>1 DEF BeginsAt
      <4>2. i \in DOMAIN lines
        BY <1>2, <2>1, <2>6, <4>1
      <4>3. \A j \in 1..(i - 1) : j \in DOMAIN lines
        BY <2>1, <2>3, <4>2
      <4>4. QED BY <2>2, <4>1, <4>2, <4>3 DEF BeginsAt
    <3>2. ASSUME BeginsAt(g, i) PROVE BeginsAt(g, i)'
      <4>1. i \in DOMAIN lines /\ termGroup[lines[i][1]] = g /\ \A j \in 1..(i - 1) : termGroup[lines[j][1]] # g
        BY <3>2 DEF BeginsAt
      <4>2. \A j \in 1..(i - 1) : j \in DOMAIN lines
        BY <2>1, <2>3, <4>1
      <4>3. i \in DOMAIN lines' /\ termGroup'[lines'[i][1]] = g
        BY <1>2, <2>2, <4>1
      <4>4. \A j \in 1..(i - 1) : termGroup'[lines'[j][1]] # g
        BY <2>2, <4>1, <4>2
      <4>5. QED BY <4>3, <4>4 DEF BeginsAt
    <3>3. QED BY <3>1, <3>2
  <2>7. QED BY <2>4, <2>5, <2>6
<1>9. OlderFirst'
  <2>1. ASSUME NEW g \in 1..MaxGroups, groups'[g].members # {}
        PROVE  \E i : BeginsAt(g, i)' /\ groups'[g].preferred = lines'[i][1]
    <3>1. CASE g = c
      <4>1. groups'[g].preferred = line[1] /\ lines'[n] = line
        BY <1>1, <1>2, <1>3, <3>1
      <4>2. QED BY <1>8, <3>1, <4>1
    <3>2. CASE g # c
      <4>1. groups'[g] = groups[g]
        BY <1>1, <1>3, <3>2
      <4>2. PICK i : BeginsAt(g, i) /\ groups[g].preferred = lines[i][1]
        BY <2>1, <4>1 DEF GroupInv, OlderFirst
      <4>3. lines'[i] = lines[i]
        BY <1>2, <4>2 DEF BeginsAt
      <4>4. QED BY <1>8, <3>2, <4>1, <4>2, <4>3
    <3>3. QED BY <3>1, <3>2
  <2>2. ASSUME NEW g \in 1..MaxGroups, NEW h \in 1..MaxGroups, NEW i, NEW j, BeginsAt(g, i)', BeginsAt(h, j)', g < h
        PROVE  i < j
    <3>1. CASE h = c
      <4>1. g # c
        BY <1>3, <2>2, <3>1
      <4>2. BeginsAt(g, i) /\ j = n
        BY <1>8, <2>2, <3>1, <4>1
      <4>3. QED BY <1>2, <4>2 DEF BeginsAt
    <3>2. CASE g = c
      <4>1. h # c /\ BeginsAt(h, j)
        BY <1>3, <1>8, <2>2, <3>2
      <4>2. lines[j][1] \in Terms /\ termGroup[lines[j][1]] = h
        BY <1>1, <4>1 DEF BeginsAt
      <4>3. h <= groupCount
        BY <1>1, <1>4, <4>2
      <4>4. QED BY <1>0, <1>1, <2>2, <3>2, <4>3
    <3>3. CASE g # c /\ h # c
      BY <1>8, <2>2, <3>3 DEF GroupInv, OlderFirst
    <3>4. QED BY <3>1, <3>2, <3>3
  <2>3. QED BY <2>1, <2>2 DEF OlderFirst
<1>10. QED BY <1>5, <1>6, <1>7, <1>9 DEF GroupInv

\* A group that has terms has a first line, which is the first to begin with it.
LEMMA FirstOfGroup ==
  ASSUME GroupInv, VocabConstants, NEW i \in DOMAIN lines
  PROVE  \E h \in 1..MaxGroups : /\ h = termGroup[lines[i][1]] /\ \E j : BeginsAt(h, j) /\ j <= i
<1>1. /\ lines[i][1] \in ToSet(lines[i]) /\ lines[i][1] \in Terms /\ DOMAIN lines = 1..Len(lines) /\ Len(lines) \in Nat
      /\ termGroup \in [Terms -> 0..groupCount] /\ groupCount \in 0..MaxGroups /\ MaxGroups \in Nat
  BY LinesAre DEF GroupInv, GroupsMatch, VocabConstants
<1>2. PICK h : h = termGroup[lines[i][1]]
  OBVIOUS
<1>3. h \in 1..MaxGroups
  <2>1. h # 0
    BY <1>1, <1>2 DEF GroupInv, LinesGrouped
  <2>2. h \in 0..groupCount
    BY <1>1, <1>2
  <2>3. QED BY <1>1, <2>1, <2>2
<1>4. PICK j : BeginsAt(h, j)
  <2>1. groups[h].members # {}
    BY <1>1, <1>2, <1>3 DEF GroupInv, GroupsMatch
  <2>2. QED BY <1>3, <2>1 DEF GroupInv, OlderFirst
<1>5. j <= i
  <2>1. j \in 1..Len(lines) /\ \A m \in 1..(j - 1) : termGroup[lines[m][1]] # h
    BY <1>1, <1>4 DEF BeginsAt
  <2>2. SUFFICES ASSUME i < j PROVE FALSE
    BY <1>1, <2>1
  <2>3. i \in 1..(j - 1)
    BY <1>1, <2>1, <2>2
  <2>4. QED BY <1>2, <2>1, <2>3
<1>6. QED BY <1>2, <1>3, <1>4, <1>5

\* The oldest group takes the others in.
LEMMA MergedKeeps ==
  ASSUME VocabConstants, GroupInv, NEW line \in Seq(Terms) \ {<<>>}, line \notin ToSet(lines), MergeGroups(line),
         lines' = Append(lines, line)
  PROVE  GroupInv'
<1>0. PICK n, g, all : /\ n = Len(lines) + 1 /\ g = Oldest(Touched(line))
                       /\ all = ToSet(line) \cup UNION {groups[h].members : h \in Touched(line)}
  OBVIOUS
<1>1. /\ termGroup \in [Terms -> 0..groupCount] /\ groupCount \in 0..MaxGroups /\ groupCount \in Nat
      /\ groups \in [1..MaxGroups -> VocabGroup] /\ MaxGroups \in Nat
      /\ Len(lines) \in Nat /\ DOMAIN lines = 1..Len(lines)
      /\ \A i \in DOMAIN lines : lines[i][1] \in ToSet(lines[i]) /\ ToSet(lines[i]) \subseteq Terms
  BY LinesAre DEF GroupInv, GroupsMatch, VocabConstants
<1>2. /\ lines' \in Seq(Seq(Terms) \ {<<>>}) /\ DOMAIN lines' = 1..n /\ lines'[n] = line
      /\ \A i \in DOMAIN lines : i \in DOMAIN lines' /\ lines'[i] = lines[i]
      /\ \A i \in DOMAIN lines' : (i \in DOMAIN lines /\ i < n) \/ i = n
      /\ line[1] \in ToSet(line) /\ ToSet(line) \subseteq Terms
      /\ \A S : Closed(S, lines') => Closed(S, lines) /\ (ToSet(line) \cap S # {} => ToSet(line) \subseteq S)
  BY <1>0, LineAdded
<1>3. /\ Touched(line) # {} /\ groupCount' = groupCount
      /\ groups' = [h \in 1..MaxGroups |-> IF h = g THEN [preferred |-> groups[g].preferred, members |-> all]
                                           ELSE IF h \in Touched(line) THEN NoGroup ELSE groups[h]]
      /\ termGroup' = [t \in Terms |-> IF t \in all THEN g ELSE termGroup[t]]
  BY <1>0, Zenon DEF MergeGroups
<1>4. PICK T : T = Touched(line)
  OBVIOUS
<1>5. /\ \A t \in ToSet(line) : termGroup[t] = 0 \/ termGroup[t] \in T
      /\ \A h \in T : h # 0 /\ \E t \in ToSet(line) : t \in Terms /\ termGroup[t] = h
  BY <1>2, <1>4 DEF Touched
<1>6. T \subseteq 1..MaxGroups /\ T \in SUBSET Nat /\ T # {}
  <2>1. ASSUME NEW h \in T PROVE h \in 1..MaxGroups
    <3>1. h \in 0..groupCount /\ h # 0
      BY <1>1, <1>5
    <3>2. QED BY <1>1, <3>1
  <2>2. QED BY <1>1, <1>3, <1>4, <2>1
<1>7. g \in T /\ \A h \in T : g <= h
  <2>1. \E d \in T : \A e \in T : d <= e
    BY <1>6, LeastIsThere
  <2>2. QED BY <1>0, <1>4, <2>1 DEF Oldest
<1>8. \A h \in 1..MaxGroups : groups[h].members = {t \in Terms : termGroup[t] = h}
  BY DEF GroupInv, GroupsMatch
<1>9. all \subseteq Terms /\ \A t \in Terms : t \in all <=> t \in ToSet(line) \/ termGroup[t] \in T
  <2>1. \A t : t \in all <=> t \in ToSet(line) \/ \E h \in T : t \in groups[h].members
    BY <1>0, <1>4
  <2>2. \A h \in T : \A t : t \in groups[h].members <=> t \in Terms /\ termGroup[t] = h
    BY <1>6, <1>8
  <2>3. all \subseteq Terms
    BY <1>2, <2>1, <2>2
  <2>4. \A t \in Terms : t \in all <=> t \in ToSet(line) \/ termGroup[t] \in T
    BY <2>1, <2>2
  <2>5. QED BY <2>3, <2>4
<1>10. /\ \A t \in Terms : termGroup'[t] = g <=> t \in all
       /\ \A h \in 1..MaxGroups : h \notin T => \A t \in Terms : termGroup'[t] = h <=> termGroup[t] = h
       /\ \A h \in T : h # g => \A t \in Terms : termGroup'[t] # h
       /\ \A t \in Terms : termGroup[t] # 0 => termGroup'[t] # 0 /\ (termGroup[t] \in T <=> t \in all)
       /\ g # 0
  <2>1. \A t \in Terms : termGroup'[t] = IF t \in all THEN g ELSE termGroup[t]
    BY <1>3
  <2>2. g # 0
    BY <1>5, <1>7
  <2>3. \A t \in Terms : t \notin all => termGroup[t] \notin T
    BY <1>9
  <2>4. \A t \in Terms : t \in all => termGroup[t] = 0 \/ termGroup[t] \in T
    BY <1>5, <1>9
  <2>5. \A h \in 1..MaxGroups : h # 0
    BY <1>1
  <2>6. QED BY <1>7, <2>1, <2>2, <2>3, <2>4, <2>5
<1>11. GroupsMatch'
  <2>1. NoGroup \in VocabGroup /\ NoGroup.members = {} /\ [preferred |-> groups[g].preferred, members |-> all] \in VocabGroup
    <3>1. groups[g].preferred \in Terms \cup {0}
      BY <1>1, <1>6, <1>7 DEF VocabGroup
    <3>2. QED BY <1>9, <3>1 DEF NoGroup, VocabGroup
  <2>2. termGroup' \in [Terms -> 0..groupCount']
    <3>1. g \in 0..groupCount
      BY <1>1, <1>5, <1>7
    <3>2. QED BY <1>1, <1>3, <3>1
  <2>3. groups' \in [1..MaxGroups -> VocabGroup]
    BY <1>1, <1>3, <2>1
  <2>4. ASSUME NEW h \in 1..MaxGroups
        PROVE  /\ groups'[h].members = {t \in Terms : termGroup'[t] = h}
               /\ groups'[h] # NoGroup => groups'[h].preferred \in groups'[h].members
    <3>1. CASE h = g
      <4>1. groups'[h] = [preferred |-> groups[g].preferred, members |-> all]
        BY <1>3, <3>1
      <4>2. groups[g].preferred \in groups[g].members
        <5>1. groups[g].members # {}
          BY <1>2, <1>5, <1>6, <1>7, <1>8
        <5>2. groups[g] # NoGroup
          BY <2>1, <5>1
        <5>3. QED BY <1>6, <1>7, <5>2 DEF GroupInv, GroupsMatch
      <4>3. groups[g].preferred \in all
        BY <1>6, <1>7, <1>8, <1>9, <4>2
      <4>4. QED BY <1>9, <1>10, <3>1, <4>1, <4>3
    <3>2. CASE h # g /\ h \in T
      <4>1. groups'[h] = NoGroup
        BY <1>3, <1>4, <3>2
      <4>2. QED BY <1>10, <2>1, <3>2, <4>1
    <3>3. CASE h # g /\ h \notin T
      <4>1. groups'[h] = groups[h]
        BY <1>3, <1>4, <3>3
      <4>2. {t \in Terms : termGroup'[t] = h} = {t \in Terms : termGroup[t] = h}
        BY <1>10, <3>3
      <4>3. QED BY <4>1, <4>2 DEF GroupInv, GroupsMatch
    <3>4. QED BY <3>1, <3>2, <3>3
  <2>5. QED BY <1>1, <1>3, <2>2, <2>3, <2>4 DEF GroupsMatch
<1>12. LinesGrouped'
  <2>1. ASSUME NEW i \in DOMAIN lines', NEW t \in ToSet(lines'[i]), NEW u \in ToSet(lines'[i])
        PROVE  termGroup'[t] = termGroup'[u] /\ termGroup'[t] # 0
    <3>1. CASE i = n
      <4>1. t \in all /\ u \in all /\ t \in Terms /\ u \in Terms
        BY <1>2, <1>9, <2>1, <3>1
      <4>2. QED BY <1>10, <4>1
    <3>2. CASE i \in DOMAIN lines
      <4>1. t \in ToSet(lines[i]) /\ u \in ToSet(lines[i]) /\ t \in Terms /\ u \in Terms
        BY <1>1, <1>2, <2>1, <3>2
      <4>2. termGroup[t] = termGroup[u] /\ termGroup[t] # 0
        BY <3>2, <4>1 DEF GroupInv, LinesGrouped
      <4>3. t \in all <=> u \in all
        BY <1>10, <4>1, <4>2
      <4>4. QED BY <1>3, <1>10, <4>1, <4>2, <4>3
    <3>3. QED BY <1>2, <3>1, <3>2
  <2>2. QED BY <1>2, <2>1 DEF LinesGrouped
<1>13. Connected(lines)'
  <2>1. ASSUME NEW t \in Terms, NEW u \in Terms, termGroup'[t] # 0, termGroup'[t] = termGroup'[u],
               NEW S \in SUBSET Terms, t \in S, Closed(S, lines')
        PROVE  u \in S
    <3>0. Closed(S, lines) /\ (ToSet(line) \cap S # {} => ToSet(line) \subseteq S)
      BY <1>2, <2>1
    <3>1. CASE t \in all
      <4>1. u \in all
        BY <1>10, <2>1, <3>1
      <4>2. ToSet(line) \cap S # {}
        <5>1. CASE t \in ToSet(line)
          BY <2>1, <5>1
        <5>2. CASE termGroup[t] \in T
          <6>1. PICK w \in ToSet(line) : w \in Terms /\ termGroup[w] = termGroup[t] /\ termGroup[t] # 0
            BY <1>5, <5>2
          <6>2. w \in S
            BY <2>1, <3>0, <6>1 DEF GroupInv, Connected
          <6>3. QED BY <6>1, <6>2
        <5>3. QED BY <1>9, <3>1, <5>1, <5>2
      <4>3. ToSet(line) \subseteq S
        BY <3>0, <4>2
      <4>4. CASE u \in ToSet(line)
        BY <4>3, <4>4
      <4>5. CASE termGroup[u] \in T
        <5>1. PICK w \in ToSet(line) : w \in Terms /\ termGroup[w] = termGroup[u] /\ termGroup[w] # 0
          BY <1>5, <4>5
        <5>2. w \in S
          BY <4>3, <5>1
        <5>3. QED BY <2>1, <3>0, <5>1, <5>2 DEF GroupInv, Connected
      <4>6. QED BY <1>9, <4>1, <4>4, <4>5
    <3>2. CASE t \notin all
      <4>1. u \notin all
        BY <1>10, <2>1, <3>2
      <4>2. termGroup[t] # 0 /\ termGroup[t] = termGroup[u]
        BY <1>3, <2>1, <3>2, <4>1
      <4>3. QED BY <2>1, <3>0, <4>2 DEF GroupInv, Connected
    <3>3. QED BY <3>1, <3>2
  <2>2. QED BY <2>1 DEF Connected
<1>14. PICK f : BeginsAt(g, f) /\ groups[g].preferred = lines[f][1]
  <2>1. groups[g].members # {}
    BY <1>2, <1>5, <1>6, <1>7, <1>8
  <2>2. QED BY <1>6, <1>7, <2>1 DEF GroupInv, OlderFirst
<1>15. f \in DOMAIN lines /\ f \in 1..Len(lines) /\ \A m \in 1..(f - 1) : termGroup[lines[m][1]] # g
  BY <1>1, <1>14 DEF BeginsAt
<1>16. \A m \in 1..(f - 1) : termGroup'[lines'[m][1]] # g
  <2>1. SUFFICES ASSUME NEW m \in 1..(f - 1), termGroup'[lines'[m][1]] = g PROVE FALSE
    OBVIOUS
  <2>2. m \in DOMAIN lines /\ m < f
    BY <1>1, <1>15
  <2>3. lines'[m] = lines[m] /\ lines[m][1] \in Terms /\ termGroup[lines[m][1]] # 0
    BY <1>1, <1>2, <2>2 DEF GroupInv, LinesGrouped
  <2>4. termGroup[lines[m][1]] \in T
    BY <1>10, <2>1, <2>3
  <2>5. PICK h \in 1..MaxGroups : h = termGroup[lines[m][1]] /\ \E j : BeginsAt(h, j) /\ j <= m
    BY <2>2, FirstOfGroup
  <2>6. PICK j : BeginsAt(h, j) /\ j <= m
    BY <2>5
  <2>7. h # g /\ g <= h /\ g \in 1..MaxGroups
    BY <1>6, <1>7, <1>15, <2>4, <2>5
  <2>8. g < h
    BY <1>1, <2>7
  <2>9. f < j
    BY <1>14, <2>6, <2>7, <2>8 DEF GroupInv, OlderFirst
  <2>10. j \in 1..Len(lines)
    BY <1>1, <2>6 DEF BeginsAt
  <2>11. QED BY <1>1, <1>15, <2>2, <2>6, <2>9, <2>10
<1>17. BeginsAt(g, f)'
  <2>1. f \in DOMAIN lines' /\ lines'[f] = lines[f] /\ lines[f][1] \in Terms /\ termGroup[lines[f][1]] = g
    BY <1>1, <1>2, <1>14, <1>15 DEF BeginsAt
  <2>2. termGroup'[lines'[f][1]] = g
    BY <1>7, <1>9, <1>10, <2>1
  <2>3. QED BY <1>16, <2>1, <2>2 DEF BeginsAt
<1>18. \A h \in 1..MaxGroups : h \notin T => \A i : BeginsAt(h, i)' <=> BeginsAt(h, i)
  <2>0. SUFFICES ASSUME NEW h \in 1..MaxGroups, h \notin T PROVE \A i : BeginsAt(h, i)' <=> BeginsAt(h, i)
    OBVIOUS
  <2>1. \A i \in DOMAIN lines : (termGroup'[lines'[i][1]] = h <=> termGroup[lines[i][1]] = h)
    BY <1>1, <1>2, <1>10, <2>0
  <2>2. n \in Nat /\ n \in DOMAIN lines' /\ termGroup'[lines'[n][1]] # h /\ DOMAIN lines = 1..(n - 1)
    <3>1. n \in Nat /\ n \in DOMAIN lines' /\ DOMAIN lines = 1..(n - 1)
      BY <1>0, <1>1, <1>2
    <3>2. termGroup'[line[1]] = g
      BY <1>2, <1>9, <1>10
    <3>3. QED BY <1>2, <1>7, <2>0, <3>1, <3>2
  <2>3. ASSUME NEW i PROVE BeginsAt(h, i)' <=> BeginsAt(h, i)
    <3>1. ASSUME BeginsAt(h, i)' PROVE BeginsAt(h, i)
      <4>1. i \in DOMAIN lines' /\ termGroup'[lines'[i][1]] = h /\ \A j \in 1..(i - 1) : termGroup'[lines'[j][1]] # h
        BY <3>1 DEF BeginsAt
      <4>2. i \in DOMAIN lines
        BY <1>2, <2>2, <4>1
      <4>3. \A j \in 1..(i - 1) : j \in DOMAIN lines
        BY <2>2, <4>2
      <4>4. termGroup[lines[i][1]] = h /\ \A j \in 1..(i - 1) : termGroup[lines[j][1]] # h
        BY <2>1, <4>1, <4>2, <4>3
      <4>5. QED BY <4>2, <4>4 DEF BeginsAt
    <3>2. ASSUME BeginsAt(h, i) PROVE BeginsAt(h, i)'
      <4>1. i \in DOMAIN lines /\ termGroup[lines[i][1]] = h /\ \A j \in 1..(i - 1) : termGroup[lines[j][1]] # h
        BY <3>2 DEF BeginsAt
      <4>2. \A j \in 1..(i - 1) : j \in DOMAIN lines
        BY <2>2, <4>1
      <4>3. i \in DOMAIN lines' /\ termGroup'[lines'[i][1]] = h /\ \A j \in 1..(i - 1) : termGroup'[lines'[j][1]] # h
        BY <1>2, <2>1, <4>1, <4>2
      <4>4. QED BY <4>3 DEF BeginsAt
    <3>3. QED BY <3>1, <3>2
  <2>4. QED BY <2>3
<1>19. /\ \A i : BeginsAt(g, i)' => i = f
       /\ \A h \in T : h # g => \A i : ~BeginsAt(h, i)'
  <2>1. \A i \in DOMAIN lines' : lines'[i][1] \in Terms
    BY <1>1, <1>2
  <2>2. ASSUME NEW i, BeginsAt(g, i)' PROVE i = f
    <3>1. i \in 1..n /\ termGroup'[lines'[i][1]] = g /\ \A j \in 1..(i - 1) : termGroup'[lines'[j][1]] # g
      BY <1>2, <2>2 DEF BeginsAt
    <3>2. f \in 1..n /\ termGroup'[lines'[f][1]] = g
      BY <1>2, <1>15, <1>17 DEF BeginsAt
    <3>3. n \in Nat
      BY <1>0, <1>1
    <3>4. ~(i < f)
      <4>1. i < f => i \in 1..(f - 1)
        BY <3>1, <3>2, <3>3
      <4>2. QED BY <1>16, <3>1, <4>1
    <3>5. ~(f < i)
      <4>1. f < i => f \in 1..(i - 1)
        BY <3>1, <3>2, <3>3
      <4>2. QED BY <3>1, <3>2, <4>1
    <3>6. QED BY <3>1, <3>2, <3>3, <3>4, <3>5
  <2>3. ASSUME NEW h \in T, h # g, NEW i, BeginsAt(h, i)' PROVE FALSE
    <3>1. i \in DOMAIN lines' /\ termGroup'[lines'[i][1]] = h
      BY <2>3 DEF BeginsAt
    <3>2. QED BY <1>10, <2>1, <2>3, <3>1
  <2>4. QED BY <2>2, <2>3
<1>20. OlderFirst'
  <2>1. ASSUME NEW h \in 1..MaxGroups, groups'[h].members # {}
        PROVE  \E i : BeginsAt(h, i)' /\ groups'[h].preferred = lines'[i][1]
    <3>1. CASE h = g
      <4>1. groups'[h].preferred = lines[f][1] /\ lines'[f] = lines[f]
        BY <1>2, <1>3, <1>14, <1>15, <3>1
      <4>2. QED BY <1>17, <3>1, <4>1
    <3>2. CASE h # g /\ h \in T
      BY <1>3, <1>4, <2>1, <3>2 DEF NoGroup
    <3>3. CASE h # g /\ h \notin T
      <4>1. groups'[h] = groups[h]
        BY <1>3, <1>4, <3>3
      <4>2. PICK i : BeginsAt(h, i) /\ groups[h].preferred = lines[i][1]
        BY <2>1, <4>1 DEF GroupInv, OlderFirst
      <4>3. lines'[i] = lines[i]
        BY <1>2, <4>2 DEF BeginsAt
      <4>4. QED BY <1>18, <3>3, <4>1, <4>2, <4>3
    <3>4. QED BY <3>1, <3>2, <3>3
  <2>2. ASSUME NEW h \in 1..MaxGroups, NEW i, BeginsAt(h, i)' PROVE BeginsAt(h, i)
    <3>1. CASE h \notin T
      BY <1>18, <2>2, <3>1
    <3>2. CASE h \in T
      <4>1. h = g /\ i = f
        BY <1>19, <2>2, <3>2
      <4>2. QED BY <1>14, <4>1
    <3>3. QED BY <3>1, <3>2
  <2>3. ASSUME NEW h \in 1..MaxGroups, NEW k \in 1..MaxGroups, NEW i, NEW j, BeginsAt(h, i)', BeginsAt(k, j)', h < k
        PROVE  i < j
    <3>1. BeginsAt(h, i) /\ BeginsAt(k, j)
      BY <2>2, <2>3
    <3>2. QED BY <2>3, <3>1 DEF GroupInv, OlderFirst
  <2>4. QED BY <2>1, <2>3 DEF OlderFirst
<1>21. QED BY <1>11, <1>12, <1>13, <1>20 DEF GroupInv

LEMMA VocabBegins == ASSUME VocabConstants PROVE VocabInit => VocabInv
<1>1. SUFFICES ASSUME VocabInit PROVE VocabInv
  OBVIOUS
<1>2. /\ termGroup = [t \in Terms |-> 0] /\ groups = [g \in 1..MaxGroups |-> NoGroup] /\ groupCount = 0
      /\ loadedVocab = {} /\ loader = [l \in Loaders |-> Unloaded] /\ lines = <<>>
  BY <1>1 DEF VocabInit
<1>3. MaxGroups \in Nat /\ NoGroup \in VocabGroup /\ NoGroup.members = {}
  BY DEF VocabConstants, NoGroup, VocabGroup
<1>4. GroupsMatch
  <2>1. \A g \in 1..MaxGroups : {t \in Terms : termGroup[t] = g} = {}
    BY <1>2, <1>3
  <2>2. QED BY <1>2, <1>3, <2>1 DEF GroupsMatch
<1>5. DOMAIN lines = {} /\ lines \in Seq(Seq(Terms) \ {<<>>})
  BY <1>2
<1>6. LinesGrouped
  BY <1>5 DEF LinesGrouped
<1>7. Connected(lines)
  BY <1>2 DEF Connected
<1>8. OlderFirst
  BY <1>2, <1>3, <1>5 DEF OlderFirst, BeginsAt
<1>9. LoaderInv
  <2>1. Unloaded \in [pack : VocabPacks \cup {"none"}, line : Nat]
    BY DEF Unloaded
  <2>2. QED BY <1>2, <2>1 DEF LoaderInv
<1>10. QED BY <1>4, <1>6, <1>7, <1>8, <1>9 DEF VocabInv, GroupInv

LEMMA VocabSteps == ASSUME VocabConstants PROVE VocabInv /\ [VocabNext]_vocabVars => VocabInv'
<1>1. SUFFICES ASSUME VocabInv, [VocabNext]_vocabVars PROVE VocabInv'
  OBVIOUS
<1>2. ASSUME UNCHANGED <<termGroup, groups, groupCount, lines>> PROVE GroupInv'
  <2>1. GroupInv
    BY <1>1 DEF VocabInv
  <2>2. GroupsMatch'
    BY <1>2, <2>1 DEF GroupInv, GroupsMatch
  <2>3. LinesGrouped'
    BY <1>2, <2>1 DEF GroupInv, LinesGrouped
  <2>4. Connected(lines)'
    BY <1>2, <2>1 DEF GroupInv, Connected
  <2>5. OlderFirst'
    BY <1>2, <2>1 DEF GroupInv, OlderFirst, BeginsAt
  <2>6. QED BY <2>2, <2>3, <2>4, <2>5 DEF GroupInv
<1>3. ASSUME NEW l \in Loaders, LoadLine(l) PROVE VocabInv'
  <2>0. PICK pack, nth : pack = loader[l].pack /\ nth = loader[l].line
    OBVIOUS
  <2>1. pack \in VocabPacks /\ nth \in Nat /\ nth \in DOMAIN PackVocab[pack]
    BY <1>1, <1>3, <2>0 DEF LoadLine, VocabInv, LoaderInv
  <2>2. PICK line : line = PackVocab[pack][nth]
    OBVIOUS
  <2>3. line \in Seq(Terms) \ {<<>>}
    <3>1. PICK v : v = PackVocab[pack]
      OBVIOUS
    <3>2. v \in Seq(Seq(Terms) \ {<<>>}) /\ nth \in DOMAIN v
      BY <2>1, <3>1 DEF VocabConstants
    <3>3. v[nth] \in Seq(Terms) \ {<<>>}
      BY <3>2
    <3>4. QED BY <2>2, <3>1, <3>3
  <2>4. /\ MakeGroup(line) \/ MergeGroups(line)
        /\ lines' = IF line \in ToSet(lines) THEN lines ELSE Append(lines, line)
        /\ loader' = [loader EXCEPT ![l].line = @ + 1] /\ loadedVocab' = loadedVocab
    BY <1>3, <2>0, <2>2 DEF LoadLine
  <2>5. GroupInv'
    <3>1. CASE line \in ToSet(lines)
      <4>1. PICK i \in DOMAIN lines : line = lines[i]
        BY <3>1 DEF ToSet
      <4>2. termGroup' = termGroup /\ groups' = groups /\ groupCount' = groupCount
        BY <1>1, <2>4, <4>1, SameLineAgain DEF VocabInv
      <4>3. QED BY <1>2, <2>4, <3>1, <4>2
    <3>2. CASE line \notin ToSet(lines)
      <4>1. lines' = Append(lines, line)
        BY <2>4, <3>2
      <4>2. CASE MakeGroup(line)
        BY <1>1, <2>3, <3>2, <4>1, <4>2, MadeKeeps DEF VocabInv
      <4>3. CASE MergeGroups(line)
        BY <1>1, <2>3, <3>2, <4>1, <4>3, MergedKeeps DEF VocabInv
      <4>4. QED BY <2>4, <4>2, <4>3
    <3>3. QED BY <3>1, <3>2
  <2>6. LoaderInv'
    <3>1. [loader[l] EXCEPT !.line = @ + 1] \in [pack : VocabPacks \cup {"none"}, line : Nat]
      BY <1>1 DEF VocabInv, LoaderInv
    <3>2. [loader[l] EXCEPT !.line = @ + 1].pack \in VocabPacks
      BY <1>1, <2>0, <2>1 DEF VocabInv, LoaderInv
    <3>3. loader' = [loader EXCEPT ![l] = [loader[l] EXCEPT !.line = @ + 1]]
      BY <2>4
    <3>4. QED BY <1>1, <2>4, <3>1, <3>2, <3>3 DEF VocabInv, LoaderInv
  <2>7. QED BY <2>5, <2>6 DEF VocabInv
<1>4. ASSUME NEW l \in Loaders, EndLoad(l) PROVE VocabInv'
  <2>1. Unloaded \in [pack : VocabPacks \cup {"none"}, line : Nat]
    BY DEF Unloaded
  <2>2. /\ loader[l] # Unloaded /\ loadedVocab' = loadedVocab \cup {loader[l].pack} /\ loader' = [loader EXCEPT ![l] = Unloaded]
        /\ UNCHANGED <<termGroup, groups, groupCount, lines>>
    BY <1>4 DEF EndLoad
  <2>3. LoaderInv'
    BY <1>1, <2>1, <2>2 DEF VocabInv, LoaderInv
  <2>4. QED BY <1>2, <2>2, <2>3 DEF VocabInv
<1>5. ASSUME NEW l \in Loaders, NEW p \in VocabPacks, LoadPackVocab(l, p) PROVE VocabInv'
  <2>1. [pack |-> p, line |-> 1] \in [pack : VocabPacks \cup {"none"}, line : Nat]
    OBVIOUS
  <2>2. /\ loader' = [loader EXCEPT ![l] = [pack |-> p, line |-> 1]]
        /\ UNCHANGED <<termGroup, groups, groupCount, loadedVocab, lines>>
    BY <1>5 DEF LoadPackVocab
  <2>3. LoaderInv'
    BY <1>1, <2>1, <2>2 DEF VocabInv, LoaderInv
  <2>4. QED BY <1>2, <2>2, <2>3 DEF VocabInv
<1>6. CASE UNCHANGED vocabVars
  BY <1>1, <1>2, <1>6 DEF vocabVars, VocabInv, LoaderInv
<1>7. QED BY <1>1, <1>3, <1>4, <1>5, <1>6 DEF VocabNext

LEMMA VocabMeans == ASSUME VocabConstants, VocabInv PROVE VocabSound
<1>1. /\ termGroup \in [Terms -> 0..groupCount] /\ groupCount \in 0..MaxGroups /\ MaxGroups \in Nat
      /\ Len(lines) \in Nat /\ DOMAIN lines = 1..Len(lines)
      /\ \A i \in DOMAIN lines : lines[i][1] \in ToSet(lines[i]) /\ ToSet(lines[i]) \subseteq Terms
  BY LinesAre DEF VocabInv, GroupInv, GroupsMatch, VocabConstants
<1>2. /\ \A i \in DOMAIN lines : \A t, u \in ToSet(lines[i]) : termGroup[t] = termGroup[u] /\ termGroup[t] # 0
      /\ Connected(lines)
  BY DEF VocabInv, GroupInv, LinesGrouped
<1>3. ASSUME NEW t \in Terms PROVE Class(t) = {u \in Terms : \A S \in SUBSET Terms : t \in S /\ Closed(S, lines) => u \in S}
  BY Zenon DEF Class, Closed
<1>4. ASSUME NEW t \in Terms, termGroup[t] = 0 PROVE Class(t) = {t}
  <2>1. Closed({t}, lines)
    BY <1>2, <1>4 DEF Closed
  <2>2. \A u \in Class(t) : u = t
    BY <1>3, <2>1
  <2>3. t \in Class(t)
    BY <1>3
  <2>4. QED BY <2>2, <2>3
<1>5. ASSUME NEW t \in Terms, termGroup[t] # 0 PROVE Class(t) = {u \in Terms : termGroup[u] = termGroup[t]}
  <2> DEFINE S == {u \in Terms : termGroup[u] = termGroup[t]}
  <2>1. Closed(S, lines)
    <3>1. ASSUME NEW i \in DOMAIN lines, NEW w \in ToSet(lines[i]), w \in S, NEW u \in ToSet(lines[i]) PROVE u \in S
      BY <1>1, <1>2, <3>1
    <3> HIDE DEF S
    <3>2. QED BY <3>1 DEF Closed
  <2>2. S \in SUBSET Terms /\ t \in S
    OBVIOUS
  <2>3. Class(t) \subseteq S
    <3> HIDE DEF S
    <3>1. QED BY <1>3, <2>1, <2>2
  <2>4. ASSUME NEW u \in S PROVE u \in Class(t)
    BY <1>2, <1>3, <1>5 DEF Connected
  <2>5. QED BY <2>3, <2>4
<1>6. ASSUME NEW t \in Terms PROVE \A u \in Terms : IsSynonym(t, u) <=> u \in Class(t)
  BY <1>4, <1>5 DEF IsSynonym
<1>7. ASSUME NEW t \in Terms
      PROVE  Preferred(t) = IF Class(t) = {t} THEN t ELSE lines[FirstLine(Class(t))][1]
  <2>1. CASE termGroup[t] = 0
    BY <1>4, <2>1 DEF Preferred
  <2>2. CASE termGroup[t] # 0
    <3>1. PICK g : g = termGroup[t]
      OBVIOUS
    <3>2. g \in 1..MaxGroups
      BY <1>1, <2>2, <3>1
    <3>3. groups[g].members # {}
      BY <3>1, <3>2 DEF VocabInv, GroupInv, GroupsMatch
    <3>4. PICK i : BeginsAt(g, i) /\ groups[g].preferred = lines[i][1]
      BY <3>2, <3>3 DEF VocabInv, GroupInv, OlderFirst
    <3>5. PICK C : C = Class(t)
      OBVIOUS
    <3>6. \A u \in Terms : u \in C <=> termGroup[u] = g
      BY <1>5, <2>2, <3>1, <3>5
    <3>7. /\ i \in DOMAIN lines /\ lines[i][1] \in C /\ \A j \in 1..(i - 1) : lines[j][1] \notin C
      <4>1. i \in 1..Len(lines) /\ termGroup[lines[i][1]] = g /\ \A j \in 1..(i - 1) : termGroup[lines[j][1]] # g
        BY <1>1, <3>4 DEF BeginsAt
      <4>2. \A j \in 1..(i - 1) : j \in DOMAIN lines
        BY <1>1, <4>1
      <4>3. QED BY <1>1, <3>6, <4>1, <4>2
    <3>8. Preferred(t) = lines[i][1]
      BY <2>2, <3>1, <3>4 DEF Preferred
    <3>9. FirstLine(C) = i
      <4>1. ASSUME NEW k \in DOMAIN lines, lines[k][1] \in C, \A j \in 1..(k - 1) : lines[j][1] \notin C PROVE k = i
        <5>1. k \in Nat /\ i \in Nat /\ k >= 1 /\ i >= 1
          BY <1>1, <3>7
        <5>2. ~(k < i)
          BY <3>7, <4>1, <5>1
        <5>3. ~(i < k)
          BY <3>7, <4>1, <5>1
        <5>4. QED BY <5>1, <5>2, <5>3
      <4>2. QED BY <3>7, <4>1 DEF FirstLine
    <3>10. QED BY <3>5, <3>7, <3>8, <3>9
  <2>3. QED BY <2>1, <2>2
<1>8. QED BY <1>6, <1>7, Zenon DEF VocabSound

\* VocabSound (vocab_registry.py): synonyms are the terms that lines connect, and
\* the preferred one is of the earliest of their lines, for any vocabularies and
\* any number of threads that load them.
THEOREM VocabIsSound == ASSUME VocabConstants PROVE VocabSpec => []VocabSound
<1>1. VocabInv => VocabSound
  BY VocabMeans
<1>2. QED BY <1>1, VocabBegins, VocabSteps, PTL DEF VocabSpec

(***************************************************************************)
(* Functions.  What the indexes say of a function is what its manifest     *)
(* says; the preferred terms are those of the time it was registered,      *)
(* unless the vocabulary has changed since.                                *)
(***************************************************************************)
NamesMatch == \A f \in Functions : entries[f] # NoManifest => entries[f] \in Manifests /\ entries[f].name = f
FunctionInv == FunctionTypeOK /\ NamesMatch /\ LookupsSound

LEMMA ManifestsAre ==
  ASSUME FunctionConstants, NEW m \in Manifests
  PROVE  /\ m # NoManifest /\ m.name \in Functions /\ m.name # "none"
         /\ AllowedAliases(m) \subseteq Aliases
BY DEF FunctionConstants, Functions, NoManifest, AllowedAliases, Aliases

LEMMA FunctionBegins == ASSUME FunctionConstants PROVE FunctionInit => FunctionInv
<1>1. SUFFICES ASSUME FunctionInit PROVE FunctionInv
  OBVIOUS
<1>2. FunctionTypeOK
  BY <1>1 DEF FunctionInit, FunctionTypeOK
<1>3. NamesMatch /\ Registered = {}
  BY <1>1 DEF FunctionInit, NamesMatch, Registered
<1>4. LookupsSound
  BY <1>1, <1>3 DEF FunctionInit, LookupsSound
<1>5. QED BY <1>2, <1>3, <1>4 DEF FunctionInv

LEMMA RegisterKeeps ==
  ASSUME FunctionConstants, FunctionInv, NEW m \in Manifests, RegisterFunction(m)
  PROVE  FunctionInv'
<1>1. PICK f : f = m.name
  OBVIOUS
<1>2. /\ f \in Functions /\ f # "none" /\ m # NoManifest /\ AllowedAliases(m) \subseteq Aliases
      /\ FunctionTypeOK /\ NamesMatch /\ LookupsSound
  BY <1>1, ManifestsAre DEF FunctionInv
<1>3. PICK tags, al : tags = NormalizedTags(m) /\ al = AllowedAliases(m)
  OBVIOUS
<1>4. /\ entries[f] = NoManifest /\ entries' = [entries EXCEPT ![f] = m] /\ drifted' = drifted
      /\ tagIndex' = [t \in Terms |-> IF t \in tags THEN tagIndex[t] \cup {f} ELSE tagIndex[t]]
      /\ aliasMap' = [a \in Aliases |-> IF a \in al /\ aliasMap[a] = "none" THEN f ELSE aliasMap[a]]
      /\ permIndex' = [p \in RequiredPermissions |-> IF p = m.permission THEN f ELSE permIndex[p]]
      /\ contested' = contested \cup {a \in al : aliasMap[a] # "none"}
                              \cup {p \in {m.permission} \cap RequiredPermissions : permIndex[p] # "none"}
      /\ termGroup' = termGroup /\ groups' = groups
  BY <1>1, <1>3, Zenon DEF RegisterFunction, AddToTagIndex, RegisterVocabAliases, AddToPermissionIndex, vocabVars
<1>5. /\ entries'[f] = m /\ \A g \in Functions : g # f => entries'[g] = entries[g]
      /\ f \notin Registered /\ Registered' = Registered \cup {f} /\ Registered \subseteq Functions
  BY <1>2, <1>4 DEF FunctionTypeOK, Registered
<1>6. FunctionTypeOK'
  <2>1. entries' \in [Functions -> Manifests \cup {NoManifest}]
    BY <1>2, <1>4 DEF FunctionTypeOK
  <2>2. tagIndex' \in [Terms -> SUBSET Functions]
    BY <1>2, <1>4 DEF FunctionTypeOK
  <2>3. aliasMap' \in [Aliases -> Functions \cup {"none"}]
    BY <1>2, <1>4 DEF FunctionTypeOK
  <2>4. permIndex' \in [RequiredPermissions -> Functions \cup {"none"}]
    BY <1>2, <1>4 DEF FunctionTypeOK
  <2>5. contested' \subseteq Aliases \cup RequiredPermissions
    BY <1>2, <1>3, <1>4 DEF FunctionTypeOK
  <2>6. QED BY <1>2, <1>4, <2>1, <2>2, <2>3, <2>4, <2>5 DEF FunctionTypeOK
<1>7. NamesMatch'
  BY <1>1, <1>2, <1>5 DEF NamesMatch
<1>8. ASSUME NEW g \in Functions, g \notin drifted, NEW t \in Terms
      PROVE  g \in tagIndex'[t] <=> g \in Registered' /\ t \in NormalizedTags(entries[g])'
  <2>0. g \in tagIndex[t] <=> g \in Registered /\ t \in NormalizedTags(entries[g])
    BY <1>2, <1>8 DEF LookupsSound
  <2>1. \A x : Preferred(x)' = Preferred(x)
    BY <1>4 DEF Preferred
  <2>2. CASE g = f
    <3>1. NormalizedTags(entries[g])' = tags
      BY <1>3, <1>5, <2>1, <2>2 DEF NormalizedTags
    <3>2. QED BY <1>4, <1>5, <2>0, <2>2, <3>1
  <2>3. CASE g # f
    <3>1. NormalizedTags(entries[g])' = NormalizedTags(entries[g])
      BY <1>5, <1>8, <2>1, <2>3 DEF NormalizedTags
    <3>2. QED BY <1>4, <1>5, <2>0, <2>3, <3>1
  <2>4. QED BY <2>2, <2>3
<1>9. \A a \in Aliases :
         /\ aliasMap'[a] # "none" => aliasMap'[a] \in Registered' /\ a \in AllowedAliases(entries'[aliasMap'[a]])
         /\ a \notin contested' => \A g \in Registered' : a \in AllowedAliases(entries'[g]) => aliasMap'[a] = g
  <2>1. ASSUME NEW a \in Aliases
        PROVE  aliasMap'[a] # "none" => aliasMap'[a] \in Registered' /\ a \in AllowedAliases(entries'[aliasMap'[a]])
    <3>1. CASE a \in al /\ aliasMap[a] = "none"
      BY <1>3, <1>4, <1>5, <3>1
    <3>2. CASE ~(a \in al /\ aliasMap[a] = "none")
      <4>1. aliasMap'[a] = aliasMap[a]
        BY <1>4, <3>2
      <4>2. aliasMap[a] # "none" => aliasMap[a] \in Registered /\ a \in AllowedAliases(entries[aliasMap[a]])
        BY <1>2 DEF LookupsSound
      <4>3. QED BY <1>5, <4>1, <4>2
    <3>3. QED BY <3>1, <3>2
  <2>2. ASSUME NEW a \in Aliases, a \notin contested', NEW g \in Registered', a \in AllowedAliases(entries'[g])
        PROVE  aliasMap'[a] = g
    <3>0. /\ a \notin contested
          /\ aliasMap[a] # "none" => aliasMap[a] \in Registered /\ a \in AllowedAliases(entries[aliasMap[a]])
          /\ \A h \in Registered : a \in AllowedAliases(entries[h]) => aliasMap[a] = h
      BY <1>2, <1>4, <2>2 DEF LookupsSound
    <3>1. CASE g = f
      <4>1. a \in al /\ aliasMap[a] = "none"
        BY <1>3, <1>4, <1>5, <2>2, <3>1
      <4>2. QED BY <1>4, <3>1, <4>1
    <3>2. CASE g # f
      <4>1. g \in Registered /\ entries'[g] = entries[g]
        BY <1>5, <2>2, <3>2
      <4>2. aliasMap[a] = g /\ g # "none"
        BY <1>5, <2>2, <3>0, <4>1 DEF FunctionConstants
      <4>3. QED BY <1>4, <4>2
    <3>3. QED BY <3>1, <3>2
  <2>3. QED BY <2>1, <2>2
<1>10. \A p \in RequiredPermissions :
         /\ permIndex'[p] # "none" => permIndex'[p] \in Registered' /\ entries'[permIndex'[p]].permission = p
         /\ p \notin contested' => \A g \in Registered' : entries'[g].permission = p => permIndex'[p] = g
  <2>1. ASSUME NEW p \in RequiredPermissions
        PROVE  permIndex'[p] # "none" => permIndex'[p] \in Registered' /\ entries'[permIndex'[p]].permission = p
    <3>1. CASE p = m.permission
      BY <1>4, <1>5, <3>1
    <3>2. CASE p # m.permission
      <4>1. permIndex'[p] = permIndex[p]
        BY <1>4, <3>2
      <4>2. permIndex[p] # "none" => permIndex[p] \in Registered /\ entries[permIndex[p]].permission = p
        BY <1>2 DEF LookupsSound
      <4>3. QED BY <1>5, <4>1, <4>2
    <3>3. QED BY <3>1, <3>2
  <2>2. ASSUME NEW p \in RequiredPermissions, p \notin contested', NEW g \in Registered', entries'[g].permission = p
        PROVE  permIndex'[p] = g
    <3>0. /\ p \notin contested
          /\ \A h \in Registered : entries[h].permission = p => permIndex[p] = h
      BY <1>2, <1>4, <2>2 DEF LookupsSound
    <3>1. CASE g = f
      BY <1>4, <1>5, <2>2, <3>1
    <3>2. CASE g # f
      <4>1. g \in Registered /\ entries'[g] = entries[g]
        BY <1>5, <2>2, <3>2
      <4>2. permIndex[p] = g /\ g # "none"
        BY <1>5, <2>2, <3>0, <4>1 DEF FunctionConstants
      <4>3. p # m.permission
        BY <1>4, <2>2, <4>2
      <4>4. QED BY <1>4, <4>2, <4>3
    <3>3. QED BY <3>1, <3>2
  <2>3. QED BY <2>1, <2>2
<1>11. AllowedAliases(m)' = AllowedAliases(m)
  BY DEF AllowedAliases
<1>12. LookupsSound'
  BY <1>4, <1>8, <1>9, <1>10 DEF LookupsSound
<1>13. QED BY <1>6, <1>7, <1>12 DEF FunctionInv

LEMMA UnregisterKeeps ==
  ASSUME FunctionConstants, FunctionInv, NEW pack, UnregisterPack(pack)
  PROVE  FunctionInv'
<1>1. PICK dropped : dropped = {f \in Registered : entries[f].pack = pack}
  OBVIOUS
<1>2. FunctionTypeOK /\ NamesMatch /\ LookupsSound /\ dropped \subseteq Functions /\ Registered \subseteq Functions /\ "none" \notin dropped
  BY <1>1 DEF FunctionInv, Registered, FunctionConstants
<1>3. /\ entries' = [f \in Functions |-> IF f \in dropped THEN NoManifest ELSE entries[f]]
      /\ tagIndex' = [t \in Terms |-> tagIndex[t] \ {f \in dropped : t \in NormalizedTags(entries[f])}]
      /\ aliasMap' = [a \in Aliases |-> IF aliasMap[a] \in dropped THEN "none" ELSE aliasMap[a]]
      /\ permIndex' = [p \in RequiredPermissions |-> IF permIndex[p] \in dropped THEN "none" ELSE permIndex[p]]
      /\ contested' = contested /\ drifted' = drifted /\ termGroup' = termGroup /\ groups' = groups
  BY <1>1, Zenon DEF UnregisterPack, vocabVars
<1>4. Registered' = Registered \ dropped /\ \A f \in Registered' : entries'[f] = entries[f]
  BY <1>2, <1>3 DEF Registered
<1>5. FunctionTypeOK'
  <2>1. entries' \in [Functions -> Manifests \cup {NoManifest}]
    BY <1>2, <1>3 DEF FunctionTypeOK
  <2>2. tagIndex' \in [Terms -> SUBSET Functions]
    BY <1>2, <1>3 DEF FunctionTypeOK
  <2>3. aliasMap' \in [Aliases -> Functions \cup {"none"}]
    BY <1>2, <1>3 DEF FunctionTypeOK
  <2>4. permIndex' \in [RequiredPermissions -> Functions \cup {"none"}]
    BY <1>2, <1>3 DEF FunctionTypeOK
  <2>5. QED BY <1>2, <1>3, <2>1, <2>2, <2>3, <2>4 DEF FunctionTypeOK
<1>6. NamesMatch'
  BY <1>2, <1>3 DEF NamesMatch
<1>7. ASSUME NEW g \in Functions, g \notin drifted, NEW t \in Terms
      PROVE  g \in tagIndex'[t] <=> g \in Registered' /\ t \in NormalizedTags(entries[g])'
  <2>1. g \in tagIndex[t] <=> g \in Registered /\ t \in NormalizedTags(entries[g])
    BY <1>2, <1>7 DEF LookupsSound
  <2>2. \A x : Preferred(x)' = Preferred(x)
    BY <1>3 DEF Preferred
  <2>3. g \in Registered' => NormalizedTags(entries[g])' = NormalizedTags(entries[g])
    BY <1>4, <2>2 DEF NormalizedTags
  <2>4. g \in tagIndex'[t] <=> g \in tagIndex[t] /\ ~(g \in dropped /\ t \in NormalizedTags(entries[g]))
    BY <1>3
  <2>5. QED BY <1>4, <2>1, <2>3, <2>4
<1>8. \A a \in Aliases :
         /\ aliasMap'[a] # "none" => aliasMap'[a] \in Registered' /\ a \in AllowedAliases(entries'[aliasMap'[a]])
         /\ a \notin contested' => \A g \in Registered' : a \in AllowedAliases(entries'[g]) => aliasMap'[a] = g
  <2>1. ASSUME NEW a \in Aliases, aliasMap'[a] # "none"
        PROVE  aliasMap'[a] \in Registered' /\ a \in AllowedAliases(entries'[aliasMap'[a]])
    <3>1. aliasMap'[a] = aliasMap[a] /\ aliasMap[a] \notin dropped
      BY <1>3, <2>1
    <3>2. aliasMap[a] \in Registered /\ a \in AllowedAliases(entries[aliasMap[a]])
      BY <1>2, <2>1, <3>1 DEF LookupsSound
    <3>3. QED BY <1>4, <3>1, <3>2
  <2>2. ASSUME NEW a \in Aliases, a \notin contested', NEW g \in Registered', a \in AllowedAliases(entries'[g])
        PROVE  aliasMap'[a] = g
    <3>1. g \in Registered /\ g \notin dropped /\ a \in AllowedAliases(entries[g])
      BY <1>4, <2>2
    <3>2. aliasMap[a] = g
      BY <1>2, <1>3, <2>2, <3>1 DEF LookupsSound
    <3>3. QED BY <1>3, <3>1, <3>2
  <2>3. QED BY <2>1, <2>2
<1>9. \A p \in RequiredPermissions :
         /\ permIndex'[p] # "none" => permIndex'[p] \in Registered' /\ entries'[permIndex'[p]].permission = p
         /\ p \notin contested' => \A g \in Registered' : entries'[g].permission = p => permIndex'[p] = g
  <2>1. ASSUME NEW p \in RequiredPermissions, permIndex'[p] # "none"
        PROVE  permIndex'[p] \in Registered' /\ entries'[permIndex'[p]].permission = p
    <3>1. permIndex'[p] = permIndex[p] /\ permIndex[p] \notin dropped
      BY <1>3, <2>1
    <3>2. permIndex[p] \in Registered /\ entries[permIndex[p]].permission = p
      BY <1>2, <2>1, <3>1 DEF LookupsSound
    <3>3. QED BY <1>4, <3>1, <3>2
  <2>2. ASSUME NEW p \in RequiredPermissions, p \notin contested', NEW g \in Registered', entries'[g].permission = p
        PROVE  permIndex'[p] = g
    <3>1. g \in Registered /\ g \notin dropped /\ entries[g].permission = p
      BY <1>4, <2>2
    <3>2. permIndex[p] = g
      BY <1>2, <1>3, <2>2, <3>1 DEF LookupsSound
    <3>3. QED BY <1>3, <3>1, <3>2
  <2>3. QED BY <2>1, <2>2
<1>10. LookupsSound'
  BY <1>3, <1>7, <1>8, <1>9 DEF LookupsSound
<1>11. QED BY <1>5, <1>6, <1>10 DEF FunctionInv

LEMMA FunctionSteps == ASSUME FunctionConstants PROVE FunctionInv /\ [FunctionNext]_<<vocabVars, functionVars>> => FunctionInv'
<1>1. SUFFICES ASSUME FunctionInv, [FunctionNext]_<<vocabVars, functionVars>> PROVE FunctionInv'
  OBVIOUS
<1>2. FunctionTypeOK /\ NamesMatch /\ LookupsSound
  BY <1>1 DEF FunctionInv
<1>3. ASSUME UNCHANGED <<entries, tagIndex, aliasMap, permIndex, contested>>, drifted \subseteq drifted', drifted' \subseteq Functions,
             \A f \in Functions \ drifted' : f \in Registered => \A t \in entries[f].tags : Preferred(t)' = Preferred(t)
      PROVE  FunctionInv'
  <2>1. FunctionTypeOK' /\ NamesMatch' /\ Registered' = Registered
    BY <1>2, <1>3 DEF FunctionTypeOK, NamesMatch, Registered
  <2>2. ASSUME NEW g \in Functions, g \notin drifted', NEW t \in Terms
        PROVE  g \in tagIndex'[t] <=> g \in Registered' /\ t \in NormalizedTags(entries[g])'
    <3>1. g \in tagIndex[t] <=> g \in Registered /\ t \in NormalizedTags(entries[g])
      BY <1>2, <1>3, <2>2 DEF LookupsSound
    <3>2. g \in Registered => NormalizedTags(entries[g])' = NormalizedTags(entries[g])
      BY <1>3, <2>2 DEF NormalizedTags
    <3>3. QED BY <1>3, <2>1, <3>1, <3>2
  <2>3. LookupsSound'
    BY <1>2, <1>3, <2>1, <2>2 DEF LookupsSound
  <2>4. QED BY <2>1, <2>3 DEF FunctionInv
<1>4. CASE VocabStep
  <2>1. /\ drifted' = drifted \cup {f \in Registered : \E t \in entries[f].tags : Preferred(t)' # Preferred(t)}
        /\ UNCHANGED <<entries, tagIndex, aliasMap, permIndex, contested>>
    BY <1>4 DEF VocabStep
  <2>2. drifted' \subseteq Functions
    BY <1>2, <2>1 DEF FunctionTypeOK, Registered
  <2>3. QED BY <1>3, <2>1, <2>2
<1>5. CASE ClearFunctions
  <2>1. /\ entries' = [f \in Functions |-> NoManifest]
        /\ tagIndex' = [t \in Terms |-> {}]
        /\ aliasMap' = [a \in Aliases |-> "none"] /\ permIndex' = [p \in RequiredPermissions |-> "none"]
        /\ contested' = {} /\ drifted' = {}
    BY <1>5 DEF ClearFunctions
  <2>2. FunctionTypeOK'
    BY <2>1 DEF FunctionTypeOK
  <2>3. NamesMatch' /\ Registered' = {}
    BY <2>1 DEF NamesMatch, Registered
  <2>4. LookupsSound'
    BY <2>1, <2>3 DEF LookupsSound
  <2>5. QED BY <2>2, <2>3, <2>4 DEF FunctionInv
<1>6. CASE UNCHANGED <<vocabVars, functionVars>>
  <2>1. UNCHANGED <<entries, tagIndex, aliasMap, permIndex, contested, drifted, termGroup, groups>>
    BY <1>6 DEF vocabVars, functionVars
  <2>2. \A t : Preferred(t)' = Preferred(t)
    BY <2>1 DEF Preferred
  <2>3. QED BY <1>2, <1>3, <2>1, <2>2 DEF FunctionTypeOK
<1>7. QED BY <1>1, <1>4, <1>5, <1>6, RegisterKeeps, UnregisterKeeps DEF FunctionNext

\* LookupsSound (function_registry.py): every index leads to what the manifests of
\* the registered functions say, for any manifests and however packs come and go
\* while the vocabulary changes.
THEOREM LookupsAreSound == ASSUME FunctionConstants PROVE FunctionSpec => []LookupsSound
<1>1. FunctionInv => LookupsSound
  BY DEF FunctionInv
<1>2. QED BY <1>1, FunctionBegins, FunctionSteps, PTL DEF FunctionSpec

-----------------------------------------------------------------------------
(***************************************************************************)
(* The registry of packs and components. A pack, a component and a route   *)
(* is in the index that its directory, the last one loaded, puts it in.    *)
(***************************************************************************)
\* A finite set as a sequence: every element, once.
LEMMA SetToSeqIs ==
  ASSUME NEW S, IsFiniteSet(S)
  PROVE  /\ SetToSeq(S) \in Seq(S) /\ DOMAIN SetToSeq(S) = 1..Len(SetToSeq(S)) /\ Len(SetToSeq(S)) \in Nat
         /\ \A x \in S : \E i \in DOMAIN SetToSeq(S) : SetToSeq(S)[i] = x
         /\ \A i, j \in DOMAIN SetToSeq(S) : SetToSeq(S)[i] = SetToSeq(S)[j] => i = j
<1>1. PICK c : c = Cardinality(S)
  OBVIOUS
<1>2. c \in Nat /\ ExistsBijection(1..c, S)
  BY <1>1, FS_CardinalityType
<1>3. PICK f : f \in Bijection(1..c, S)
  BY <1>2 DEF ExistsBijection
<1>4. f \in [1..c -> S] /\ IsInjective(f)
  BY <1>3 DEF Bijection, Injection, IsInjective
<1>5. PICK s : s = SetToSeq(S)
  OBVIOUS
<1>6. s \in [1..c -> S] /\ IsInjective(s)
  BY <1>1, <1>4, <1>5 DEF SetToSeq
<1>7. s \in Injection(1..c, S)
  BY <1>6 DEF Injection
<1>8. IsFiniteSet(1..c) /\ Cardinality(1..c) = c
  BY <1>2, FS_Interval
<1>9. s \in Surjection(1..c, S)
  BY <1>1, <1>7, <1>8, FS_Injection
<1>10. s \in Seq(S) /\ Len(s) = c /\ DOMAIN s = 1..c
  BY <1>2, <1>6
<1>11. \A x \in S : \E i \in DOMAIN s : s[i] = x
  BY <1>9, <1>10 DEF Surjection
<1>12. QED BY <1>2, <1>5, <1>6, <1>10, <1>11 DEF IsInjective

(***************************************************************************)
(* The pack registry.  The indexes hold what the packs loaded so far have, *)
(* and the packs loaded so far are of directories before the next one.     *)
(***************************************************************************)
OwnEntries(d, t) == {e \in {d} \X Uuids : e[2] \in Dirs[d].components /\ TypeOf[e[2]] = t}
Added(d, t) == SetToSeq({<<d, u>> : u \in {v \in Dirs[d].components : TypeOf[v] = t}})
EntryPairs == (DOMAIN Dirs) \X Uuids
LoadedBefore == scan # 0 => \A p \in PackIds : packs[p] < scan
RoutesFollow == \A p \in PackIds \ doubled :
    /\ packs[p] # 0 /\ Dirs[packs[p]].routes => packRoutes[p] = packs[p]
    /\ packRoutes[p] # 0 => packRoutes[p] = packs[p]
ComponentsFollow == doubled = {} =>
    /\ \A u \in Uuids : componentIndex[u] # 0 <=> \E d \in Loaded : u \in Dirs[d].components
    /\ \A t \in Types :
         /\ \A i, j \in DOMAIN typeIndex[t] : typeIndex[t][i] = typeIndex[t][j] => i = j
         /\ \A e \in EntryPairs : (\E i \in DOMAIN typeIndex[t] : typeIndex[t][i] = e) <=> (e[1] \in Loaded /\ e \in OwnEntries(e[1], t))
FunctionsFollow == \A f \in FunctionNames :
    /\ functionDirs[f] # 0 => Dirs[functionDirs[f]].pack = f[1]
    /\ packs[f[1]] # 0 /\ f[2] \in Dirs[packs[f[1]]].functions => functionDirs[f] # 0
RegistryShape ==
    /\ readable \subseteq DOMAIN Dirs /\ scan \in 0..(Len(Dirs) + 1)
    /\ packs \in [PackIds -> DirOrNone] /\ packRoutes \in [PackIds -> DirOrNone]
    /\ componentIndex \in [Uuids -> DirOrNone]
    /\ typeIndex \in [Types -> Seq(EntryPairs)]
    /\ functionDirs \in [FunctionNames -> DirOrNone] /\ doubled \subseteq PackIds
RegistryInv == RegistryShape /\ LoadedBefore /\ RoutesFollow /\ ComponentsFollow /\ FunctionsFollow

LEMMA DirsAre ==
  ASSUME RegistryConstants
  PROVE  /\ Len(Dirs) \in Nat /\ DOMAIN Dirs = 1..Len(Dirs) /\ 0 \notin DOMAIN Dirs
         /\ \A d \in DOMAIN Dirs : d \in Nat /\ Dirs[d].pack \in PackIds
         /\ DirOrNone \subseteq Nat
<1>1. Len(Dirs) \in Nat /\ DOMAIN Dirs = 1..Len(Dirs)
  BY DEF RegistryConstants
<1>2. QED BY <1>1 DEF PackIds, DirOrNone

LEMMA RegistryBegins == ASSUME RegistryConstants PROVE RegistryInit => RegistryInv
<1>1. SUFFICES ASSUME RegistryInit PROVE RegistryInv
  OBVIOUS
<1>2. Loaded = {} /\ <<>> \in Seq(EntryPairs) /\ DOMAIN <<>> = {}
  BY <1>1 DEF RegistryInit, Loaded
<1>3. RegistryShape
  BY <1>1, <1>2, DirsAre DEF RegistryInit, RegistryShape, DirOrNone
<1>4. LoadedBefore /\ RoutesFollow
  BY <1>1 DEF RegistryInit, LoadedBefore, RoutesFollow
<1>5. ComponentsFollow
  BY <1>1, <1>2 DEF RegistryInit, ComponentsFollow
<1>6. FunctionsFollow
  <2>1. \A f \in FunctionNames : f[1] \in PackIds
    BY DEF FunctionNames, PackIds
  <2>2. QED BY <1>1, <2>1 DEF RegistryInit, FunctionsFollow
<1>7. QED BY <1>3, <1>4, <1>5, <1>6 DEF RegistryInv

\* The components of a directory that one type has, one after the other.
LEMMA AddedAre ==
  ASSUME RegistryConstants, NEW d \in DOMAIN Dirs, NEW t
  PROVE  /\ Added(d, t) \in Seq(EntryPairs) /\ Len(Added(d, t)) \in Nat /\ DOMAIN Added(d, t) = 1..Len(Added(d, t))
         /\ \A e : (\E i \in DOMAIN Added(d, t) : Added(d, t)[i] = e) <=> e \in OwnEntries(d, t)
         /\ \A i, j \in DOMAIN Added(d, t) : Added(d, t)[i] = Added(d, t)[j] => i = j
<1> DEFINE S == {<<d, u>> : u \in {v \in Dirs[d].components : TypeOf[v] = t}}
<1>1. S = OwnEntries(d, t) /\ S \subseteq EntryPairs
  <2>1. ASSUME NEW e \in S PROVE e \in OwnEntries(d, t) /\ e \in EntryPairs
    BY DEF OwnEntries, EntryPairs, RegistryConstants
  <2>2. ASSUME NEW e \in OwnEntries(d, t) PROVE e \in S
    <3>1. PICK u \in Uuids : e = <<d, u>>
      BY DEF OwnEntries
    <3>2. u \in Dirs[d].components /\ TypeOf[u] = t
      BY <3>1 DEF OwnEntries
    <3>3. QED BY <3>1, <3>2
  <2>3. QED BY <2>1, <2>2
<1>2. IsFiniteSet(S)
  <2> DEFINE f == [e \in S |-> e[2]]
  <2>1. f \in Injection(S, Dirs[d].components)
    <3>1. f \in [S -> Dirs[d].components]
      OBVIOUS
    <3>2. \A e, g \in S : f[e] = f[g] => e = g
      OBVIOUS
    <3> HIDE DEF S, f
    <3>3. DOMAIN f = S
      BY <3>1
    <3>4. QED BY <3>1, <3>2, <3>3 DEF Injection, IsInjective
  <2>2. IsFiniteSet(Dirs[d].components)
    BY DEF RegistryConstants
  <2> HIDE DEF S, f
  <2>3. QED BY <2>1, <2>2, FS_Injection
<1>3. PICK s : s = SetToSeq(S)
  OBVIOUS
<1>4. /\ s \in Seq(S) /\ Len(s) \in Nat /\ DOMAIN s = 1..Len(s)
      /\ \A x \in S : \E i \in DOMAIN s : s[i] = x
      /\ \A i, j \in DOMAIN s : s[i] = s[j] => i = j
  <2> HIDE DEF S
  <2>1. QED BY <1>2, <1>3, SetToSeqIs
<1>5. \A i \in DOMAIN s : s[i] \in S
  <2> HIDE DEF S
  <2>1. QED BY <1>4
<1>6. s \in Seq(EntryPairs)
  <2> HIDE DEF S
  <2>1. \A i \in 1..Len(s) : s[i] \in EntryPairs
    BY <1>1, <1>4, <1>5
  <2>2. QED BY <1>4, <2>1
<1>7. QED
  <2> HIDE DEF S
  <2>1. \A e : (\E i \in DOMAIN s : s[i] = e) <=> e \in OwnEntries(d, t)
    BY <1>1, <1>4, <1>5
  <2>2. s = Added(d, t)
    BY <1>3 DEF S, Added
  <2>3. QED BY <1>4, <1>6, <2>1, <2>2

LEMMA LoadKeeps == ASSUME RegistryConstants, RegistryInv, LoadPack PROVE RegistryInv'
<1>1. PICK n, d : n = scan /\ d = Dirs[n]
  OBVIOUS
<1>2. /\ n \in readable /\ scan' = n + 1 /\ readable' = readable
      /\ componentIndex' = [u \in Uuids |-> IF u \in d.components THEN n ELSE componentIndex[u]]
      /\ packRoutes' = IF d.routes THEN [packRoutes EXCEPT ![d.pack] = n] ELSE packRoutes
      /\ functionDirs' = [f \in FunctionNames |->
            IF functionDirs[f] = 0 /\ f[1] = d.pack /\ f[2] \in d.functions THEN n ELSE functionDirs[f]]
      /\ packs' = IF packs[d.pack] = 0 THEN [packs EXCEPT ![d.pack] = n] ELSE packs
      /\ doubled' = IF packs[d.pack] = 0 THEN doubled ELSE doubled \cup {d.pack}
  BY <1>1, Zenon DEF LoadPack, LoadComponents, LoadRoutes, LoadFunctions
<1>3. /\ n \in DOMAIN Dirs /\ n # 0 /\ n \in Nat /\ n + 1 \in 0..(Len(Dirs) + 1) /\ d.pack \in PackIds /\ n \in DirOrNone
      /\ Len(Dirs) \in Nat /\ DOMAIN Dirs = 1..Len(Dirs) /\ d.components \subseteq Uuids
      /\ \A p \in PackIds : packs[p] \in DirOrNone /\ packs[p] \in Nat
      /\ RegistryShape
  <2>1. n \in DOMAIN Dirs /\ RegistryShape
    BY <1>2 DEF RegistryInv, RegistryShape
  <2>2. QED BY <1>1, <2>1, DirsAre DEF RegistryShape, DirOrNone, RegistryConstants
<1>4. PICK added : added = [t \in Types |-> Added(n, t)]
  OBVIOUS
<1>5. /\ typeIndex' = [t \in Types |-> typeIndex[t] \o added[t]]
  <2>1. typeIndex' = [t \in Types |-> typeIndex[t] \o Added(n, t)]
    BY <1>1, Zenon DEF LoadPack, LoadComponents, Added
  <2>2. QED BY <1>4, <2>1
<1>6. ASSUME NEW t \in Types
      PROVE  /\ added[t] \in Seq(EntryPairs) /\ Len(added[t]) \in Nat /\ DOMAIN added[t] = 1..Len(added[t])
             /\ \A e : (\E i \in DOMAIN added[t] : added[t][i] = e) <=> e \in OwnEntries(n, t)
             /\ \A i, j \in DOMAIN added[t] : added[t][i] = added[t][j] => i = j
  <2>1. added[t] = Added(n, t)
    BY <1>4
  <2>2. QED BY <1>3, <2>1, AddedAre
<1>7. ASSUME NEW t \in Types
      PROVE  /\ typeIndex'[t] \in Seq(EntryPairs)
             /\ \A e : (\E i \in DOMAIN typeIndex'[t] : typeIndex'[t][i] = e) <=>
                          (\E i \in DOMAIN typeIndex[t] : typeIndex[t][i] = e) \/ e \in OwnEntries(n, t)
             /\ (\A i, j \in DOMAIN typeIndex[t] : typeIndex[t][i] = typeIndex[t][j] => i = j)
                /\ (\A i \in DOMAIN typeIndex[t] : typeIndex[t][i] \notin OwnEntries(n, t))
                => \A i, j \in DOMAIN typeIndex'[t] : typeIndex'[t][i] = typeIndex'[t][j] => i = j
  <2>1. PICK s, a, z : s = typeIndex[t] /\ a = added[t] /\ z = s \o a
    OBVIOUS
  <2>2. /\ s \in Seq(EntryPairs) /\ Len(s) \in Nat /\ DOMAIN s = 1..Len(s)
        /\ a \in Seq(EntryPairs) /\ Len(a) \in Nat /\ DOMAIN a = 1..Len(a)
    BY <1>3, <1>6, <2>1 DEF RegistryShape
  <2>3. /\ z \in Seq(EntryPairs) /\ Len(z) = Len(s) + Len(a)
        /\ \A i \in 1..(Len(s) + Len(a)) : z[i] = IF i <= Len(s) THEN s[i] ELSE a[i - Len(s)]
    BY <2>1, <2>2, ConcatProperties
  <2>4. /\ DOMAIN z = 1..(Len(s) + Len(a))
        /\ \A i \in DOMAIN s : i \in DOMAIN z /\ z[i] = s[i]
        /\ \A i \in DOMAIN a : i + Len(s) \in DOMAIN z /\ z[i + Len(s)] = a[i]
        /\ \A i \in DOMAIN z : \/ i \in DOMAIN s /\ z[i] = s[i]
                               \/ i \notin DOMAIN s /\ i - Len(s) \in DOMAIN a /\ z[i] = a[i - Len(s)]
    BY <2>2, <2>3
  <2>5. typeIndex'[t] = z
    BY <1>5, <2>1
  <2>6. /\ \A e : (\E i \in DOMAIN a : a[i] = e) <=> e \in OwnEntries(n, t)
        /\ \A i, j \in DOMAIN a : a[i] = a[j] => i = j
    BY <1>6, <2>1
  <2>7. \A e : (\E i \in DOMAIN z : z[i] = e) <=> (\E i \in DOMAIN s : s[i] = e) \/ e \in OwnEntries(n, t)
    <3>1. ASSUME NEW e, NEW i \in DOMAIN z, z[i] = e PROVE (\E k \in DOMAIN s : s[k] = e) \/ \E k \in DOMAIN a : a[k] = e
      BY <2>4, <3>1
    <3>2. ASSUME NEW e, NEW i \in DOMAIN s, s[i] = e PROVE \E k \in DOMAIN z : z[k] = e
      BY <2>4, <3>2
    <3>3. ASSUME NEW e, NEW i \in DOMAIN a, a[i] = e PROVE \E k \in DOMAIN z : z[k] = e
      BY <2>4, <3>3
    <3>4. QED BY <2>6, <3>1, <3>2, <3>3
  <2>8. ASSUME \A i, j \in DOMAIN s : s[i] = s[j] => i = j, \A i \in DOMAIN s : s[i] \notin OwnEntries(n, t),
               NEW i \in DOMAIN z, NEW j \in DOMAIN z, z[i] = z[j]
        PROVE  i = j
    <3>1. \A k \in DOMAIN a : a[k] \in OwnEntries(n, t)
      BY <2>6
    <3>2. CASE i \in DOMAIN s /\ j \in DOMAIN s
      BY <2>4, <2>8, <3>2
    <3>3. CASE i \notin DOMAIN s /\ j \notin DOMAIN s
      <4>1. i - Len(s) = j - Len(s)
        BY <2>4, <2>6, <2>8, <3>3
      <4>2. QED BY <2>2, <2>4, <4>1
    <3>4. CASE i \in DOMAIN s /\ j \notin DOMAIN s
      BY <2>4, <2>8, <3>1, <3>4
    <3>5. CASE i \notin DOMAIN s /\ j \in DOMAIN s
      BY <2>4, <2>8, <3>1, <3>5
    <3>6. QED BY <3>2, <3>3, <3>4, <3>5
  <2>9. (\A i, j \in DOMAIN s : s[i] = s[j] => i = j) /\ (\A i \in DOMAIN s : s[i] \notin OwnEntries(n, t))
        => \A i, j \in DOMAIN z : z[i] = z[j] => i = j
    BY <2>8
  <2>10. typeIndex'[t] \in Seq(EntryPairs)
    BY <2>3, <2>5
  <2>11. \A e : (\E i \in DOMAIN typeIndex'[t] : typeIndex'[t][i] = e) <=>
                   (\E i \in DOMAIN typeIndex[t] : typeIndex[t][i] = e) \/ e \in OwnEntries(n, t)
    BY <2>1, <2>5, <2>7, Zenon
  <2>12. (\A i, j \in DOMAIN typeIndex[t] : typeIndex[t][i] = typeIndex[t][j] => i = j)
         /\ (\A i \in DOMAIN typeIndex[t] : typeIndex[t][i] \notin OwnEntries(n, t))
         => \A i, j \in DOMAIN typeIndex'[t] : typeIndex'[t][i] = typeIndex'[t][j] => i = j
    BY <2>1, <2>5, <2>9, Zenon
  <2>13. QED BY <2>10, <2>11, <2>12
<1>8. RegistryShape'
  <2>1. typeIndex' \in [Types -> Seq(EntryPairs)]
    BY <1>5, <1>7
  <2>2. componentIndex' \in [Uuids -> DirOrNone]
    BY <1>2, <1>3 DEF RegistryShape
  <2>3. functionDirs' \in [FunctionNames -> DirOrNone]
    BY <1>2, <1>3 DEF RegistryShape
  <2>4. packs' \in [PackIds -> DirOrNone] /\ packRoutes' \in [PackIds -> DirOrNone]
    BY <1>2, <1>3 DEF RegistryShape
  <2>5. QED BY <1>2, <1>3, <2>1, <2>2, <2>3, <2>4 DEF RegistryShape
<1>9. LoadedBefore'
  <2>1. \A p \in PackIds : packs[p] < n
    BY <1>1, <1>3 DEF RegistryInv, LoadedBefore
  <2>2. \A p \in PackIds : packs'[p] \in {packs[p], n}
    BY <1>2, <1>3 DEF RegistryShape
  <2>3. ASSUME NEW p \in PackIds PROVE packs'[p] < n + 1
    BY <1>3, <2>1, <2>2
  <2>4. QED BY <1>2, <2>3 DEF LoadedBefore
<1>10. RoutesFollow'
  <2>1. ASSUME NEW p \in PackIds, p \notin doubled'
        PROVE  /\ packs'[p] # 0 /\ Dirs[packs'[p]].routes => packRoutes'[p] = packs'[p]
               /\ packRoutes'[p] # 0 => packRoutes'[p] = packs'[p]
    <3>1. /\ packs[p] # 0 /\ Dirs[packs[p]].routes => packRoutes[p] = packs[p]
          /\ packRoutes[p] # 0 => packRoutes[p] = packs[p]
      BY <1>2, <2>1 DEF RegistryInv, RoutesFollow
    <3>2. CASE p = d.pack
      <4>1. packs[p] = 0 /\ packs'[p] = n /\ packRoutes[p] = 0
        BY <1>2, <1>3, <2>1, <3>1, <3>2 DEF RegistryShape
      <4>2. packRoutes'[p] = IF d.routes THEN n ELSE 0
        BY <1>2, <1>3, <3>2, <4>1 DEF RegistryShape
      <4>3. QED BY <1>1, <4>1, <4>2
    <3>3. CASE p # d.pack
      <4>1. packs'[p] = packs[p] /\ packRoutes'[p] = packRoutes[p]
        BY <1>2, <1>3, <3>3 DEF RegistryShape
      <4>2. QED BY <3>1, <4>1
    <3>4. QED BY <3>2, <3>3
  <2>2. QED BY <2>1 DEF RoutesFollow
<1>11. ComponentsFollow'
  <2>1. SUFFICES ASSUME doubled' = {}
                 PROVE  /\ \A u \in Uuids : componentIndex'[u] # 0 <=> \E b \in Loaded' : u \in Dirs[b].components
                        /\ \A t \in Types :
                             /\ \A i, j \in DOMAIN typeIndex'[t] : typeIndex'[t][i] = typeIndex'[t][j] => i = j
                             /\ \A e \in EntryPairs : (\E i \in DOMAIN typeIndex'[t] : typeIndex'[t][i] = e) <=>
                                                         (e[1] \in Loaded' /\ e \in OwnEntries(e[1], t))
    BY DEF ComponentsFollow
  <2>2. packs[d.pack] = 0 /\ doubled = {} /\ packs' = [packs EXCEPT ![d.pack] = n]
    BY <1>2, <2>1
  <2>3. Loaded' = Loaded \cup {n} /\ n \notin Loaded
    <3>1. \A p \in PackIds : packs'[p] = IF p = d.pack THEN n ELSE packs[p]
      BY <1>3, <2>2 DEF RegistryShape
    <3>2. \A p \in PackIds : packs[p] # n
      BY <1>1, <1>3 DEF RegistryInv, LoadedBefore
    <3>3. ASSUME NEW b PROVE b \in Loaded' <=> b \in Loaded \/ b = n
      BY <1>3, <2>2, <3>1 DEF Loaded
    <3>4. QED BY <3>2, <3>3 DEF Loaded
  <2>4. ASSUME NEW u \in Uuids PROVE componentIndex'[u] # 0 <=> \E b \in Loaded' : u \in Dirs[b].components
    <3>1. componentIndex[u] # 0 <=> \E b \in Loaded : u \in Dirs[b].components
      BY <2>2 DEF RegistryInv, ComponentsFollow
    <3>2. componentIndex'[u] = IF u \in d.components THEN n ELSE componentIndex[u]
      BY <1>2
    <3>3. QED BY <1>1, <1>3, <2>3, <3>1, <3>2
  <2>5. ASSUME NEW t \in Types
        PROVE  /\ \A i, j \in DOMAIN typeIndex'[t] : typeIndex'[t][i] = typeIndex'[t][j] => i = j
               /\ \A e \in EntryPairs : (\E i \in DOMAIN typeIndex'[t] : typeIndex'[t][i] = e) <=>
                                           (e[1] \in Loaded' /\ e \in OwnEntries(e[1], t))
    <3>1. /\ \A i, j \in DOMAIN typeIndex[t] : typeIndex[t][i] = typeIndex[t][j] => i = j
          /\ \A e \in EntryPairs : (\E i \in DOMAIN typeIndex[t] : typeIndex[t][i] = e) <=> (e[1] \in Loaded /\ e \in OwnEntries(e[1], t))
      BY <2>2 DEF RegistryInv, ComponentsFollow
    <3>2. \A e : e \in OwnEntries(n, t) => e[1] = n
      BY DEF OwnEntries
    <3>3. \A i \in DOMAIN typeIndex[t] : typeIndex[t][i] \in EntryPairs
      <4>1. PICK s : s = typeIndex[t]
        OBVIOUS
      <4>2. s \in Seq(EntryPairs)
        BY <1>3, <4>1 DEF RegistryShape
      <4>3. QED BY <4>1, <4>2
    <3>4. \A i \in DOMAIN typeIndex[t] : typeIndex[t][i] \notin OwnEntries(n, t)
      BY <2>3, <3>1, <3>2, <3>3
    <3>5. ASSUME NEW e \in EntryPairs
          PROVE  (e[1] \in Loaded /\ e \in OwnEntries(e[1], t)) \/ e \in OwnEntries(n, t) <=> (e[1] \in Loaded' /\ e \in OwnEntries(e[1], t))
      BY <2>3, <3>2
    <3>6. QED BY <1>7, <3>1, <3>4, <3>5
  <2>6. QED BY <2>4, <2>5
<1>12. FunctionsFollow'
  <2>1. ASSUME NEW f \in FunctionNames
        PROVE  /\ functionDirs'[f] # 0 => Dirs[functionDirs'[f]].pack = f[1]
               /\ packs'[f[1]] # 0 /\ f[2] \in Dirs[packs'[f[1]]].functions => functionDirs'[f] # 0
    <3>1. /\ functionDirs[f] # 0 => Dirs[functionDirs[f]].pack = f[1]
          /\ packs[f[1]] # 0 /\ f[2] \in Dirs[packs[f[1]]].functions => functionDirs[f] # 0
      BY DEF RegistryInv, FunctionsFollow
    <3>2. functionDirs'[f] = IF functionDirs[f] = 0 /\ f[1] = d.pack /\ f[2] \in d.functions THEN n ELSE functionDirs[f]
      BY <1>2
    <3>3. f[1] \in PackIds
      BY DEF FunctionNames, PackIds
    <3>4. packs'[f[1]] = packs[f[1]] \/ (f[1] = d.pack /\ packs'[f[1]] = n)
      BY <1>2, <1>3, <3>3 DEF RegistryShape
    <3>5. QED BY <1>1, <1>3, <3>1, <3>2, <3>4
  <2>2. QED BY <2>1 DEF FunctionsFollow
<1>13. QED BY <1>8, <1>9, <1>10, <1>11, <1>12 DEF RegistryInv

LEMMA RegistrySteps == ASSUME RegistryConstants PROVE RegistryInv /\ [RegistryNext]_registryVars => RegistryInv'
<1>1. SUFFICES ASSUME RegistryInv, [RegistryNext]_registryVars PROVE RegistryInv'
  OBVIOUS
<1>2. RegistryShape /\ LoadedBefore /\ RoutesFollow /\ ComponentsFollow /\ FunctionsFollow
  BY <1>1 DEF RegistryInv
<1>3. ASSUME UNCHANGED <<packs, componentIndex, typeIndex, packRoutes, functionDirs, doubled>>,
             readable' \subseteq DOMAIN Dirs, scan' \in 0..(Len(Dirs) + 1), scan' = 0 \/ (scan # 0 /\ scan <= scan')
      PROVE  RegistryInv'
  <2>1. RegistryShape'
    BY <1>2, <1>3 DEF RegistryShape
  <2>2. LoadedBefore'
    <3>1. SUFFICES ASSUME scan' # 0, NEW p \in PackIds PROVE packs[p] < scan'
      BY <1>3 DEF LoadedBefore
    <3>2. packs[p] < scan /\ packs[p] \in Nat /\ scan \in Nat /\ scan' \in Nat
      BY <1>2, <1>3, <3>1, DirsAre DEF LoadedBefore, RegistryShape
    <3>3. QED BY <1>3, <3>1, <3>2
  <2>3. RoutesFollow'
    BY <1>2, <1>3 DEF RoutesFollow
  <2>4. ComponentsFollow'
    BY <1>2, <1>3 DEF ComponentsFollow, Loaded
  <2>5. FunctionsFollow'
    BY <1>2, <1>3 DEF FunctionsFollow
  <2>6. QED BY <2>1, <2>2, <2>3, <2>4, <2>5 DEF RegistryInv
<1>4. CASE ReloadRegistry
  <2>1. /\ scan' = 1 /\ readable' = readable /\ functionDirs' = functionDirs
        /\ packs' = [p \in PackIds |-> 0] /\ packRoutes' = [p \in PackIds |-> 0]
        /\ componentIndex' = [u \in Uuids |-> 0] /\ typeIndex' = [t \in Types |-> <<>>] /\ doubled' = {}
    BY <1>4 DEF ReloadRegistry, NewRegistry
  <2>2. Loaded' = {} /\ <<>> \in Seq(EntryPairs) /\ DOMAIN <<>> = {} /\ 0 \in DirOrNone
    BY <2>1 DEF Loaded, DirOrNone
  <2>3. RegistryShape'
    <3>1. 1 \in 0..(Len(Dirs) + 1)
      BY DirsAre
    <3>2. QED BY <1>2, <2>1, <2>2, <3>1 DEF RegistryShape
  <2>4. LoadedBefore' /\ RoutesFollow'
    BY <2>1 DEF LoadedBefore, RoutesFollow
  <2>5. ComponentsFollow'
    BY <2>1, <2>2 DEF ComponentsFollow
  <2>6. FunctionsFollow'
    <3>1. \A f \in FunctionNames : f[1] \in PackIds
      BY DEF FunctionNames, PackIds
    <3>2. QED BY <1>2, <2>1, <3>1 DEF FunctionsFollow
  <2>7. QED BY <2>3, <2>4, <2>5, <2>6 DEF RegistryInv
<1>5. CASE SkipDir
  <2>1. /\ scan \in DOMAIN Dirs /\ scan' = scan + 1
        /\ UNCHANGED <<readable, packs, componentIndex, typeIndex, packRoutes, functionDirs, doubled>>
    BY <1>5 DEF SkipDir
  <2>2. scan' \in 0..(Len(Dirs) + 1) /\ scan # 0 /\ scan <= scan'
    BY <2>1, DirsAre
  <2>3. QED BY <1>2, <1>3, <2>1, <2>2 DEF RegistryShape
<1>6. CASE EndLoadPacks
  <2>1. 0 \in 0..(Len(Dirs) + 1)
    BY DirsAre
  <2>2. QED BY <1>2, <1>3, <1>6, <2>1 DEF EndLoadPacks, RegistryShape
<1>7. ASSUME NEW d \in DOMAIN Dirs, DirChanges(d) PROVE RegistryInv'
  <2>1. scan' = scan /\ scan \in 0..(Len(Dirs) + 1) /\ (scan = 0 \/ scan <= scan)
    BY <1>2, <1>7, DirsAre DEF DirChanges, RegistryShape
  <2>2. QED BY <1>2, <1>3, <1>7, <2>1 DEF DirChanges, RegistryShape
<1>8. CASE UNCHANGED registryVars
  <2>1. scan' = scan /\ scan \in 0..(Len(Dirs) + 1) /\ (scan = 0 \/ scan <= scan)
    BY <1>2, <1>8, DirsAre DEF registryVars, RegistryShape
  <2>2. QED BY <1>2, <1>3, <1>8, <2>1 DEF registryVars, RegistryShape
<1>9. QED BY <1>1, <1>4, <1>5, <1>6, <1>7, <1>8, LoadKeeps DEF RegistryNext

LEMMA RegistryMeans == ASSUME RegistryConstants PROVE RegistryInv => IndexesFollowPacks
<1>0. SUFFICES ASSUME RegistryInv PROVE IndexesFollowPacks
  OBVIOUS
<1>1. ASSUME doubled = {}, NEW t \in Types
      PROVE  ToSet(typeIndex[t]) = {e \in Loaded \X Uuids : e[2] \in Dirs[e[1]].components /\ TypeOf[e[2]] = t}
  <2>1. \A e \in EntryPairs : (\E i \in DOMAIN typeIndex[t] : typeIndex[t][i] = e) <=> (e[1] \in Loaded /\ e \in OwnEntries(e[1], t))
    BY <1>0, <1>1 DEF RegistryInv, ComponentsFollow
  <2>2. \A i \in DOMAIN typeIndex[t] : typeIndex[t][i] \in EntryPairs
    <3>1. PICK s : s = typeIndex[t]
      OBVIOUS
    <3>2. s \in Seq(EntryPairs)
      BY <1>0, <3>1 DEF RegistryInv, RegistryShape
    <3>3. QED BY <3>1, <3>2
  <2>3. Loaded \subseteq DOMAIN Dirs
    BY <1>0 DEF RegistryInv, RegistryShape, Loaded, DirOrNone
  <2>4. ASSUME NEW e \in ToSet(typeIndex[t])
        PROVE  e \in {g \in Loaded \X Uuids : g[2] \in Dirs[g[1]].components /\ TypeOf[g[2]] = t}
    <3>1. e \in EntryPairs /\ e[1] \in Loaded /\ e \in OwnEntries(e[1], t)
      BY <2>1, <2>2 DEF ToSet
    <3>2. QED BY <3>1 DEF EntryPairs, OwnEntries
  <2>5. ASSUME NEW e \in Loaded \X Uuids, e[2] \in Dirs[e[1]].components, TypeOf[e[2]] = t PROVE e \in ToSet(typeIndex[t])
    <3>1. e \in EntryPairs /\ e[1] \in Loaded /\ e \in OwnEntries(e[1], t)
      BY <2>3, <2>5 DEF EntryPairs, OwnEntries
    <3>2. QED BY <2>1, <3>1 DEF ToSet
  <2>6. QED BY <2>4, <2>5
<1>2. QED BY <1>0, <1>1 DEF IndexesFollowPacks, RegistryInv, RoutesFollow, ComponentsFollow, FunctionsFollow

\* IndexesFollowPacks (registry.py): after a load the indexes hold the components and
\* routes of the packs it kept, each once, for any directories, whichever of them can
\* be read and whatever was loaded before.
THEOREM IndexesAreOfPacks == ASSUME RegistryConstants PROVE RegistrySpec => []IndexesFollowPacks
BY RegistryMeans, RegistryBegins, RegistrySteps, PTL DEF RegistrySpec

-----------------------------------------------------------------------------
(***************************************************************************)
(* The orders packs are loaded in. What is placed so far has what it needs *)
(* before it; what is never ready is in a cycle or waits for one.          *)
(***************************************************************************)
NeedsFirst(order) == \A n \in DOMAIN order : \A q \in Edges(order[n]) : \E m \in DOMAIN order : m < n /\ order[m] = q
OrderUpTo(order) == order \in Seq(OrderPacks) /\ NeedsFirst(order) /\ EachOnce(order)
OrderIsFull(order) ==
    /\ Len(order) = Cardinality(OrderPacks) /\ ToSet(order) = OrderPacks
    /\ \A p \in OrderPacks \ Stuck :
         /\ \A q \in Edges(p) : Position(order, q) < Position(order, p)
         /\ \A q \in Stuck : Position(order, p) < Position(order, q)

OrderInv ==
    /\ deps \in Dependencies /\ ordered \in BOOLEAN
    /\ heaped \in Seq(OrderPacks) /\ queued \in Seq(OrderPacks) /\ queue \in Seq(OrderPacks)
    /\ ~ordered =>
         /\ OrderUpTo(heaped) /\ OrderUpTo(queued)
         /\ EachOnce(queue) /\ ToSet(queue) = ReadyAfter(ToSet(queued))
    /\ ordered => OrderIsFull(heaped) /\ OrderIsFull(queued) /\ queue = <<>>

LEMMA IncreasingIsTotal ==
  ASSUME NEW S \in SUBSET Nat
  PROVE  TotalOn(S, Increasing(S))
<1>1. \A x \in S : x \in Nat
  OBVIOUS
<1>2. \A x, y \in S : <<x, y>> \in Increasing(S) <=> x < y
  BY DEF Increasing
<1>3. \A x \in S : ~(<<x, x>> \in Increasing(S))
  BY <1>1, <1>2
<1>4. ASSUME NEW x \in S, NEW y \in S
      PROVE  x = y \/ <<x, y>> \in Increasing(S) \/ <<y, x>> \in Increasing(S)
  <2>1. x \in Nat /\ y \in Nat
    OBVIOUS
  <2>2. x = y \/ x < y \/ y < x
    BY <2>1
  <2>3. QED BY <1>2, <2>2
<1>5. \A x, y, z \in S : <<x, y>> \in Increasing(S) /\ <<y, z>> \in Increasing(S) => <<x, z>> \in Increasing(S)
  BY <1>1, <1>2
<1>6. QED BY <1>3, <1>4, <1>5 DEF TotalOn

\* Sorting packs by name keeps them all, each once.
LEMMA AscendingKeeps ==
  ASSUME OrderConstants, NEW S \in SUBSET OrderPacks, NEW s, s = Ascending(S)
  PROVE  s \in Seq(S) /\ s \in Seq(OrderPacks) /\ EachOnce(s) /\ ToSet(s) = S
<1>1. IsFiniteSet(S) /\ S \in SUBSET Nat
  BY FS_Subset DEF OrderConstants
<1>2. TotalOn(S, Increasing(S))
  BY <1>1, IncreasingIsTotal
<1>3. s = Ordered(S, Increasing(S))
  BY DEF Ascending
<1>4. /\ s \in Seq(S) /\ \A x \in S : \E n \in DOMAIN s : s[n] = x
      /\ \A m, n \in DOMAIN s : s[m] = s[n] => m = n
  BY <1>1, <1>2, <1>3, OrderedKeeps
<1>5. ToSet(s) = S
  <2>1. \A n \in DOMAIN s : s[n] \in S
    BY <1>4
  <2>2. QED BY <1>4, <2>1 DEF ToSet
<1>6. s \in Seq(OrderPacks)
  <2>1. s \in [1..Len(s) -> S] /\ Len(s) \in Nat
    BY <1>4
  <2>2. s \in [1..Len(s) -> OrderPacks]
    BY <2>1
  <2>3. QED BY <2>1, <2>2
<1>7. QED BY <1>4, <1>5, <1>6 DEF EachOnce

LEMMA OrderGrows ==
  ASSUME NEW order, OrderUpTo(order), NEW x \in ReadyAfter(ToSet(order)), NEW z, z = Append(order, x)
  PROVE  OrderUpTo(z) /\ ToSet(z) = ToSet(order) \cup {x}
<1>1. order \in Seq(OrderPacks) /\ x \in OrderPacks /\ x \notin ToSet(order) /\ Edges(x) \subseteq ToSet(order)
  BY DEF OrderUpTo, ReadyAfter
<1>2. PICK l : l = Len(order)
  OBVIOUS
<1>9. z \in Seq(OrderPacks) /\ IsAppend(z, order, x)
  BY <1>1, AppendElements
<1>3. /\ z \in Seq(OrderPacks) /\ l \in Nat
      /\ DOMAIN order = 1..l /\ DOMAIN z = 1..(l + 1)
      /\ \A i \in DOMAIN order : i \in DOMAIN z /\ i < l + 1 /\ z[i] = order[i]
      /\ l + 1 \in DOMAIN z /\ l + 1 \notin DOMAIN order /\ z[l + 1] = x
      /\ \A i \in DOMAIN z : i \in DOMAIN order \/ i = l + 1
      /\ ToSet(z) = ToSet(order) \cup {x}
  BY <1>2, <1>9, Zenon DEF IsAppend
<1>4. \A i \in DOMAIN order : order[i] # x
  BY <1>1 DEF ToSet
<1>5. EachOnce(z)
  <2>1. SUFFICES ASSUME NEW m \in DOMAIN z, NEW n \in DOMAIN z, z[m] = z[n] PROVE m = n
    BY DEF EachOnce
  <2>2. CASE m \in DOMAIN order /\ n \in DOMAIN order
    BY <1>3, <2>1, <2>2 DEF OrderUpTo, EachOnce
  <2>3. CASE m = l + 1 \/ n = l + 1
    BY <1>3, <1>4, <2>1, <2>3
  <2>4. QED BY <1>3, <2>2, <2>3
<1>6. NeedsFirst(z)
  <2>1. SUFFICES ASSUME NEW n \in DOMAIN z, NEW q \in Edges(z[n]) PROVE \E m \in DOMAIN z : m < n /\ z[m] = q
    BY DEF NeedsFirst
  <2>2. CASE n \in DOMAIN order
    <3>1. q \in Edges(order[n])
      BY <1>3, <2>2
    <3>2. PICK m \in DOMAIN order : m < n /\ order[m] = q
      BY <2>2, <3>1 DEF OrderUpTo, NeedsFirst
    <3>3. QED BY <1>3, <3>2
  <2>3. CASE n = l + 1
    <3>1. q \in ToSet(order)
      BY <1>1, <1>3, <2>3
    <3>2. PICK m \in DOMAIN order : order[m] = q
      BY <3>1 DEF ToSet
    <3>3. QED BY <1>3, <2>3, <3>2
  <2>4. QED BY <1>3, <2>2, <2>3
<1>7. QED BY <1>3, <1>5, <1>6 DEF OrderUpTo

\* When no more packs are ready, those that are left over are the stuck ones.
LEMMA LeftOverIsStuck ==
  ASSUME OrderConstants, NEW order, OrderUpTo(order), ReadyAfter(ToSet(order)) = {}
  PROVE  Stuck = OrderPacks \ ToSet(order)
<1> DEFINE rest == OrderPacks \ ToSet(order)
<1>1. rest \subseteq Stuck
  <2>1. \A p \in rest : Edges(p) \cap rest # {}
    BY DEF ReadyAfter, Edges
  <2>2. rest \in {S \in SUBSET OrderPacks : \A p \in S : Edges(p) \cap S # {}}
    BY <2>1
  <2>3. QED BY <2>2 DEF Stuck
<1>2. ASSUME NEW S \in SUBSET OrderPacks, \A p \in S : Edges(p) \cap S # {}
      PROVE  S \subseteq rest
  <2>1. SUFFICES ASSUME NEW p \in S, p \in ToSet(order) PROVE FALSE
    OBVIOUS
  <2> DEFINE Hits == {n \in DOMAIN order : order[n] \in S}
  <2>2. Hits \in SUBSET Nat /\ Hits # {}
    <3>1. order \in Seq(OrderPacks)
      BY DEF OrderUpTo
    <3>2. DOMAIN order \subseteq Nat
      BY <3>1
    <3>3. QED BY <2>1, <3>2 DEF ToSet
  <2>3. PICK n \in Hits : \A m \in Hits : n <= m
    <3> HIDE DEF Hits
    <3>1. QED BY <2>2, LeastIsThere
  <2>4. PICK q : q \in Edges(order[n]) /\ q \in S
    BY <1>2
  <2>5. PICK m \in DOMAIN order : m < n /\ order[m] = q
    BY <2>4 DEF OrderUpTo, NeedsFirst
  <2>6. m \in Hits
    BY <2>4, <2>5
  <2>7. n <= m /\ m \in Nat /\ n \in Nat
    BY <2>2, <2>3, <2>6
  <2>8. QED BY <2>5, <2>7
<1>3. Stuck \subseteq rest
  BY <1>2 DEF Stuck
<1>4. QED BY <1>1, <1>3

LEMMA OrderCompletes ==
  ASSUME OrderConstants, NEW order, OrderUpTo(order), ReadyAfter(ToSet(order)) = {},
         NEW a, a = Ascending(OrderPacks \ ToSet(order)), NEW z, z = order \o a
  PROVE  z \in Seq(OrderPacks) /\ OrderIsFull(z)
<1>1. order \in Seq(OrderPacks) /\ NeedsFirst(order) /\ EachOnce(order)
  BY DEF OrderUpTo
<1>2. a \in Seq(OrderPacks) /\ EachOnce(a) /\ ToSet(a) = OrderPacks \ ToSet(order)
  BY AscendingKeeps
<1>3. PICK l : l = Len(order)
  OBVIOUS
<1>12. z \in Seq(OrderPacks) /\ IsConcat(z, order, a)
  BY <1>1, <1>2, ConcatElements
<1>4. /\ z \in Seq(OrderPacks) /\ l \in Nat /\ Len(a) \in Nat /\ Len(z) = l + Len(a)
      /\ DOMAIN order = 1..l /\ DOMAIN z = 1..(l + Len(a))
      /\ \A i \in DOMAIN order : i \in DOMAIN z /\ z[i] = order[i]
      /\ \A i \in DOMAIN z : \/ i \in DOMAIN order /\ z[i] = order[i]
                             \/ i \notin DOMAIN order /\ i - l \in DOMAIN a /\ z[i] = a[i - l]
      /\ ToSet(z) = ToSet(order) \cup ToSet(a)
  BY <1>3, <1>12, Zenon DEF IsConcat
<1>5. \A m, n \in DOMAIN z : z[m] = z[n] => m = n
  <2>1. \A e \in ToSet(order) : e \notin ToSet(a)
    BY <1>2
  <2>2. EachOnce(z)
    BY <1>1, <1>2, <2>1, ConcatOnce
  <2>3. QED BY <2>2 DEF EachOnce
<1>6. ToSet(z) = OrderPacks
  <2>1. ToSet(order) \subseteq OrderPacks
    BY <1>1 DEF ToSet
  <2>2. QED BY <1>2, <1>4, <2>1
<1>7. Len(z) = Cardinality(OrderPacks)
  <2>1. EachOnce(z)
    BY <1>5 DEF EachOnce
  <2>2. QED BY <1>4, <1>6, <2>1, OnceCounts
<1>8. \A n \in DOMAIN z : Position(z, z[n]) = n
  BY <1>5 DEF Position
<1>9. Stuck = OrderPacks \ ToSet(order)
  BY LeftOverIsStuck
<1>10. ASSUME NEW p \in OrderPacks \ Stuck
       PROVE  /\ \A q \in Edges(p) : Position(z, q) < Position(z, p)
              /\ \A q \in Stuck : Position(z, p) < Position(z, q)
  <2>1. PICK n \in DOMAIN order : order[n] = p
    BY <1>9 DEF ToSet
  <2>2. n \in DOMAIN z /\ z[n] = p /\ Position(z, p) = n /\ n <= l /\ n \in Nat
    <3>1. n \in DOMAIN z /\ z[n] = p
      BY <1>4, <2>1, Zenon
    <3>2. n \in 1..l /\ l \in Nat
      BY <1>4, <2>1, Zenon
    <3>3. Position(z, p) = n
      BY <1>8, <3>1, Zenon
    <3>4. n <= l /\ n \in Nat
      BY <3>2
    <3>5. QED BY <3>1, <3>3, <3>4, Zenon
  <2>3. ASSUME NEW q \in Edges(p) PROVE Position(z, q) < Position(z, p)
    <3>1. PICK m \in DOMAIN order : m < n /\ order[m] = q
      BY <1>1, <2>1, <2>3 DEF NeedsFirst
    <3>2. Position(z, q) = m
      BY <1>4, <1>8, <3>1
    <3>3. QED BY <2>2, <3>1, <3>2
  <2>4. ASSUME NEW q \in Stuck PROVE Position(z, p) < Position(z, q)
    <3>1. q \in OrderPacks /\ q \notin ToSet(order)
      BY <1>9, <2>4
    <3>2. PICK m \in DOMAIN z : z[m] = q
      BY <1>6, <3>1 DEF ToSet
    <3>3. m \notin DOMAIN order
      BY <1>4, <3>1, <3>2 DEF ToSet
    <3>4. Position(z, q) = m
      BY <1>8, <3>2, Zenon
    <3>5. m \in Nat /\ l < m
      <4>1. m \in 1..(l + Len(a)) /\ m \notin 1..l /\ l \in Nat /\ Len(a) \in Nat
        BY <1>4, <3>2, <3>3, Zenon
      <4>2. QED BY <4>1
    <3>6. QED BY <1>4, <2>2, <3>4, <3>5
  <2>5. QED BY <2>3, <2>4
<1>11. QED BY <1>4, <1>6, <1>7, <1>10 DEF OrderIsFull

LEMMA OrderBegins == ASSUME OrderConstants, OrderInit PROVE OrderInv
<1>1. /\ deps \in Dependencies /\ heaped = <<>> /\ queued = <<>> /\ ordered = FALSE
      /\ queue = Ascending(ReadyAfter({}))
  BY DEF OrderInit
<1>2. ReadyAfter({}) \in SUBSET OrderPacks
  BY DEF ReadyAfter
<1>3. queue \in Seq(OrderPacks) /\ EachOnce(queue) /\ ToSet(queue) = ReadyAfter({})
  BY <1>1, <1>2, AscendingKeeps
<1>4. PICK e : e = <<>>
  OBVIOUS
<1>5. e \in Seq(OrderPacks) /\ DOMAIN e = {} /\ ToSet(e) = {}
  BY <1>4 DEF ToSet
<1>6. OrderUpTo(e)
  BY <1>5 DEF OrderUpTo, NeedsFirst, EachOnce
<1>7. heaped = e /\ queued = e
  BY <1>1, <1>4
<1>8. QED BY <1>1, <1>3, <1>5, <1>6, <1>7 DEF OrderInv

\* The orders look at the dependencies, which do not change.
LEMMA OrderSame ==
  ASSUME UNCHANGED deps
  PROVE  /\ \A s : OrderUpTo(s)' <=> OrderUpTo(s)
         /\ \A s : OrderIsFull(s)' <=> OrderIsFull(s)
         /\ \A S : ReadyAfter(S)' = ReadyAfter(S)
<1>1. \A p : Edges(p)' = Edges(p)
  BY DEF Edges
<1>2. \A S : ReadyAfter(S)' = ReadyAfter(S)
  BY <1>1 DEF ReadyAfter
<1>3. Stuck' = Stuck
  BY <1>1 DEF Stuck
<1>4. \A s : OrderUpTo(s)' <=> OrderUpTo(s)
  BY <1>1 DEF OrderUpTo, NeedsFirst, EachOnce
<1>5. \A s : OrderIsFull(s)' <=> OrderIsFull(s)
  BY <1>1, <1>3 DEF OrderIsFull, Position
<1>6. QED BY <1>2, <1>4, <1>5

LEMMA PopHeapKeeps == ASSUME OrderConstants, OrderInv, PopHeap PROVE OrderInv'
<1>1. PICK ready : ready = ReadyAfter(ToSet(heaped))
  OBVIOUS
<1>2. PICK x : x = CHOOSE p \in ready : \A q \in ready : p <= q
  OBVIOUS
<1>3. ready # {} /\ heaped' = Append(heaped, x) /\ UNCHANGED <<deps, queued, queue, ordered>>
  BY <1>1, <1>2, Zenon DEF PopHeap
<1>4. ready \in SUBSET Nat /\ ready \subseteq OrderPacks
  BY <1>1 DEF ReadyAfter, OrderConstants
<1>5. x \in ready
  <2>1. \E p \in ready : \A q \in ready : p <= q
    BY <1>3, <1>4, LeastIsThere
  <2>2. QED BY <1>2, <2>1
<1>6. ~ordered
  <2>1. ASSUME ordered PROVE FALSE
    <3>1. ToSet(heaped) = OrderPacks
      BY <2>1 DEF OrderInv, OrderIsFull
    <3>2. ready = {}
      BY <1>1, <3>1 DEF ReadyAfter
    <3>3. QED BY <1>3, <3>2
  <2>2. QED BY <2>1
<1>7. PICK h, z : h = heaped /\ z = Append(h, x)
  OBVIOUS
<1>8. OrderUpTo(h) /\ x \in ReadyAfter(ToSet(h))
  BY <1>1, <1>5, <1>6, <1>7 DEF OrderInv
<1>9. OrderUpTo(z) /\ z \in Seq(OrderPacks)
  BY <1>7, <1>8, OrderGrows DEF OrderUpTo
<1>10. OrderUpTo(z)' /\ heaped' = z
  BY <1>3, <1>7, <1>9, OrderSame
<1>11. PICK d : d = queued
  OBVIOUS
<1>12. OrderUpTo(d)' /\ queued' = d
  BY <1>3, <1>6, <1>11, OrderSame DEF OrderInv
<1>13. EachOnce(queue)' /\ ToSet(queue)' = ReadyAfter(ToSet(queued))'
  <2>1. PICK S : S = ToSet(queued)
    OBVIOUS
  <2>2. ReadyAfter(S)' = ReadyAfter(S) /\ ToSet(queued)' = S
    BY <1>3, <2>1, OrderSame
  <2>3. EachOnce(queue) /\ ToSet(queue) = ReadyAfter(S)
    BY <1>6, <2>1 DEF OrderInv
  <2>4. QED BY <1>3, <2>2, <2>3 DEF EachOnce
<1>14. QED BY <1>3, <1>6, <1>9, <1>10, <1>12, <1>13 DEF OrderInv

LEMMA PopQueueKeeps == ASSUME OrderConstants, OrderInv, PopQueue PROVE OrderInv'
<1>1. PICK u, d : u = queue /\ d = queued
  OBVIOUS
<1>2. PICK x : x = Head(u)
  OBVIOUS
<1>3. PICK done : done = ToSet(d) \cup {x}
  OBVIOUS
<1>4. PICK more : more = ReadyAfter(done) \ ToSet(u)
  OBVIOUS
<1>5. PICK t, a, v, z : t = Tail(u) /\ a = Ascending(more) /\ v = t \o a /\ z = Append(d, x)
  OBVIOUS
<1>6. /\ u # <<>> /\ queued' = z /\ queue' = v
      /\ UNCHANGED <<deps, heaped, ordered>>
  BY <1>1, <1>2, <1>3, <1>4, <1>5, Zenon DEF PopQueue
<1>7. ~ordered /\ OrderUpTo(d) /\ u \in Seq(OrderPacks) /\ EachOnce(u) /\ ToSet(u) = ReadyAfter(ToSet(d))
  BY <1>1, <1>6 DEF OrderInv
<1>8. /\ t \in Seq(OrderPacks) /\ x \in OrderPacks /\ Len(u) \in Nat /\ DOMAIN u = 1..Len(u) /\ 1 \in DOMAIN u /\ x = u[1]
      /\ DOMAIN t = 1..(Len(u) - 1)
      /\ \A i \in DOMAIN t : i + 1 \in DOMAIN u /\ t[i] = u[i + 1]
      /\ ToSet(u) = {x} \cup ToSet(t)
  <2>1. t \in Seq(OrderPacks) /\ IsTail(t, u) /\ Head(u) \in OrderPacks
    BY <1>5, <1>6, <1>7, TailElements
  <2>2. QED BY <1>2, <2>1, Zenon DEF IsTail
<1>9. x \notin ToSet(t) /\ EachOnce(t)
  <2>1. ASSUME NEW i \in DOMAIN t, t[i] = x PROVE FALSE
    <3>1. i + 1 = 1 /\ i \in Nat /\ i # 0
      BY <1>7, <1>8, <2>1 DEF EachOnce
    <3>2. QED BY <3>1
  <2>2. ASSUME NEW i \in DOMAIN t, NEW j \in DOMAIN t, t[i] = t[j] PROVE i = j
    <3>1. i + 1 = j + 1 /\ i \in Nat /\ j \in Nat
      BY <1>7, <1>8, <2>2 DEF EachOnce
    <3>2. QED BY <3>1
  <2>3. QED BY <2>1, <2>2 DEF EachOnce, ToSet
<1>10. OrderUpTo(z) /\ ToSet(z) = done /\ z \in Seq(OrderPacks)
  <2>1. x \in ReadyAfter(ToSet(d))
    BY <1>7, <1>8
  <2>2. QED BY <1>3, <1>5, <1>7, <2>1, OrderGrows DEF OrderUpTo
<1>11. more \in SUBSET OrderPacks
  BY <1>4 DEF ReadyAfter
<1>12. a \in Seq(OrderPacks) /\ EachOnce(a) /\ ToSet(a) = more
  BY <1>5, <1>11, AscendingKeeps
<1>13. \A e \in ToSet(t) : e \notin ToSet(a)
  BY <1>4, <1>8, <1>12
<1>14. v \in Seq(OrderPacks) /\ ToSet(v) = ToSet(t) \cup more /\ EachOnce(v)
  <2>1. v \in Seq(OrderPacks) /\ IsConcat(v, t, a)
    BY <1>5, <1>8, <1>12, ConcatElements
  <2>2. EachOnce(v)
    BY <1>5, <1>8, <1>9, <1>12, <1>13, ConcatOnce
  <2>3. QED BY <1>12, <2>1, <2>2 DEF IsConcat
<1>15. ToSet(v) = ReadyAfter(done)
  <2>1. ToSet(t) = ToSet(u) \ {x}
    BY <1>8, <1>9
  <2>2. ToSet(u) \ {x} \subseteq ReadyAfter(done) /\ x \notin ReadyAfter(done)
    BY <1>3, <1>7 DEF ReadyAfter
  <2>3. QED BY <1>4, <1>14, <2>1, <2>2
<1>16. OrderUpTo(z)' /\ ReadyAfter(done)' = ReadyAfter(done)
  BY <1>6, <1>10, OrderSame
<1>17. PICK h : h = heaped
  OBVIOUS
<1>18. OrderUpTo(h)' /\ heaped' = h
  BY <1>6, <1>7, <1>17, OrderSame DEF OrderInv
<1>19. ToSet(queue)' = ReadyAfter(ToSet(queued))' /\ EachOnce(queue)'
  <2>1. ToSet(queue)' = ToSet(v) /\ ToSet(queued)' = done
    BY <1>6, <1>10
  <2>2. QED BY <1>6, <1>14, <1>15, <1>16, <2>1 DEF EachOnce
<1>20. QED BY <1>6, <1>7, <1>10, <1>14, <1>16, <1>18, <1>19 DEF OrderInv

LEMMA AppendCyclicKeeps == ASSUME OrderConstants, OrderInv, AppendCyclic PROVE OrderInv'
<1>1. PICK h, d : h = heaped /\ d = queued
  OBVIOUS
<1>2. PICK a, b : a = Ascending(OrderPacks \ ToSet(h)) /\ b = Ascending(OrderPacks \ ToSet(d))
  OBVIOUS
<1>3. PICK y, z : y = h \o a /\ z = d \o b
  OBVIOUS
<1>4. /\ ~ordered /\ ReadyAfter(ToSet(h)) = {} /\ queue = <<>>
      /\ heaped' = y /\ queued' = z /\ ordered' = TRUE /\ UNCHANGED <<deps, queue>>
  BY <1>1, <1>2, <1>3, Zenon DEF AppendCyclic
<1>5. OrderUpTo(h) /\ OrderUpTo(d) /\ ReadyAfter(ToSet(d)) = {}
  <2>1. ToSet(queue) = {}
    BY <1>4 DEF ToSet
  <2>2. QED BY <1>1, <1>4, <2>1 DEF OrderInv
<1>6. y \in Seq(OrderPacks) /\ OrderIsFull(y)
  BY <1>2, <1>3, <1>4, <1>5, OrderCompletes
<1>7. z \in Seq(OrderPacks) /\ OrderIsFull(z)
  BY <1>2, <1>3, <1>5, OrderCompletes
<1>8. OrderIsFull(y)' /\ OrderIsFull(z)'
  BY <1>4, <1>6, <1>7, OrderSame
<1>9. QED BY <1>4, <1>6, <1>7, <1>8 DEF OrderInv

LEMMA OrderSteps == ASSUME OrderConstants, OrderInv, [OrderNext]_orderVars PROVE OrderInv'
<1>1. CASE PopHeap
  BY <1>1, PopHeapKeeps
<1>2. CASE PopQueue
  BY <1>2, PopQueueKeeps
<1>3. CASE AppendCyclic
  BY <1>3, AppendCyclicKeeps
<1>4. CASE UNCHANGED orderVars
  <2>1. UNCHANGED <<deps, heaped, queued, queue, ordered>>
    BY <1>4 DEF orderVars
  <2>2. PICK h, d : h = heaped /\ d = queued
    OBVIOUS
  <2>3. /\ OrderUpTo(h) => OrderUpTo(h)'
        /\ OrderUpTo(d) => OrderUpTo(d)'
        /\ OrderIsFull(h) => OrderIsFull(h)'
        /\ OrderIsFull(d) => OrderIsFull(d)'
        /\ ReadyAfter(ToSet(d))' = ReadyAfter(ToSet(d))
    BY <2>1, OrderSame
  <2>4. EachOnce(queue)' <=> EachOnce(queue)
    BY <2>1 DEF EachOnce
  <2>5. h' = h /\ d' = d /\ heaped' = h /\ queued' = d
    BY <2>1, <2>2
  <2>6. QED BY <2>1, <2>2, <2>3, <2>4, <2>5 DEF OrderInv
<1>5. QED BY <1>1, <1>2, <1>3, <1>4 DEF OrderNext

LEMMA OrderMeans == OrderInv => DependenciesFirst
BY DEF OrderInv, DependenciesFirst, OrderIsFull

\* DependenciesFirst (dependency_resolver.py): both orders have every pack once, after
\* its dependencies, and those that a circular dependency holds up come last, for any
\* packs and dependencies.
THEOREM OrdersAreBuilt == ASSUME OrderConstants PROVE OrderSpec => []DependenciesFirst
BY OrderMeans, OrderBegins, OrderSteps, PTL DEF OrderSpec

-----------------------------------------------------------------------------
(***************************************************************************)
(* Choices and addons.  What the file says is off is off; and a manifest   *)
(* refers only to values of addons that were applied before, which the     *)
(* patch of another addon leaves as they are.                              *)
(***************************************************************************)
Operations(a) == DOMAIN Addons[a].ops

\* The values of the operations: none of them refers to another.
OwnValues(vals) ==
    /\ DOMAIN vals = DOMAIN Addons
    /\ \A a \in DOMAIN Addons : DOMAIN vals[a] = Operations(a) /\ \A i \in Operations(a) : vals[a][i].kind # "shared"

\* A manifest refers to values of the addons among those in A.
RefersTo(doc, A) ==
    /\ DOMAIN doc = ManifestKeys
    /\ \A k \in ManifestKeys : \/ doc[k].kind # "shared"
                               \/ \E a \in A : \E i \in Operations(a) : doc[k] = Shared(a, i)

\* A patch of a is under way; the values were vals.
Patching(st, a, vals) ==
    /\ st = [doc |-> st.doc, vals |-> st.vals, ok |-> st.ok] /\ st.ok \in BOOLEAN
    /\ OwnValues(st.vals) /\ RefersTo(st.doc, {a})
    /\ \A b \in DOMAIN Addons : b # a => st.vals[b] = vals[b]

\* The addons up to a were applied.
LogIsSound(log, a) ==
    /\ log \in Seq(ToSet(log)) /\ Len(log) <= a
    /\ \A i \in DOMAIN log : ~IsOff(log[i].id) /\ (log[i].failed => log[i].after = log[i].before)
PatchedSoFar(r, a) ==
    /\ r = [doc |-> r.doc, vals |-> r.vals, log |-> r.log]
    /\ OwnValues(r.vals) /\ RefersTo(r.doc, 1..a) /\ LogIsSound(r.log, a)

LEMMA AddonsAreLists ==
  ASSUME AddonConstants
  PROVE  /\ Len(Addons) \in Nat /\ DOMAIN Addons = 1..Len(Addons)
         /\ \A a \in DOMAIN Addons : /\ Len(Addons[a].ops) \in Nat /\ Operations(a) = 1..Len(Addons[a].ops)
                                     /\ \A i \in Operations(a) : /\ Addons[a].ops[i].key \in ManifestKeys
                                                                 /\ Addons[a].ops[i].value.kind # "shared"
<1>1. Len(Addons) \in Nat /\ DOMAIN Addons = 1..Len(Addons)
  BY DEF AddonConstants
<1>2. ASSUME NEW a \in DOMAIN Addons PROVE Len(Addons[a].ops) \in Nat /\ DOMAIN Addons[a].ops = 1..Len(Addons[a].ops)
  <2>1. PICK ops : ops = Addons[a].ops
    OBVIOUS
  <2>2. ops \in Seq(ToSet(ops))
    BY <2>1 DEF AddonConstants
  <2>3. QED BY <2>1, <2>2
<1>3. QED BY <1>1, <1>2 DEF Operations, AddonConstants

\* What is seen at a key is no reference.
LEMMA SeenIsOwn ==
  ASSUME NEW st, OwnValues(st.vals), NEW A \in SUBSET DOMAIN Addons, RefersTo(st.doc, A), NEW k \in ManifestKeys
  PROVE  Seen(st, k).kind # "shared"
<1>1. CASE st.doc[k].kind # "shared"
  BY <1>1 DEF Seen
<1>2. CASE st.doc[k].kind = "shared"
  <2>1. PICK a \in A : \E i \in Operations(a) : st.doc[k] = Shared(a, i)
    BY <1>2 DEF RefersTo
  <2>2. PICK i \in Operations(a) : st.doc[k] = Shared(a, i)
    BY <2>1
  <2>3. Seen(st, k) = st.vals[a][i]
    BY <1>2, <2>2 DEF Seen, Shared
  <2>4. QED BY <2>1, <2>2, <2>3 DEF OwnValues
<1>3. QED BY <1>1, <1>2

\* A change below a key reaches the manifest or a value of the addon itself.
LEMMA ChangedGoesOn ==
  ASSUME NEW a \in DOMAIN Addons, NEW vals, NEW st, Patching(st, a, vals), NEW k \in ManifestKeys, NEW e, e.kind # "shared"
  PROVE  Patching(Changed(st, k, e), a, vals)
<1>1. st = [doc |-> st.doc, vals |-> st.vals, ok |-> st.ok] /\ OwnValues(st.vals) /\ RefersTo(st.doc, {a})
  BY DEF Patching
<1>2. CASE st.doc[k].kind = "shared"
  <2>1. PICK i \in Operations(a) : st.doc[k] = Shared(a, i)
    BY <1>1, <1>2 DEF RefersTo
  <2>2. PICK vals2 : vals2 = ChangedValue(st.vals, a, i, e)
    OBVIOUS
  <2>3. Changed(st, k, e) = [doc |-> st.doc, vals |-> vals2, ok |-> st.ok]
    <3>1. Changed(st, k, e) = [st EXCEPT !.vals = vals2]
      <4>1. st.doc[k].of[1] = a /\ st.doc[k].of[2] = i
        BY <2>1 DEF Shared
      <4>2. QED BY <1>2, <2>2, <4>1 DEF Changed
    <3>2. QED BY <1>1, <3>1
  <2>4. OwnValues(vals2) /\ \A b \in DOMAIN Addons : b # a => vals2[b] = st.vals[b]
    BY <1>1, <2>1, <2>2 DEF OwnValues, ChangedValue
  <2>5. QED BY <1>1, <2>3, <2>4 DEF Patching
<1>3. CASE st.doc[k].kind # "shared"
  <2>1. PICK doc : doc = [st.doc EXCEPT ![k] = e]
    OBVIOUS
  <2>2. Changed(st, k, e) = [doc |-> doc, vals |-> st.vals, ok |-> st.ok]
    <3>1. Changed(st, k, e) = [st EXCEPT !.doc = doc]
      BY <1>3, <2>1 DEF Changed
    <3>2. QED BY <1>1, <3>1
  <2>3. RefersTo(doc, {a})
    BY <1>1, <2>1 DEF RefersTo
  <2>4. QED BY <1>1, <2>2, <2>3 DEF Patching
<1>4. QED BY <1>2, <1>3

LEMMA FailedGoesOn ==
  ASSUME NEW a \in DOMAIN Addons, NEW vals, NEW st, Patching(st, a, vals)
  PROVE  Patching(Failed(st), a, vals)
<1>1. st = [doc |-> st.doc, vals |-> st.vals, ok |-> st.ok]
  BY DEF Patching
<1>2. Failed(st) = [doc |-> st.doc, vals |-> st.vals, ok |-> FALSE]
  <2>1. PICK doc, own, ok : doc = st.doc /\ own = st.vals /\ ok = st.ok
    OBVIOUS
  <2>2. st = [doc |-> doc, vals |-> own, ok |-> ok]
    BY <1>1, <2>1
  <2>3. PICK no : no = FALSE
    OBVIOUS
  <2>4. [st EXCEPT !.ok = no] = [doc |-> doc, vals |-> own, ok |-> no]
    BY <2>2
  <2>5. QED BY <2>1, <2>3, <2>4, Zenon DEF Failed
<1>3. QED BY <1>2 DEF Patching

\* What is put at a key is a value of its own or a reference to the operation's.
LEMMA PutGoesOn ==
  ASSUME NEW a \in DOMAIN Addons, NEW vals, NEW st, Patching(st, a, vals), NEW k \in ManifestKeys, NEW v,
         v.kind # "shared" \/ \E i \in Operations(a) : v = Shared(a, i)
  PROVE  Patching([st EXCEPT !.doc = [@ EXCEPT ![k] = v]], a, vals)
<1>1. st = [doc |-> st.doc, vals |-> st.vals, ok |-> st.ok] /\ OwnValues(st.vals) /\ RefersTo(st.doc, {a})
  BY DEF Patching
<1>2. PICK doc : doc = [st.doc EXCEPT ![k] = v]
  OBVIOUS
<1>3. [st EXCEPT !.doc = [@ EXCEPT ![k] = v]] = [doc |-> doc, vals |-> st.vals, ok |-> st.ok]
  <2>1. [st EXCEPT !.doc = [@ EXCEPT ![k] = v]] = [st EXCEPT !.doc = doc]
    BY <1>2
  <2>2. QED BY <1>1, <2>1
<1>4. RefersTo(doc, {a})
  BY <1>1, <1>2 DEF RefersTo
<1>5. QED BY <1>1, <1>3, <1>4 DEF Patching

LEMMA SetGoesOn ==
  ASSUME NEW a \in DOMAIN Addons, NEW vals, NEW st, Patching(st, a, vals), NEW k \in ManifestKeys, NEW i \in Operations(a),
         NEW pos, NEW v
  PROVE  Patching(SetPointer(st, k, pos, v, Shared(a, i)), a, vals)
<1> DEFINE e == Parent(Seen(st, k), pos)
           place == IF pos = Dash THEN Len(e.of) ELSE pos
           object == Object([j \in DOMAIN e.of \cup {pos} |-> IF j = pos THEN Item(v) ELSE e.of[j]])
           list == List(InsertAt(e.of, place + 1, Item(v)))
           whole == IF v.kind = "leaf" THEN v ELSE Shared(a, i)
<1>1. object.kind # "shared" /\ list.kind # "shared"
  BY DEF Object, List
<1>2. whole.kind # "shared" \/ \E n \in Operations(a) : whole = Shared(a, n)
  OBVIOUS
<1>3. \/ SetPointer(st, k, pos, v, Shared(a, i)) = [st EXCEPT !.doc = [@ EXCEPT ![k] = whole]]
      \/ SetPointer(st, k, pos, v, Shared(a, i)) = Changed(st, k, object)
      \/ SetPointer(st, k, pos, v, Shared(a, i)) = Changed(st, k, list)
      \/ SetPointer(st, k, pos, v, Shared(a, i)) = Failed(st)
  BY DEF SetPointer
<1> HIDE DEF object, list, whole
<1>4. Patching(Changed(st, k, object), a, vals)
  BY <1>1, ChangedGoesOn
<1>5. Patching(Changed(st, k, list), a, vals)
  BY <1>1, ChangedGoesOn
<1>6. Patching([st EXCEPT !.doc = [@ EXCEPT ![k] = whole]], a, vals)
  BY <1>2, PutGoesOn
<1>7. QED BY <1>3, <1>4, <1>5, <1>6, FailedGoesOn

LEMMA RemoveGoesOn ==
  ASSUME NEW a \in DOMAIN Addons, NEW vals, NEW st, Patching(st, a, vals), NEW k \in ManifestKeys, NEW pos
  PROVE  Patching(RemovePointer(st, k, pos), a, vals)
<1> DEFINE e == Seen(st, k)
           list == List(RemoveAt(e.of, pos + 1))
           object == Object([j \in (DOMAIN e.of) \ {pos} |-> e.of[j]])
<1>1. object.kind # "shared" /\ list.kind # "shared" /\ NoEntry.kind # "shared"
  BY DEF Object, List, NoEntry
<1>2. \/ RemovePointer(st, k, pos) = [st EXCEPT !.doc = [@ EXCEPT ![k] = NoEntry]]
      \/ RemovePointer(st, k, pos) = Changed(st, k, list)
      \/ RemovePointer(st, k, pos) = Changed(st, k, object)
      \/ RemovePointer(st, k, pos) = Failed(st)
  BY DEF RemovePointer
<1> HIDE DEF object, list
<1>3. Patching(Changed(st, k, object), a, vals)
  BY <1>1, ChangedGoesOn
<1>4. Patching(Changed(st, k, list), a, vals)
  BY <1>1, ChangedGoesOn
<1>5. Patching([st EXCEPT !.doc = [@ EXCEPT ![k] = NoEntry]], a, vals)
  BY <1>1, PutGoesOn
<1>6. QED BY <1>2, <1>3, <1>4, <1>5, FailedGoesOn

LEMMA OperationGoesOn ==
  ASSUME AddonConstants, NEW a \in DOMAIN Addons, NEW vals, NEW st, Patching(st, a, vals), NEW i \in Operations(a)
  PROVE  Patching(Operation(st, a, i), a, vals)
<1> DEFINE o == Addons[a].ops[i]
           v == st.vals[a][i]
<1>1. o.key \in ManifestKeys
  BY AddonsAreLists
<1>2. \/ Operation(st, a, i) = st
      \/ Operation(st, a, i) = SetPointer(st, o.key, o.at, v, Shared(a, i))
      \/ Operation(st, a, i) = RemovePointer(st, o.key, o.at)
      \/ Operation(st, a, i) = Failed(st)
  BY DEF Operation
<1>3. Patching(SetPointer(st, o.key, o.at, v, Shared(a, i)), a, vals)
  BY <1>1, SetGoesOn
<1>4. Patching(RemovePointer(st, o.key, o.at), a, vals)
  BY <1>1, RemoveGoesOn
<1>5. QED BY <1>2, <1>3, <1>4, FailedGoesOn

\* The manifest a patch starts from refers to nothing.
LEMMA CopiedIsOwn ==
  ASSUME NEW st, OwnValues(st.vals), NEW A \in SUBSET DOMAIN Addons, RefersTo(st.doc, A), NEW B
  PROVE  RefersTo(Copied(st), B)
BY SeenIsOwn DEF Copied, RefersTo

LEMMA PatchGoesOn ==
  ASSUME AddonConstants, NEW a \in DOMAIN Addons, NEW vals, OwnValues(vals), NEW doc, NEW A \in SUBSET DOMAIN Addons,
         RefersTo(doc, A)
  PROVE  Patching(ApplyPatch(doc, vals, a), a, vals)
<1> DEFINE ops == Addons[a].ops
           first == [doc |-> Copied([doc |-> doc, vals |-> vals]), vals |-> vals, ok |-> TRUE]
           OpDone(st, i) == IF ops[i].key \in AllowedKeys THEN Operation(st, a, i) ELSE st
           Upto(k, f) == f = [i \in 0..k |-> IF i = 0 THEN first ELSE OpDone(f[i - 1], i)]
           Missing == {k \in 0..Len(ops) : ~ \E f : Upto(k, f)}
<1>1. Len(ops) \in Nat /\ Operations(a) = 1..Len(ops)
  BY AddonsAreLists
<1>2. Patching(first, a, vals)
  <2>1. RefersTo(Copied([doc |-> doc, vals |-> vals]), {a})
    <3>1. PICK r : r = [doc |-> doc, vals |-> vals]
      OBVIOUS
    <3>2. r.doc = doc /\ r.vals = vals
      BY <3>1
    <3>3. QED BY <3>1, <3>2, CopiedIsOwn
  <2>2. QED BY <2>1 DEF Patching
<1>3. ASSUME NEW st, Patching(st, a, vals), NEW i \in 1..Len(ops) PROVE Patching(OpDone(st, i), a, vals)
  BY <1>1, <1>3, OperationGoesOn
<1> HIDE DEF first, OpDone
<1>4. ASSUME Missing # {} PROVE FALSE
  <2>1. Missing \in SUBSET Nat
    <3>1. \A k \in Missing : k \in 0..Len(ops)
      OBVIOUS
    <3> HIDE DEF Missing
    <3>2. QED BY <1>1, <3>1
  <2>2. PICK k \in Missing : \A e \in Missing : k <= e
    <3> HIDE DEF Missing
    <3>1. QED BY <1>4, <2>1, LeastIsThere
  <2>3. CASE k = 0
    <3>1. PICK f : f = [i \in 0..0 |-> first]
      OBVIOUS
    <3>2. f = [i \in 0..0 |-> IF i = 0 THEN first ELSE OpDone(f[i - 1], i)]
      BY <3>1
    <3>3. QED BY <2>2, <2>3, <3>2
  <2>4. CASE k # 0
    <3>1. k \in Nat /\ k - 1 \in 0..Len(ops) /\ ~(k <= k - 1) /\ k \in 1..Len(ops)
      BY <1>1, <2>2, <2>4
    <3>2. k - 1 \notin Missing
      BY <2>2, <3>1
    <3>3. PICK f : Upto(k - 1, f)
      BY <3>1, <3>2
    <3>4. PICK g : g = [i \in 0..k |-> IF i = k THEN OpDone(f[k - 1], k) ELSE f[i]]
      OBVIOUS
    <3>5. \A i \in 0..(k - 1) : g[i] = f[i]
      BY <3>1, <3>4
    <3>6. ASSUME NEW i \in 0..k PROVE g[i] = IF i = 0 THEN first ELSE OpDone(g[i - 1], i)
      <4>1. CASE i = k
        <5>1. k \in 0..k /\ k - 1 \in 0..(k - 1)
          BY <2>4, <3>1
        <5>2. g[k] = OpDone(f[k - 1], k)
          BY <3>4, <5>1
        <5>3. g[k - 1] = f[k - 1]
          BY <3>5, <5>1
        <5>4. QED BY <2>4, <4>1, <5>2, <5>3
      <4>2. CASE i # k
        <5>1. i \in 0..(k - 1) /\ (i # 0 => i - 1 \in 0..(k - 1))
          BY <3>1, <4>2
        <5>2. f[i] = IF i = 0 THEN first ELSE OpDone(f[i - 1], i)
          BY <3>3, <5>1
        <5>3. QED BY <3>5, <5>1, <5>2
      <4>3. QED BY <4>1, <4>2
    <3>7. Upto(k, g)
      BY <3>4, <3>6
    <3>8. QED BY <2>2, <3>7
  <2>5. QED BY <2>3, <2>4
<1>5. PICK f : Upto(Len(ops), f)
  <2>1. Len(ops) \in 0..Len(ops)
    BY <1>1
  <2>2. Len(ops) \notin Missing
    BY <1>4
  <2>3. QED BY <2>1, <2>2
<1>6. ASSUME NEW g, Upto(Len(ops), g) PROVE Patching(g[Len(ops)], a, vals)
  <2> DEFINE Bad == {i \in 0..Len(ops) : ~Patching(g[i], a, vals)}
  <2>1. ASSUME Bad # {} PROVE FALSE
    <3>1. Bad \in SUBSET Nat
      <4>1. \A i \in Bad : i \in 0..Len(ops)
        OBVIOUS
      <4> HIDE DEF Bad
      <4>2. QED BY <1>1, <4>1
    <3>2. PICK i \in Bad : \A e \in Bad : i <= e
      <4> HIDE DEF Bad
      <4>1. QED BY <2>1, <3>1, LeastIsThere
    <3>3. i \in 0..Len(ops) /\ ~Patching(g[i], a, vals)
      BY <3>2
    <3>4. g[i] = IF i = 0 THEN first ELSE OpDone(g[i - 1], i)
      BY <1>6, <3>3
    <3>5. i # 0
      BY <1>2, <3>3, <3>4
    <3>6. i - 1 \in 0..Len(ops) /\ ~(i <= i - 1) /\ i \in 1..Len(ops)
      BY <1>1, <3>3, <3>5
    <3>7. i - 1 \notin Bad
      BY <3>2, <3>6
    <3>8. Patching(g[i - 1], a, vals)
      BY <3>6, <3>7
    <3>9. QED BY <1>3, <3>3, <3>4, <3>5, <3>6, <3>8
  <2>2. Len(ops) \in 0..Len(ops)
    BY <1>1
  <2>3. QED BY <2>1, <2>2
<1>7. ApplyPatch(doc, vals, a) = (CHOOSE g : Upto(Len(ops), g))[Len(ops)]
  BY DEF ApplyPatch, first, OpDone
<1>8. PICK g : g = CHOOSE h : Upto(Len(ops), h)
  OBVIOUS
<1>9. Upto(Len(ops), g)
  <2> HIDE DEF Upto
  <2>1. QED BY <1>5, <1>8
<1>10. ApplyPatch(doc, vals, a) = g[Len(ops)]
  BY <1>7, <1>8
<1>11. QED BY <1>6, <1>9, <1>10

LEMMA AddonGoesOn ==
  ASSUME AddonConstants, NEW a \in DOMAIN Addons, NEW r, PatchedSoFar(r, a - 1)
  PROVE  PatchedSoFar(Patch(r, a), a)
<1>1. /\ r = [doc |-> r.doc, vals |-> r.vals, log |-> r.log]
      /\ OwnValues(r.vals) /\ RefersTo(r.doc, 1..(a - 1)) /\ LogIsSound(r.log, a - 1)
  BY DEF PatchedSoFar
<1>2. a \in Nat /\ 1..(a - 1) \subseteq DOMAIN Addons /\ a \notin 1..(a - 1) /\ 1..(a - 1) \subseteq 1..a /\ a \in 1..a
  BY AddonsAreLists
<1>3. /\ r.log \in Seq(ToSet(r.log)) /\ Len(r.log) \in Nat /\ Len(r.log) <= a - 1
      /\ \A i \in DOMAIN r.log : ~IsOff(r.log[i].id) /\ (r.log[i].failed => r.log[i].after = r.log[i].before)
  <2>1. PICK l : l = r.log
    OBVIOUS
  <2>2. l \in Seq(ToSet(l))
    BY <1>1, <2>1 DEF LogIsSound
  <2>3. QED BY <1>1, <2>1, <2>2 DEF LogIsSound
<1>4. CASE IsOff(Addons[a].id)
  <2>1. Patch(r, a) = r
    BY <1>4 DEF Patch
  <2>2. RefersTo(r.doc, 1..a)
    BY <1>1, <1>2 DEF RefersTo
  <2>3. LogIsSound(r.log, a)
    BY <1>2, <1>3 DEF LogIsSound
  <2>4. QED BY <1>1, <2>1, <2>2, <2>3 DEF PatchedSoFar
<1>5. CASE ~IsOff(Addons[a].id)
  <2>1. PICK st : st = ApplyPatch(r.doc, r.vals, a)
    OBVIOUS
  <2>2. Patching(st, a, r.vals)
    BY <1>1, <1>2, <2>1, PatchGoesOn
  <2>3. PICK doc : doc = IF st.ok THEN st.doc ELSE r.doc
    OBVIOUS
  <2>4. PICK l, m : l = r.log /\ m = [id |-> Addons[a].id, failed |-> ~st.ok, before |-> Copied(r),
                                     after |-> Copied([doc |-> doc, vals |-> st.vals])]
    OBVIOUS
  <2>5. Patch(r, a) = [doc |-> doc, vals |-> st.vals, log |-> Append(l, m)]
    BY <1>5, <2>1, <2>3, <2>4, Zenon DEF Patch
  <2>6. OwnValues(st.vals) /\ RefersTo(st.doc, {a}) /\ \A b \in DOMAIN Addons : b # a => st.vals[b] = r.vals[b]
    BY <2>2 DEF Patching
  <2>7. RefersTo(doc, 1..a)
    BY <1>1, <1>2, <2>3, <2>6 DEF RefersTo
  <2>8. m.failed => m.after = m.before
    <3>1. SUFFICES ASSUME ~st.ok PROVE Copied([doc |-> doc, vals |-> st.vals]) = Copied(r)
      BY <2>4
    <3>2. doc = r.doc
      BY <2>3, <3>1
    <3>3. PICK q : q = [doc |-> doc, vals |-> st.vals]
      OBVIOUS
    <3>4. q.doc = r.doc /\ q.vals = st.vals
      BY <3>2, <3>3
    <3>5. ASSUME NEW k \in ManifestKeys PROVE Seen(q, k) = Seen(r, k)
      <4>1. CASE r.doc[k].kind # "shared"
        BY <3>4, <4>1 DEF Seen
      <4>2. CASE r.doc[k].kind = "shared"
        <5>1. PICK b \in 1..(a - 1) : \E i \in Operations(b) : r.doc[k] = Shared(b, i)
          BY <1>1, <4>2 DEF RefersTo
        <5>2. PICK i \in Operations(b) : r.doc[k] = Shared(b, i)
          BY <5>1
        <5>3. b \in DOMAIN Addons /\ b # a
          BY <1>2, <5>1
        <5>4. Seen(q, k) = st.vals[b][i] /\ Seen(r, k) = r.vals[b][i]
          BY <3>4, <4>2, <5>2 DEF Seen, Shared
        <5>5. QED BY <2>6, <5>3, <5>4
      <4>3. QED BY <4>1, <4>2
    <3>6. QED BY <3>3, <3>5 DEF Copied
  <2>9. LogIsSound(Append(l, m), a)
    <3>1. PICK u : u = Append(l, m)
      OBVIOUS
    <3>2. l \in Seq(ToSet(l) \cup {m}) /\ m \in ToSet(l) \cup {m}
      <4>1. l \in Seq(ToSet(l))
        BY <1>3, <2>4
      <4>2. QED BY <4>1
    <3>3. /\ u \in Seq(ToSet(l) \cup {m}) /\ Len(u) = Len(l) + 1 /\ u[Len(l) + 1] = m
          /\ \A i \in 1..Len(l) : u[i] = l[i]
      BY <3>1, <3>2, AppendProperties
    <3>4. Len(l) \in Nat /\ DOMAIN l = 1..Len(l) /\ DOMAIN u = 1..(Len(l) + 1) /\ Len(l) <= a - 1
      BY <1>3, <2>4, <3>2, <3>3
    <3>5. u \in Seq(ToSet(u))
      <4>1. \A i \in 1..Len(u) : u[i] \in ToSet(u)
        BY <3>3, <3>4 DEF ToSet
      <4>2. QED BY <3>3, <4>1
    <3>6. ~IsOff(m.id)
      BY <1>5, <2>4
    <3>7. \A i \in DOMAIN u : ~IsOff(u[i].id) /\ (u[i].failed => u[i].after = u[i].before)
      <4>1. \A i \in DOMAIN u : i \in 1..Len(l) \/ i = Len(l) + 1
        BY <3>4
      <4>2. \A i \in 1..Len(l) : ~IsOff(l[i].id) /\ (l[i].failed => l[i].after = l[i].before)
        BY <1>3, <2>4, <3>4
      <4>3. QED BY <2>8, <3>3, <3>6, <4>1, <4>2
    <3>8. Len(u) <= a
      BY <1>2, <3>3, <3>4
    <3>9. QED BY <3>1, <3>5, <3>7, <3>8 DEF LogIsSound
  <2>10. QED BY <2>5, <2>6, <2>7, <2>9 DEF PatchedSoFar
<1>6. QED BY <1>4, <1>5

LEMMA ApplicationEnds ==
  ASSUME AddonConstants, OwnValues(values), ApplyAddons
  PROVE  \E r : /\ PatchedSoFar(r, Len(Addons))
               /\ values' = r.vals /\ outcomes' = r.log
               /\ used' = {r.log[i].id : i \in DOMAIN r.log} \cup (IF IsOff(Patched) THEN {} ELSE {Patched})
<1> DEFINE n == Len(Addons)
           first == [doc |-> BaseManifest, vals |-> values, log |-> <<>>]
           Upto(k, f) == f = [a \in 0..k |-> IF a = 0 THEN first ELSE Patch(f[a - 1], a)]
           Missing == {k \in 0..n : ~ \E f : Upto(k, f)}
<1>1. n \in Nat /\ DOMAIN Addons = 1..n
  BY AddonsAreLists
<1>2. PatchedSoFar(first, 0)
  <2>1. <<>> \in Seq(ToSet(<<>>)) /\ Len(<<>>) = 0 /\ DOMAIN <<>> = {}
    OBVIOUS
  <2>2. LogIsSound(<<>>, 0)
    BY <2>1 DEF LogIsSound
  <2>3. RefersTo(BaseManifest, 1..0)
    BY DEF RefersTo, AddonConstants
  <2>4. QED BY <2>2, <2>3 DEF PatchedSoFar
<1> HIDE DEF first, n
<1>3. ASSUME Missing # {} PROVE FALSE
  <2>1. Missing \in SUBSET Nat
    <3>1. \A k \in Missing : k \in 0..n
      OBVIOUS
    <3> HIDE DEF Missing
    <3>2. QED BY <1>1, <3>1
  <2>2. PICK k \in Missing : \A e \in Missing : k <= e
    <3> HIDE DEF Missing
    <3>1. QED BY <1>3, <2>1, LeastIsThere
  <2>3. CASE k = 0
    <3>1. PICK f : f = [a \in 0..0 |-> first]
      OBVIOUS
    <3>2. f = [a \in 0..0 |-> IF a = 0 THEN first ELSE Patch(f[a - 1], a)]
      BY <3>1
    <3>3. QED BY <2>2, <2>3, <3>2
  <2>4. CASE k # 0
    <3>1. k \in Nat /\ k - 1 \in 0..n /\ ~(k <= k - 1) /\ k \in 1..n
      BY <1>1, <2>2, <2>4
    <3>2. k - 1 \notin Missing
      BY <2>2, <3>1
    <3>3. PICK f : Upto(k - 1, f)
      BY <3>1, <3>2
    <3>4. PICK g : g = [a \in 0..k |-> IF a = k THEN Patch(f[k - 1], k) ELSE f[a]]
      OBVIOUS
    <3>5. \A a \in 0..(k - 1) : g[a] = f[a]
      BY <3>1, <3>4
    <3>6. ASSUME NEW a \in 0..k PROVE g[a] = IF a = 0 THEN first ELSE Patch(g[a - 1], a)
      <4>1. CASE a = k
        <5>1. k \in 0..k /\ k - 1 \in 0..(k - 1)
          BY <2>4, <3>1
        <5>2. g[k] = Patch(f[k - 1], k)
          BY <3>4, <5>1
        <5>3. g[k - 1] = f[k - 1]
          BY <3>5, <5>1
        <5>4. QED BY <2>4, <4>1, <5>2, <5>3
      <4>2. CASE a # k
        <5>1. a \in 0..(k - 1) /\ (a # 0 => a - 1 \in 0..(k - 1))
          BY <3>1, <4>2
        <5>2. f[a] = IF a = 0 THEN first ELSE Patch(f[a - 1], a)
          BY <3>3, <5>1
        <5>3. QED BY <3>5, <5>1, <5>2
      <4>3. QED BY <4>1, <4>2
    <3>7. Upto(k, g)
      BY <3>4, <3>6
    <3>8. QED BY <2>2, <3>7
  <2>5. QED BY <2>3, <2>4
<1>4. PICK f : Upto(n, f)
  <2>1. n \in 0..n
    BY <1>1
  <2>2. n \notin Missing
    BY <1>3
  <2>3. QED BY <2>1, <2>2
<1>5. PICK g : g = CHOOSE h : Upto(n, h)
  OBVIOUS
<1>6. Upto(n, g)
  <2> HIDE DEF Upto
  <2>1. QED BY <1>4, <1>5
<1>7. ASSUME NEW k \in 0..n PROVE PatchedSoFar(g[k], k)
  <2> DEFINE Bad == {a \in 0..n : ~PatchedSoFar(g[a], a)}
  <2>1. ASSUME Bad # {} PROVE FALSE
    <3>1. Bad \in SUBSET Nat
      <4>1. \A a \in Bad : a \in 0..n
        OBVIOUS
      <4> HIDE DEF Bad
      <4>2. QED BY <1>1, <4>1
    <3>2. PICK a \in Bad : \A e \in Bad : a <= e
      <4> HIDE DEF Bad
      <4>1. QED BY <2>1, <3>1, LeastIsThere
    <3>3. a \in 0..n /\ ~PatchedSoFar(g[a], a)
      BY <3>2
    <3>4. g[a] = IF a = 0 THEN first ELSE Patch(g[a - 1], a)
      BY <1>6, <3>3
    <3>5. a # 0
      BY <1>2, <3>3, <3>4
    <3>6. a - 1 \in 0..n /\ ~(a <= a - 1) /\ a \in DOMAIN Addons
      BY <1>1, <3>3, <3>5
    <3>7. a - 1 \notin Bad
      BY <3>2, <3>6
    <3>8. PatchedSoFar(g[a - 1], a - 1)
      BY <3>6, <3>7
    <3>9. QED BY <3>3, <3>4, <3>5, <3>6, <3>8, AddonGoesOn
  <2>2. QED BY <2>1
<1>8. PICK k \in 0..n : k = IF IsOff(Patched) THEN 0 ELSE n
  BY <1>1
<1>9. /\ values' = g[k].vals /\ outcomes' = g[k].log
      /\ used' = {g[k].log[i].id : i \in DOMAIN g[k].log} \cup (IF IsOff(Patched) THEN {} ELSE {Patched})
  BY <1>5, <1>8, Zenon DEF ApplyAddons, first, n
<1>10. PatchedSoFar(g[k], n)
  <2>1. PatchedSoFar(g[k], k)
    BY <1>7
  <2>2. RefersTo(g[k].doc, 1..n)
    BY <1>1, <2>1 DEF PatchedSoFar, RefersTo
  <2>3. PICK l : l = g[k].log
    OBVIOUS
  <2>4. LogIsSound(l, k) /\ Len(l) \in Nat
    BY <2>1, <2>3 DEF PatchedSoFar, LogIsSound
  <2>5. LogIsSound(l, n)
    BY <1>1, <2>4 DEF LogIsSound
  <2>6. QED BY <2>1, <2>2, <2>3, <2>5 DEF PatchedSoFar
<1>11. QED BY <1>9, <1>10 DEF n

AddonInv ==
    /\ AddonTypeOK /\ OwnValues(values)
    /\ off \subseteq chosen.disabled /\ off \subseteq ecoFile.disabled
    /\ used \cap chosen.disabled = {}
    /\ \A i \in DOMAIN outcomes : outcomes[i].failed => outcomes[i].after = outcomes[i].before

LEMMA DefaultsAre == Defaults \in Config /\ Defaults.disabled = {} /\ Unreadable.disabled = {}
BY DEF Defaults, Config, Unreadable

LEMMA FreshIsOwn == ASSUME AddonConstants PROVE OwnValues(FreshValues) /\ DOMAIN FreshValues = DOMAIN Addons
BY AddonsAreLists DEF FreshValues, OwnValues, Operations

LEMMA AddonBegins == ASSUME AddonConstants PROVE AddonInit => AddonInv
<1>1. Len(<<>>) = 0 /\ DOMAIN <<>> = {}
  OBVIOUS
<1>2. QED BY <1>1, DefaultsAre, FreshIsOwn, AddonsAreLists DEF AddonInit, AddonInv, AddonTypeOK, AddonConstants

LEMMA ChoiceKeeps ==
  ASSUME AddonConstants, AddonInv, NEW c \in Config, Choose(c)
  PROVE  AddonInv'
<1>1. /\ chosen' = c /\ used' = used \ c.disabled /\ UNCHANGED <<applications, values, outcomes>>
      /\ \/ ecoFile' = c /\ off' = c.disabled /\ UNCHANGED ecoFaults
         \/ EcoFault /\ ecoFile' = ecoFile /\ off' = off \cap c.disabled
         \/ EcoFault /\ ecoFile' = Unreadable /\ off' = {}
  BY DEF Choose, Save
<1>2. ecoFaults' \in 0..MaxEcoFaults
  BY <1>1 DEF EcoFault, AddonInv, AddonTypeOK, AddonConstants
<1>3. c.disabled \subseteq Switched
  BY DEF Config
<1>4. AddonTypeOK'
  BY <1>1, <1>2, <1>3 DEF AddonInv, AddonTypeOK
<1>5. OwnValues(values)'
  BY <1>1 DEF AddonInv, OwnValues, Operations
<1>6. QED BY <1>1, <1>4, <1>5, DefaultsAre DEF AddonInv

\* What the file says, as a process reads it.
LEMMA ReadBackKeeps ==
  ASSUME AddonInv, NEW c, c = IF ecoFile = Unreadable THEN Defaults ELSE ecoFile
  PROVE  c \in Config /\ off \subseteq c.disabled
BY DefaultsAre DEF AddonInv, AddonTypeOK

LEMMA AddonSteps == ASSUME AddonConstants PROVE AddonInv /\ [AddonNext]_addonVars => AddonInv'
<1>1. SUFFICES ASSUME AddonInv, [AddonNext]_addonVars PROVE AddonInv'
  OBVIOUS
<1>2. /\ AddonTypeOK /\ OwnValues(values) /\ chosen \in Config
  BY <1>1 DEF AddonInv, AddonTypeOK
<1>3. ASSUME NEW x \in Switched, Disable(x) \/ Enable(x) PROVE AddonInv'
  <2>1. PICK c : Choose(c) /\ (c = [chosen EXCEPT !.disabled = @ \cup {x}] \/ c = [chosen EXCEPT !.disabled = @ \ {x}])
    BY <1>3 DEF Disable, Enable
  <2>2. c \in Config
    BY <1>2, <2>1 DEF Config
  <2>3. QED BY <1>1, <2>1, <2>2, ChoiceKeeps
<1>4. ASSUME NEW x \in ToSet(Candidates) \cup {NoOverride}, Choose([chosen EXCEPT !.override = x]) PROVE AddonInv'
  <2>1. [chosen EXCEPT !.override = x] \in Config
    BY <1>2 DEF Config
  <2>2. QED BY <1>1, <1>4, <2>1, ChoiceKeeps
<1>5. CASE ResetToDefaults
  BY <1>1, <1>5, ChoiceKeeps, DefaultsAre DEF ResetToDefaults
<1>6. CASE Reload
  <2>1. /\ chosen' \in Config /\ off \subseteq chosen'.disabled /\ used' = used \ chosen'.disabled
        /\ UNCHANGED <<ecoFile, applications, values, outcomes, off, ecoFaults>>
    BY <1>1, <1>6, ReadBackKeeps DEF Reload
  <2>2. OwnValues(values)'
    BY <1>2, <2>1 DEF OwnValues, Operations
  <2>3. QED BY <1>1, <2>1, <2>2 DEF AddonInv, AddonTypeOK
<1>7. CASE RestartEco
  <2>1. /\ chosen' \in Config /\ off \subseteq chosen'.disabled /\ applications' = 0 /\ values' = FreshValues
        /\ outcomes' = <<>> /\ used' = {} /\ UNCHANGED <<ecoFile, off, ecoFaults>>
    BY <1>1, <1>7, ReadBackKeeps DEF RestartEco
  <2>2. Len(outcomes') = 0 /\ DOMAIN outcomes' = {} /\ 0 <= Len(Addons) /\ 0 \in 0..MaxApplied
    BY <2>1, AddonsAreLists DEF AddonConstants
  <2>3. OwnValues(values)' /\ DOMAIN values' = DOMAIN Addons
    BY <2>1, FreshIsOwn DEF OwnValues, Operations
  <2>4. QED BY <1>1, <2>1, <2>2, <2>3 DEF AddonInv, AddonTypeOK
<1>8. CASE DamageEco
  <2>1. ecoFaults' \in 0..MaxEcoFaults
    BY <1>2, <1>8 DEF DamageEco, EcoFault, AddonTypeOK, AddonConstants
  <2>2. OwnValues(values)'
    BY <1>2, <1>8 DEF DamageEco, OwnValues, Operations
  <2>3. QED BY <1>1, <1>8, <2>1, <2>2 DEF DamageEco, AddonInv, AddonTypeOK
<1>9. CASE ResolveComponent
  <2>1. UNCHANGED <<chosen, ecoFile, applications, values, outcomes, off, ecoFaults>>
    BY <1>9 DEF ResolveComponent
  <2>2. used' \cap chosen.disabled = {}
    BY <1>9 DEF ResolveComponent, IsOff
  <2>3. OwnValues(values)'
    BY <1>2, <2>1 DEF OwnValues, Operations
  <2>4. QED BY <1>1, <2>1, <2>2, <2>3 DEF AddonInv, AddonTypeOK
<1>10. CASE ApplyAddons
  <2>1. PICK r : /\ PatchedSoFar(r, Len(Addons))
                 /\ values' = r.vals /\ outcomes' = r.log
                 /\ used' = {r.log[i].id : i \in DOMAIN r.log} \cup (IF IsOff(Patched) THEN {} ELSE {Patched})
    BY <1>2, <1>10, ApplicationEnds
  <2>2. /\ applications' \in 0..MaxApplied /\ UNCHANGED <<chosen, ecoFile, off, ecoFaults>>
    BY <1>2, <1>10 DEF ApplyAddons, AddonTypeOK, AddonConstants
  <2>3. /\ OwnValues(r.vals) /\ Len(r.log) <= Len(Addons)
        /\ \A i \in DOMAIN r.log : ~IsOff(r.log[i].id) /\ (r.log[i].failed => r.log[i].after = r.log[i].before)
    BY <2>1 DEF PatchedSoFar, LogIsSound
  <2>4. used' \cap chosen.disabled = {}
    BY <2>1, <2>3 DEF IsOff
  <2>5. OwnValues(values)' /\ DOMAIN values' = DOMAIN Addons
    BY <2>1, <2>3 DEF OwnValues, Operations
  <2>6. QED BY <1>1, <2>1, <2>2, <2>3, <2>4, <2>5 DEF AddonInv, AddonTypeOK
<1>11. CASE UNCHANGED addonVars
  <2>1. UNCHANGED <<chosen, ecoFile, applications, values, outcomes, used, off, ecoFaults>>
    BY <1>11 DEF addonVars
  <2>2. OwnValues(values)'
    BY <1>2, <2>1 DEF OwnValues, Operations
  <2>3. QED BY <1>1, <2>1, <2>2 DEF AddonInv, AddonTypeOK
<1>12. QED BY <1>1, <1>3, <1>4, <1>5, <1>6, <1>7, <1>8, <1>9, <1>10, <1>11
       DEF AddonNext, SetOverride, RemoveOverride

\* ChoicesHold (active_ecosystem.py, registry.py): what the file says is off is off
\* in every process, and a patch that fails leaves the manifest as it found it, for
\* any addons and operations, however the values they add are shared.
THEOREM ChoicesAreHeld == ASSUME AddonConstants PROVE AddonSpec => []ChoicesHold
<1>1. AddonInv => ChoicesHold
  BY DEF AddonInv, ChoicesHold
<1>2. QED BY <1>1, AddonBegins, AddonSteps, PTL DEF AddonSpec
=============================================================================
