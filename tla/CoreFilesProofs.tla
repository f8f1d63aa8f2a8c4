-------------------------- MODULE CoreFilesProofs ---------------------------
(***************************************************************************)
(* Proofs about the components whose memory has a file behind it, which a  *)
(* write may spoil and a restart reads again: what is installed, run, kept *)
(* and deleted, for any number of packs, paths, secrets and units.         *)
(***************************************************************************)
EXTENDS MCCoreFiles, SequenceTheorems, WellFoundedInduction, TLAPS

-----------------------------------------------------------------------------
(***************************************************************************)
(* InstallJournal.                                                         *)
(***************************************************************************)
\* What is planned was decided; a root that nothing allowed contains is there.
PlanDecided == \A p \in planned : DecidePath(p)
Outermost(r) == \A q \in allowed : Within(r, q) => q = r
RootsThere == \A r \in allowed : Outermost(r) => r \in exists
LossesRecorded == \A r \in protected : lost \cap Below(r) # {} => \E p \in recorded : p # r /\ Within(r, p)

JournalInv == JournalTypeOK /\ PlanDecided /\ RootsThere /\ LossesRecorded

\* Being within is a partial order, and of two paths above a third one is within
\* the other.
LEMMA WithinMeans ==
  ASSUME NEW p \in Seq(Nat), NEW r \in Seq(Nat)
  PROVE  Within(p, r) <=> Len(r) <= Len(p) /\ \A i \in 1..Len(r) : r[i] = p[i]
<1>1. Len(p) \in Nat /\ Len(r) \in Nat
  OBVIOUS
<1>2. Within(p, r) <=> Len(r) <= Len(p) /\ SubSeq(r, 1, Len(r)) = SubSeq(p, 1, Len(r))
  BY DEF Within, IsPrefix
<1>3. ASSUME Len(r) <= Len(p)
      PROVE  SubSeq(r, 1, Len(r)) = SubSeq(p, 1, Len(r)) <=> \A i \in 1..Len(r) : r[i] = p[i]
  <2> DEFINE a == SubSeq(r, 1, Len(r))
             b == SubSeq(p, 1, Len(r))
  <2>1. /\ \A i \in 1..Len(r) : r[i] \in Nat
        /\ \A i \in 1..Len(r) : p[i] \in Nat
    BY <1>1, <1>3
  <2>2. a \in Seq(Nat) /\ Len(a) = Len(r) /\ \A i \in 1..Len(r) : a[i] = r[i]
    BY <1>1, <2>1, SubSeqProperties
  <2>3. b \in Seq(Nat) /\ Len(b) = Len(r) /\ \A i \in 1..Len(r) : b[i] = p[i]
    BY <1>1, <2>1, SubSeqProperties
  <2> HIDE DEF a, b
  <2>4. ASSUME \A i \in 1..Len(r) : r[i] = p[i] PROVE a = b
    <3>1. Len(a) = Len(b) /\ \A i \in 1..Len(a) : a[i] = b[i]
      BY <2>2, <2>3, <2>4
    <3>2. QED BY <2>2, <2>3, <3>1, SeqEqual
  <2>5. ASSUME a = b PROVE \A i \in 1..Len(r) : r[i] = p[i]
    BY <2>2, <2>3, <2>5
  <2>6. QED BY <2>4, <2>5 DEF a, b
<1>4. QED BY <1>2, <1>3

LEMMA WithinOrders ==
  ASSUME NEW p \in Seq(Nat), NEW q \in Seq(Nat), NEW r \in Seq(Nat)
  PROVE  /\ Within(p, p)
         /\ Within(p, q) /\ Within(q, p) => p = q
         /\ Within(p, q) /\ Within(q, r) => Within(p, r)
         /\ Within(p, q) /\ Within(p, r) => Within(q, r) \/ Within(r, q)
<1>1. Len(p) \in Nat /\ Len(q) \in Nat /\ Len(r) \in Nat
  OBVIOUS
<1>2. Within(p, p)
  BY <1>1, WithinMeans
<1> DEFINE InOrder(a, b, c) ==
      /\ a <= b /\ b <= a => a = b
      /\ a <= b /\ b <= c => a <= c
      /\ a <= b => 1..a \subseteq 1..b
      /\ a <= b \/ b <= a
<1>0. \A a, b, c \in Nat : InOrder(a, b, c)
  OBVIOUS
<1>9. InOrder(Len(p), Len(q), Len(r)) /\ InOrder(Len(r), Len(q), Len(p)) /\ InOrder(Len(q), Len(r), Len(p))
  BY <1>0, <1>1
<1>3. ASSUME Within(p, q), Within(q, p) PROVE p = q
  <2>1. Len(p) <= Len(q) /\ Len(q) <= Len(p) /\ \A i \in 1..Len(q) : q[i] = p[i]
    BY <1>3, WithinMeans
  <2>2. Len(p) = Len(q) /\ \A i \in 1..Len(p) : p[i] = q[i]
    BY <1>9, <2>1
  <2>3. QED BY <2>2, SeqEqual
<1>4. ASSUME Within(p, q), Within(q, r) PROVE Within(p, r)
  <2>1. /\ Len(q) <= Len(p) /\ \A i \in 1..Len(q) : q[i] = p[i]
        /\ Len(r) <= Len(q) /\ \A i \in 1..Len(r) : r[i] = q[i]
    BY <1>4, WithinMeans
  <2>2. Len(r) <= Len(p) /\ \A i \in 1..Len(r) : r[i] = p[i]
    BY <1>9, <2>1
  <2>3. QED BY <2>2, WithinMeans
<1>5. ASSUME Within(p, q), Within(p, r) PROVE Within(q, r) \/ Within(r, q)
  <2>1. /\ Len(q) <= Len(p) /\ \A i \in 1..Len(q) : q[i] = p[i]
        /\ Len(r) <= Len(p) /\ \A i \in 1..Len(r) : r[i] = p[i]
    BY <1>5, WithinMeans
  <2>2. CASE Len(r) <= Len(q)
    <3>1. \A i \in 1..Len(r) : r[i] = q[i]
      BY <1>1, <2>1, <2>2
    <3>2. QED BY <2>2, <3>1, WithinMeans
  <2>3. CASE Len(q) <= Len(r)
    <3>1. \A i \in 1..Len(q) : q[i] = r[i]
      BY <1>1, <2>1, <2>3
    <3>2. QED BY <2>3, <3>1, WithinMeans
  <2>4. QED BY <1>1, <2>2, <2>3
<1>6. QED BY <1>2, <1>3, <1>4, <1>5

LEMMA PathsOrdered ==
  ASSUME JournalConstants
  PROVE  \A p, q, r \in Paths :
         /\ Within(p, p)
         /\ Within(p, q) /\ Within(q, p) => p = q
         /\ Within(p, q) /\ Within(q, r) => Within(p, r)
         /\ Within(p, q) /\ Within(p, r) => Within(q, r) \/ Within(r, q)
<1>1. SUFFICES ASSUME NEW p \in Paths, NEW q \in Paths, NEW r \in Paths
      PROVE /\ Within(p, p)
            /\ Within(p, q) /\ Within(q, p) => p = q
            /\ Within(p, q) /\ Within(q, r) => Within(p, r)
            /\ Within(p, q) /\ Within(p, r) => Within(q, r) \/ Within(r, q)
  OBVIOUS
<1>2. p \in Seq(Nat) /\ q \in Seq(Nat) /\ r \in Seq(Nat)
  BY DEF JournalConstants
<1>3. QED BY <1>2, WithinOrders

LEMMA JournalBegins == JournalConstants /\ JournalInit => JournalInv
<1>1. SUFFICES ASSUME JournalConstants, JournalInit PROVE JournalInv
  OBVIOUS
<1>2. allowed \subseteq Paths /\ protected \subseteq Paths
  BY <1>1 DEF JournalInit
<1>3. \A r \in allowed : r \in exists
  BY <1>1, <1>2, PathsOrdered DEF JournalInit
<1>4. \A p \in exists : \A q \in Paths : Within(p, q) => q \in exists
  BY <1>1, <1>2, PathsOrdered DEF JournalInit
<1>5. JournalTypeOK
  <2>1. journalFaults \in 0..MaxJournalFaults
    BY <1>1 DEF JournalInit, JournalConstants
  <2>2. /\ exists \subseteq Paths /\ recorded \subseteq Paths /\ planned \subseteq recorded
        /\ deleting \in BOOLEAN /\ lost \subseteq Paths
    BY <1>1 DEF JournalInit
  <2>3. QED BY <1>2, <1>4, <2>1, <2>2 DEF JournalTypeOK
<1>6. PlanDecided /\ RootsThere /\ LossesRecorded
  BY <1>1, <1>3 DEF JournalInit, PlanDecided, RootsThere, LossesRecorded
<1>7. QED BY <1>5, <1>6 DEF JournalInv

LEMMA CreateKeeps ==
  ASSUME JournalConstants, JournalInv, NEW p \in Paths, Create(p)
  PROVE  JournalInv'
<1>1. /\ exists' = exists \cup {q \in Paths : Within(p, q)}
      /\ recorded' \in {recorded, recorded \cup {p}}
      /\ UNCHANGED <<allowed, protected, planned, deleting, lost>>
  BY DEF Create
<1>2. journalFaults' \in 0..MaxJournalFaults
  BY DEF Create, JournalInv, JournalTypeOK, JournalConstants
<1>3. /\ allowed \subseteq Paths /\ protected \subseteq Paths /\ exists \subseteq Paths /\ recorded \subseteq Paths
      /\ planned \subseteq recorded /\ deleting \in BOOLEAN /\ lost \subseteq Paths
      /\ \A x \in exists : \A q \in Paths : Within(x, q) => q \in exists
  BY DEF JournalInv, JournalTypeOK
<1>4. \A x \in exists' : \A q \in Paths : Within(x, q) => q \in exists'
  BY <1>1, <1>3, PathsOrdered
<1>5. JournalTypeOK'
  BY <1>1, <1>2, <1>3, <1>4 DEF JournalTypeOK
<1>6. PlanDecided' /\ RootsThere'
  BY <1>1 DEF JournalInv, PlanDecided, DecidePath, RootsThere, Outermost
<1>7. LossesRecorded'
  BY <1>1 DEF JournalInv, LossesRecorded, Below
<1>8. QED BY <1>5, <1>6, <1>7 DEF JournalInv

LEMMA DeleteKeeps ==
  ASSUME JournalConstants, JournalInv, NEW p \in Paths, DeletePath(p)
  PROVE  JournalInv'
<1>1. /\ p \in planned /\ planned' = planned \ {p}
      /\ UNCHANGED <<allowed, protected, recorded, deleting>>
      /\ \/ /\ exists' = exists \ Below(p)
            /\ lost' = lost \cup {q \in Below(p) \cap exists : \E r \in protected : Within(q, r)}
         \/ UNCHANGED <<exists, lost>>
  BY DEF DeletePath
<1>2. journalFaults' \in 0..MaxJournalFaults
  BY DEF DeletePath, JournalInv, JournalTypeOK, JournalConstants
<1>3. /\ allowed \subseteq Paths /\ protected \subseteq Paths /\ exists \subseteq Paths /\ recorded \subseteq Paths
      /\ planned \subseteq recorded /\ deleting \in BOOLEAN /\ lost \subseteq Paths
      /\ \A x \in exists : \A q \in Paths : Within(x, q) => q \in exists
  BY DEF JournalInv, JournalTypeOK
<1>4. DecidePath(p) /\ p \in recorded
  BY <1>1, <1>3 DEF JournalInv, PlanDecided
<1>5. PlanDecided'
  BY <1>1 DEF JournalInv, PlanDecided, DecidePath
<1>6. CASE UNCHANGED <<exists, lost>>
  <2>1. JournalTypeOK'
    BY <1>1, <1>2, <1>3, <1>6 DEF JournalTypeOK
  <2>2. RootsThere' /\ LossesRecorded'
    BY <1>1, <1>6 DEF JournalInv, RootsThere, Outermost, LossesRecorded, Below
  <2>3. QED BY <1>5, <2>1, <2>2 DEF JournalInv
<1>7. CASE /\ exists' = exists \ Below(p)
           /\ lost' = lost \cup {q \in Below(p) \cap exists : \E r \in protected : Within(q, r)}
  <2>1. \A x \in exists' : \A q \in Paths : Within(x, q) => q \in exists'
    BY <1>3, <1>7, PathsOrdered DEF Below
  <2>2. JournalTypeOK'
    BY <1>1, <1>2, <1>3, <1>7, <2>1 DEF JournalTypeOK
  <2>3. ASSUME NEW r \in allowed, Outermost(r) PROVE r \notin Below(p)
    <3>1. SUFFICES ASSUME Within(r, p) PROVE FALSE
      BY DEF Below
    <3>2. PICK a \in allowed : Within(p, a)
      BY <1>4 DEF DecidePath
    <3>3. Within(r, a)
      BY <1>3, <3>1, <3>2, PathsOrdered
    <3>4. a = r
      BY <2>3, <3>3 DEF Outermost
    <3>5. p = r
      BY <1>3, <3>1, <3>2, <3>4, PathsOrdered
    <3>6. PICK b \in allowed : Within(p, b) /\ b # p
      BY <1>4, <3>5 DEF DecidePath
    <3>7. QED BY <2>3, <3>5, <3>6 DEF Outermost
  <2>4. RootsThere'
    BY <1>1, <1>7, <2>3 DEF JournalInv, RootsThere, Outermost
  <2>5. ASSUME NEW r \in protected, NEW q \in lost' \cap Below(r)
        PROVE  \E x \in recorded : x # r /\ Within(r, x)
    <3>1. CASE q \in lost
      BY <2>5, <3>1 DEF JournalInv, LossesRecorded
    <3>2. CASE q \in Below(p)
      <4>1. q \in Paths /\ Within(q, p) /\ Within(q, r)
        BY <2>5, <3>2 DEF Below
      <4>2. ~Within(p, r)
        BY <1>4 DEF DecidePath
      <4>3. Within(r, p) /\ p # r
        BY <1>3, <4>1, <4>2, PathsOrdered
      <4>4. QED BY <1>4, <4>3
    <3>3. QED BY <1>7, <2>5, <3>1, <3>2
  <2>6. LossesRecorded'
    BY <1>1, <2>5 DEF LossesRecorded, Below
  <2>7. QED BY <1>5, <2>2, <2>4, <2>6 DEF JournalInv
<1>8. QED BY <1>1, <1>6, <1>7

LEMMA JournalSteps ==
  ASSUME JournalConstants, JournalInv, [JournalNext]_journalVars
  PROVE  JournalInv'
<1>1. CASE UNCHANGED journalVars
  BY <1>1 DEF journalVars, JournalInv, JournalTypeOK, PlanDecided, DecidePath, RootsThere, Outermost, LossesRecorded, Below
<1>2. CASE Uninstall \/ EndUninstall
  <2>1. /\ planned' \subseteq {p \in recorded : DecidePath(p)} /\ deleting' \in BOOLEAN
        /\ UNCHANGED <<allowed, protected, exists, recorded, lost, journalFaults>>
    BY <1>2 DEF Uninstall, EndUninstall
  <2>2. JournalTypeOK'
    BY <2>1 DEF JournalInv, JournalTypeOK
  <2>3. PlanDecided' /\ RootsThere' /\ LossesRecorded'
    BY <2>1 DEF JournalInv, PlanDecided, DecidePath, RootsThere, Outermost, LossesRecorded, Below
  <2>4. QED BY <2>2, <2>3 DEF JournalInv
<1>3. QED BY <1>1, <1>2, CreateKeeps, DeleteKeeps DEF JournalNext

\* Uninstalling deletes no outermost allowed root, and inside a protected root
\* only what is below a directory a component recorded: for any roots and any
\* tree of paths, whatever components say they created.
THEOREM UninstallSparesRoots == ASSUME JournalConstants PROVE JournalSpec => []RootsSurvive
<1>1. JournalInv => RootsSurvive
  BY DEF JournalInv, RootsThere, Outermost, LossesRecorded, RootsSurvive
<1>2. QED BY <1>1, JournalBegins, JournalSteps, PTL DEF JournalSpec

-----------------------------------------------------------------------------
(***************************************************************************)
(* PipInstaller.  A block is kept in two places, the index and the list of *)
(* the blocked, in memory and in their files: one failing write can spoil  *)
(* one of them, and from then on it is the other one that keeps it.        *)
(***************************************************************************)
BlockedAtLimit == \A k \in PipKeys :
    /\ item[k].status = "blocked" => item[k].rejects = RejectLimit
    /\ itemFile[k].status = "blocked" => itemFile[k].rejects = RejectLimit

ByList == \A k \in blockTold :
    /\ k \in barred /\ k \in barredFile
    /\ item[k].status \in {"none", "blocked"} /\ itemFile[k].status \in {"none", "blocked"}
ByIndex == \A k \in blockTold : item[k].status = "blocked" /\ itemFile[k].status = "blocked"
BlockKept == (ByList \/ ByIndex) /\ (pipFaults = 0 => ByList /\ ByIndex)

PipInv == PipTypeOK /\ BlockedAtLimit /\ BlockKept /\ PipBlockSurvives

LEMMA NoItemsType ==
  ASSUME PipConstants
  PROVE  NoItems \in [PipKeys -> PipItem] /\ \A k \in PipKeys : NoItems[k].status = "none"
BY DEF PipConstants, NoItems, NoPipItem, PipItem

LEMMA PipBegins == PipConstants /\ PipInit => PipInv
<1>1. SUFFICES ASSUME PipConstants, PipInit PROVE PipInv
  OBVIOUS
<1>2. PipKeys # {}
  <2>1. PICK p \in PipPacks, l \in Locks : TRUE
    BY <1>1 DEF PipConstants
  <2>2. <<p, l>> \in PipKeys
    BY <2>1 DEF PipKeys
  <2>3. QED BY <2>2
<1>3. NoBuild.key \in PipKeys /\ NoBuild \in [pc: {"idle", "check", "download", "install", "record"}, key: PipKeys]
  BY <1>2 DEF NoBuild
<1>4. pipFaults \in 0..MaxPipFaults
  BY <1>1 DEF PipInit, PipConstants
<1>5. PipTypeOK
  BY <1>1, <1>3, <1>4, NoItemsType DEF PipInit, PipTypeOK
<1>6. BlockedAtLimit /\ BlockKept /\ PipBlockSurvives
  BY <1>1, NoItemsType DEF PipInit, BlockedAtLimit, BlockKept, ByList, ByIndex, PipBlockSurvives
<1>7. QED BY <1>5, <1>6 DEF PipInv

\* What one failing write leaves to the others.
LEMMA OneFault ==
  ASSUME PipConstants, PipTypeOK, PipFault
  PROVE  pipFaults = 0 /\ pipFaults' # 0 /\ pipFaults' \in 0..MaxPipFaults
BY DEF PipConstants, PipTypeOK, PipFault

\* The index is written, or lost while the list stands; nothing else was blocked.
LEMMA IndexWritten ==
  ASSUME PipConstants, PipInv, SaveItems,
         item' \in [PipKeys -> PipItem], barred' = barred, barredFile' = barredFile, blockTold' = blockTold,
         \A k \in blockTold : item'[k] = item[k],
         \A k \in PipKeys : item'[k].status = "blocked" => item'[k].rejects = RejectLimit
  PROVE  /\ itemFile' \in [PipKeys -> PipItem] /\ pipFaults' \in 0..MaxPipFaults
         /\ BlockedAtLimit' /\ BlockKept'
<1>0. blockTold \subseteq PipKeys /\ itemFile \in [PipKeys -> PipItem]
  BY DEF PipInv, PipTypeOK
<1>1. CASE ItemsSaved
  <2>1. itemFile' = item' /\ pipFaults' = pipFaults
    BY <1>1 DEF ItemsSaved
  <2>2. BlockedAtLimit'
    BY <2>1 DEF BlockedAtLimit
  <2>3. (ByList => ByList') /\ (ByIndex => ByIndex')
    BY <2>1 DEF ByList, ByIndex
  <2>4. QED BY <2>1, <2>2, <2>3 DEF PipInv, PipTypeOK, BlockKept
<1>2. CASE ItemsLost
  <2>1. /\ itemFile' \in {itemFile, NoItems} /\ pipFaults = 0 /\ pipFaults' # 0
        /\ pipFaults' \in 0..MaxPipFaults
    BY <1>2, OneFault DEF ItemsLost, PipInv
  <2>2. BlockedAtLimit'
    BY <2>1, NoItemsType DEF PipInv, BlockedAtLimit
  <2>3. ByList
    BY <2>1 DEF PipInv, BlockKept
  <2>4. ByList'
    BY <1>0, <2>1, <2>3, NoItemsType DEF ByList
  <2>5. QED BY <1>0, <2>1, <2>2, <2>4, NoItemsType DEF BlockKept
<1>3. QED BY <1>1, <1>2 DEF SaveItems

\* What is not scanned, approved or built.
LEMMA ToldIsOut ==
  ASSUME PipInv, NEW k \in blockTold
  PROVE  /\ k \in PipKeys /\ ~Scannable(k)
         /\ item[k].status \notin {"pending", "rejected", "failed", "installed"}
         /\ build.pc # "idle" => build.key # k
BY DEF PipInv, PipTypeOK, BlockKept, ByList, ByIndex, Scannable, PipBlockSurvives

\* One candidate that was not blocked changes its status, to another than blocked.
LEMMA StatusGoes ==
  ASSUME PipConstants, PipInv, NEW k \in PipKeys, k \notin blockTold,
         NEW status \in {"pending", "installed", "failed"},
         item' = [item EXCEPT ![k].status = status], SaveItems,
         UNCHANGED <<lock, barred, barredFile, blockTold>>,
         site' \in [PipPacks -> SUBSET Locks],
         build' \in [pc: {"idle", "check", "download", "install", "record"}, key: PipKeys],
         build'.pc # "idle" => build'.key \notin blockTold
  PROVE  PipInv'
<1>1. /\ item' \in [PipKeys -> PipItem]
      /\ \A j \in PipKeys : j # k => item'[j] = item[j]
      /\ item'[k].status = status
  BY DEF PipInv, PipTypeOK, PipItem
<1>2. \A j \in blockTold : item'[j] = item[j]
  BY <1>1 DEF PipInv, PipTypeOK
<1>3. \A j \in PipKeys : item'[j].status = "blocked" => item'[j].rejects = RejectLimit
  BY <1>1 DEF PipInv, BlockedAtLimit
<1>4. /\ itemFile' \in [PipKeys -> PipItem] /\ pipFaults' \in 0..MaxPipFaults
      /\ BlockedAtLimit' /\ BlockKept'
  BY <1>1, <1>2, <1>3, IndexWritten
<1>5. PipTypeOK'
  BY <1>1, <1>4 DEF PipInv, PipTypeOK
<1>6. PipBlockSurvives'
  BY DEF PipBlockSurvives
<1>7. QED BY <1>4, <1>5, <1>6 DEF PipInv

\* The build goes on, and no record changes.
LEMMA BuildGoes ==
  ASSUME PipInv,
         build' \in [pc: {"idle", "check", "download", "install", "record"}, key: PipKeys],
         build'.pc # "idle" => build'.key \notin blockTold,
         lock' \in [PipPacks -> Locks \cup {NoLock}], site' \in [PipPacks -> SUBSET Locks],
         UNCHANGED <<item, itemFile, barred, barredFile, blockTold, pipFaults>>
  PROVE  PipInv'
<1>1. PipTypeOK'
  BY DEF PipInv, PipTypeOK
<1>2. BlockedAtLimit' /\ BlockKept' /\ PipBlockSurvives'
  BY DEF PipInv, BlockedAtLimit, BlockKept, ByList, ByIndex, PipBlockSurvives
<1>3. QED BY <1>1, <1>2 DEF PipInv

LEMMA RejectKeeps ==
  ASSUME PipConstants, PipInv, NEW k \in PipKeys, RejectPip(k)
  PROVE  PipInv'
<1> DEFINE n == AtMost(item[k].rejects + 1)
           r == [status |-> IF n = RejectLimit THEN "blocked" ELSE "rejected", rejects |-> n]
<1>1. item[k].rejects \in 0..RejectLimit /\ RejectLimit \in Nat
  BY DEF PipInv, PipTypeOK, PipItem, PipConstants
<1>2. n \in 0..RejectLimit /\ (item[k].rejects = RejectLimit => n = RejectLimit)
  BY <1>1 DEF AtMost
<1>3. /\ r \in PipItem /\ r.rejects = n
      /\ n = RejectLimit => r.status = "blocked"
      /\ n # RejectLimit => r.status = "rejected"
  BY <1>2 DEF PipItem
<1>4. /\ build.pc = "idle" /\ item[k].status # "none" /\ item' = [item EXCEPT ![k] = r]
      /\ UNCHANGED <<lock, build, site>>
      /\ IF n = RejectLimit
         THEN /\ barred' = barred \cup {k}
              /\ \/ BarredSaved /\ ItemsSaved /\ blockTold' = blockTold \cup {k}
                 \/ BarredSaved /\ ItemsLost /\ UNCHANGED blockTold
                 \/ BarredLost /\ UNCHANGED <<itemFile, blockTold>>
         ELSE SaveItems /\ UNCHANGED <<barred, barredFile, blockTold>>
  BY DEF RejectPip
<1> HIDE DEF n, r
<1>5. item' \in [PipKeys -> PipItem] /\ \A j \in PipKeys : item'[j] = IF j = k THEN r ELSE item[j]
  BY <1>3, <1>4 DEF PipInv, PipTypeOK
<1>6. /\ blockTold \subseteq PipKeys /\ barred \subseteq PipKeys /\ barredFile \subseteq PipKeys
      /\ itemFile \in [PipKeys -> PipItem] /\ pipFaults \in 0..MaxPipFaults
  BY DEF PipInv, PipTypeOK
<1>7. k \in blockTold => n = RejectLimit
  <2>1. SUFFICES ASSUME k \in blockTold PROVE n = RejectLimit
    OBVIOUS
  <2>2. item[k].status = "blocked"
    BY <2>1, <1>4 DEF PipInv, BlockKept, ByList, ByIndex
  <2>3. QED BY <2>2, <1>2 DEF PipInv, BlockedAtLimit
<1>8. \A j \in PipKeys : item'[j].status = "blocked" => item'[j].rejects = RejectLimit
  BY <1>3, <1>5 DEF PipInv, BlockedAtLimit
<1>9. PipBlockSurvives'
  BY <1>4 DEF PipBlockSurvives
<1>10. CASE n # RejectLimit
  <2>1. SaveItems /\ UNCHANGED <<barred, barredFile, blockTold>>
    BY <1>4, <1>10
  <2>2. \A j \in blockTold : item'[j] = item[j]
    BY <1>5, <1>6, <1>7, <1>10
  <2>3. /\ itemFile' \in [PipKeys -> PipItem] /\ pipFaults' \in 0..MaxPipFaults
        /\ BlockedAtLimit' /\ BlockKept'
    BY <1>5, <1>8, <2>1, <2>2, IndexWritten
  <2>4. PipTypeOK'
    BY <1>4, <1>5, <2>1, <2>3 DEF PipInv, PipTypeOK
  <2>5. QED BY <1>9, <2>3, <2>4 DEF PipInv
<1>11. CASE n = RejectLimit /\ BarredSaved /\ ItemsSaved /\ blockTold' = blockTold \cup {k}
  <2>1. barred' = barred \cup {k} /\ barredFile' = barred' /\ itemFile' = item' /\ pipFaults' = pipFaults
    BY <1>4, <1>11 DEF BarredSaved, ItemsSaved
  <2>2. BlockedAtLimit'
    BY <1>8, <2>1 DEF BlockedAtLimit
  <2>3. (ByList => ByList') /\ (ByIndex => ByIndex')
    BY <1>3, <1>5, <1>6, <1>11, <2>1 DEF ByList, ByIndex
  <2>4. PipTypeOK'
    BY <1>4, <1>5, <1>6, <1>11, <2>1 DEF PipInv, PipTypeOK
  <2>5. BlockKept'
    BY <2>1, <2>3 DEF PipInv, BlockKept
  <2>6. QED BY <1>9, <2>2, <2>4, <2>5 DEF PipInv
<1>12. CASE n = RejectLimit /\ BarredSaved /\ ItemsLost /\ UNCHANGED blockTold
  <2>1. /\ barred' = barred \cup {k} /\ barredFile' = barred' /\ itemFile' \in {itemFile, NoItems}
        /\ pipFaults = 0 /\ pipFaults' # 0 /\ pipFaults' \in 0..MaxPipFaults
    BY <1>4, <1>12, OneFault DEF BarredSaved, ItemsLost, PipInv
  <2>2. ByList
    BY <2>1 DEF PipInv, BlockKept
  <2>3. ByList'
    BY <1>3, <1>5, <1>6, <1>12, <2>1, <2>2, NoItemsType DEF ByList
  <2>4. BlockedAtLimit'
    BY <1>8, <2>1, NoItemsType DEF PipInv, BlockedAtLimit
  <2>5. PipTypeOK'
    BY <1>4, <1>5, <1>6, <1>12, <2>1, NoItemsType DEF PipInv, PipTypeOK
  <2>6. BlockKept'
    BY <2>1, <2>3 DEF BlockKept
  <2>7. QED BY <1>9, <2>4, <2>5, <2>6 DEF PipInv
<1>13. CASE n = RejectLimit /\ BarredLost /\ UNCHANGED <<itemFile, blockTold>>
  <2>1. /\ barred' = barred \cup {k} /\ barredFile' \in {barredFile, {}}
        /\ pipFaults = 0 /\ pipFaults' # 0 /\ pipFaults' \in 0..MaxPipFaults
    BY <1>4, <1>13, OneFault DEF BarredLost, PipInv
  <2>2. ByIndex
    BY <2>1 DEF PipInv, BlockKept
  <2>3. ByIndex'
    BY <1>3, <1>5, <1>6, <1>13, <2>2 DEF ByIndex
  <2>4. BlockedAtLimit'
    BY <1>8, <1>13 DEF PipInv, BlockedAtLimit
  <2>5. PipTypeOK'
    BY <1>4, <1>5, <1>6, <1>13, <2>1 DEF PipInv, PipTypeOK
  <2>6. BlockKept'
    BY <2>1, <2>3 DEF BlockKept
  <2>7. QED BY <1>9, <2>4, <2>5, <2>6 DEF PipInv
<1>14. QED BY <1>4, <1>10, <1>11, <1>12, <1>13

LEMMA UnblockKeeps ==
  ASSUME PipConstants, PipInv, NEW k \in PipKeys, UnblockPip(k)
  PROVE  PipInv'
<1> DEFINE r == [status |-> "pending", rejects |-> 0]
<1>1. r \in PipItem /\ r.status = "pending"
  BY DEF PipItem, PipConstants
<1>2. /\ build.pc = "idle" /\ barred' = barred \ {k} /\ blockTold' = blockTold \ {k}
      /\ \/ /\ BarredSaved
            /\ IF item[k].status = "none" THEN UNCHANGED <<item, itemFile, pipFaults>>
                                          ELSE item' = [item EXCEPT ![k] = r] /\ SaveItems
         \/ BarredLost /\ UNCHANGED <<item, itemFile>>
      /\ UNCHANGED <<lock, build, site>>
  BY DEF UnblockPip
<1> HIDE DEF r
<1>3. /\ blockTold \subseteq PipKeys /\ barred \subseteq PipKeys /\ barredFile \subseteq PipKeys
      /\ item \in [PipKeys -> PipItem] /\ itemFile \in [PipKeys -> PipItem] /\ pipFaults \in 0..MaxPipFaults
  BY DEF PipInv, PipTypeOK
<1>4. PipBlockSurvives'
  BY <1>2 DEF PipBlockSurvives
<1>5. CASE BarredSaved /\ item[k].status = "none" /\ UNCHANGED <<item, itemFile, pipFaults>>
  <2>1. barredFile' = barred'
    BY <1>5 DEF BarredSaved
  <2>2. (ByList => ByList') /\ (ByIndex => ByIndex')
    BY <1>2, <1>5, <2>1 DEF ByList, ByIndex
  <2>3. BlockedAtLimit' /\ BlockKept'
    BY <1>5, <2>2 DEF PipInv, BlockedAtLimit, BlockKept
  <2>4. PipTypeOK'
    BY <1>2, <1>3, <1>5, <2>1 DEF PipInv, PipTypeOK
  <2>5. QED BY <1>4, <2>3, <2>4 DEF PipInv
<1>6. CASE BarredSaved /\ item' = [item EXCEPT ![k] = r] /\ SaveItems
  <2>1. /\ barredFile' = barred' /\ item' \in [PipKeys -> PipItem]
        /\ \A j \in PipKeys : item'[j] = IF j = k THEN r ELSE item[j]
    BY <1>1, <1>3, <1>6 DEF BarredSaved
  <2>2. \A j \in PipKeys : item'[j].status = "blocked" => item'[j].rejects = RejectLimit
    BY <1>1, <2>1 DEF PipInv, BlockedAtLimit
  <2>3. CASE ItemsSaved
    <3>1. itemFile' = item' /\ pipFaults' = pipFaults
      BY <2>3 DEF ItemsSaved
    <3>2. (ByList => ByList') /\ (ByIndex => ByIndex')
      BY <1>2, <1>3, <2>1, <3>1 DEF ByList, ByIndex
    <3>3. BlockedAtLimit' /\ BlockKept'
      BY <2>2, <3>1, <3>2 DEF PipInv, BlockedAtLimit, BlockKept
    <3>4. PipTypeOK'
      BY <1>2, <1>3, <2>1, <3>1 DEF PipInv, PipTypeOK
    <3>5. QED BY <1>4, <3>3, <3>4 DEF PipInv
  <2>4. CASE ItemsLost
    <3>1. /\ itemFile' \in {itemFile, NoItems} /\ pipFaults = 0 /\ pipFaults' # 0
          /\ pipFaults' \in 0..MaxPipFaults
      BY <2>4, OneFault DEF ItemsLost, PipInv
    <3>2. ByList
      BY <3>1 DEF PipInv, BlockKept
    <3>3. ByList'
      BY <1>2, <1>3, <2>1, <3>1, <3>2, NoItemsType DEF ByList
    <3>4. BlockedAtLimit'
      BY <2>2, <3>1, NoItemsType DEF PipInv, BlockedAtLimit
    <3>5. PipTypeOK'
      BY <1>2, <1>3, <2>1, <3>1, NoItemsType DEF PipInv, PipTypeOK
    <3>6. QED BY <1>4, <3>1, <3>3, <3>4, <3>5 DEF PipInv, BlockKept
  <2>5. QED BY <1>6, <2>3, <2>4 DEF SaveItems
<1>7. CASE BarredLost /\ UNCHANGED <<item, itemFile>>
  <2>1. /\ barredFile' \in {barredFile, {}} /\ pipFaults = 0 /\ pipFaults' # 0
        /\ pipFaults' \in 0..MaxPipFaults
    BY <1>7, OneFault DEF BarredLost, PipInv
  <2>2. ByIndex
    BY <2>1 DEF PipInv, BlockKept
  <2>3. ByIndex'
    BY <1>2, <1>7, <2>2 DEF ByIndex
  <2>4. BlockedAtLimit'
    BY <1>7 DEF PipInv, BlockedAtLimit
  <2>5. PipTypeOK'
    BY <1>2, <1>3, <1>7, <2>1 DEF PipInv, PipTypeOK
  <2>6. QED BY <1>4, <2>1, <2>3, <2>4, <2>5 DEF PipInv, BlockKept
<1>8. QED BY <1>2, <1>5, <1>6, <1>7

LEMMA PipSteps ==
  ASSUME PipConstants, PipInv, [PipNext]_pipVars
  PROVE  PipInv'
<1>0. /\ build \in [pc: {"idle", "check", "download", "install", "record"}, key: PipKeys]
      /\ lock \in [PipPacks -> Locks \cup {NoLock}] /\ site \in [PipPacks -> SUBSET Locks]
      /\ build.pc # "idle" => build.key \notin blockTold
      /\ build.key \in PipKeys
  BY DEF PipInv, PipTypeOK, PipBlockSurvives
<1>1. CASE UNCHANGED pipVars
  BY <1>0, <1>1, BuildGoes DEF pipVars
<1>2. ASSUME NEW p \in PipPacks, ScanPip(p) PROVE PipInv'
  <2> DEFINE k == <<p, lock[p]>>
  <2>1. k \in PipKeys
    BY <1>2 DEF ScanPip, PipKeys
  <2>2. Scannable(k) /\ item' = [item EXCEPT ![k].status = "pending"] /\ SaveItems
        /\ UNCHANGED <<lock, barred, barredFile, build, site, blockTold>>
    BY <1>2 DEF ScanPip
  <2> HIDE DEF k
  <2>3. k \notin blockTold
    BY <2>2, ToldIsOut
  <2>4. QED BY <1>0, <2>1, <2>2, <2>3, StatusGoes
<1>3. ASSUME NEW p \in PipPacks, NEW l \in Locks \cup {NoLock}, EditLock(p, l) PROVE PipInv'
  <2>1. lock' \in [PipPacks -> Locks \cup {NoLock}]
    BY <1>0, <1>3 DEF EditLock
  <2>2. QED BY <1>0, <1>3, <2>1, BuildGoes DEF EditLock
<1>4. \* The build of a candidate ends with it failed.
      ASSUME NEW k \in PipKeys, k \notin blockTold, PipFailed(k), SaveItems,
             UNCHANGED <<lock, barred, barredFile, site, blockTold>>
      PROVE  PipInv'
  <2>1. item' = [item EXCEPT ![k].status = "failed"]
    BY <1>4 DEF PipFailed
  <2>2. build' \in [pc: {"idle", "check", "download", "install", "record"}, key: PipKeys] /\ build'.pc = "idle"
    BY <1>0, <1>4 DEF PipFailed
  <2>3. QED BY <1>0, <1>4, <2>1, <2>2, StatusGoes
<1>5. ASSUME NEW k \in PipKeys, ApprovePip(k) PROVE PipInv'
  <2>1. k \notin blockTold
    BY <1>5, ToldIsOut DEF ApprovePip
  <2>2. UNCHANGED <<lock, barred, barredFile, site, blockTold>>
    BY <1>5 DEF ApprovePip
  <2>3. CASE build' = [pc |-> "check", key |-> k] /\ UNCHANGED <<item, itemFile, pipFaults>>
    <3>1. build' \in [pc: {"idle", "check", "download", "install", "record"}, key: PipKeys] /\ build'.key = k
      BY <2>3
    <3>2. QED BY <1>0, <2>1, <2>2, <2>3, <3>1, BuildGoes
  <2>4. CASE PipFailed(k) /\ SaveItems
    BY <1>4, <2>1, <2>2, <2>4
  <2>5. QED BY <1>5, <2>3, <2>4 DEF ApprovePip
<1>6. ASSUME NEW pc \in {"check", "download", "install"}, NEW next \in {"download", "install", "record"},
             BuildStep(pc, next), site' \in [PipPacks -> SUBSET Locks]
      PROVE  PipInv'
  <2>1. /\ build'.key = build.key /\ build.pc # "idle"
        /\ build' \in [pc: {"idle", "check", "download", "install", "record"}, key: PipKeys]
        /\ UNCHANGED <<lock, item, itemFile, barred, barredFile, blockTold, pipFaults>>
    BY <1>0, <1>6 DEF BuildStep
  <2>2. QED BY <1>0, <1>6, <2>1, BuildGoes
<1>7. CASE CheckLock \/ Download
  BY <1>0, <1>6, <1>7 DEF CheckLock, Download
<1>8. CASE InstallPackages
  <2>1. build.key[1] \in PipPacks
    BY <1>0 DEF PipKeys
  <2>2. /\ lock[build.key[1]] \in Locks /\ BuildStep("install", "record")
        /\ site' = [site EXCEPT ![build.key[1]] = @ \cup {lock[build.key[1]]}]
    BY <1>8 DEF InstallPackages
  <2>3. site' \in [PipPacks -> SUBSET Locks]
    BY <1>0, <2>1, <2>2
  <2>4. QED BY <1>6, <2>2, <2>3
<1>9. CASE FailBuild
  BY <1>0, <1>4, <1>9 DEF FailBuild
<1>10. CASE RecordInstall
  <2>1. /\ build.pc # "idle" /\ item' = [item EXCEPT ![build.key].status = "installed"] /\ SaveItems
        /\ build' \in [pc: {"idle", "check", "download", "install", "record"}, key: PipKeys] /\ build'.pc = "idle"
        /\ UNCHANGED <<lock, barred, barredFile, site, blockTold>>
    BY <1>0, <1>10 DEF RecordInstall, SaveItems
  <2>2. QED BY <1>0, <2>1, StatusGoes
<1>11. CASE RestartPip
  <2>1. /\ item' = itemFile /\ barred' = barredFile
        /\ build' \in [pc: {"idle", "check", "download", "install", "record"}, key: PipKeys] /\ build'.pc = "idle"
        /\ UNCHANGED <<lock, itemFile, barredFile, site, blockTold, pipFaults>>
    BY <1>0, <1>11 DEF RestartPip
  <2>2. PipTypeOK'
    BY <2>1 DEF PipInv, PipTypeOK
  <2>3. (ByList => ByList') /\ (ByIndex => ByIndex')
    BY <2>1 DEF ByList, ByIndex
  <2>4. BlockedAtLimit' /\ BlockKept' /\ PipBlockSurvives'
    BY <2>1, <2>3 DEF PipInv, BlockedAtLimit, BlockKept, PipBlockSurvives
  <2>5. QED BY <2>2, <2>4 DEF PipInv
<1>12. QED BY <1>1, <1>2, <1>3, <1>5, <1>7, <1>8, <1>9, <1>10, <1>11, RejectKeeps, UnblockKeeps DEF PipNext

\* A candidate whose block was reported is not built until it is unblocked,
\* whatever one failing write spoils: for any number of packs and locks, any
\* limit, and restarts at any time.
THEOREM PipBlocksSurvive == ASSUME PipConstants PROVE PipSpec => []PipBlockSurvives
<1>1. PipInv => PipBlockSurvives
  BY DEF PipInv
<1>2. QED BY <1>1, PipBegins, PipSteps, PTL DEF PipSpec

-----------------------------------------------------------------------------
(***************************************************************************)
(* LibExecutor.                                                            *)
(***************************************************************************)
\* While saves succeed the file says what the memory does; a lib whose install
\* was the last to run has its record, once it ran to its end.
InstallRecorded == libFaults = 0 =>
    /\ recordFile = records
    /\ \A p \in LibPacks : settled[p] = "install" /\ (libRun.type = "none" \/ libRun.pack # p) =>
          records[p].type = "install" /\ records[p].hash = libs[p].install
RunSettled == libRun.type # "none" => settled[libRun.pack] \in {"none", libRun.type}

LibInv == LibTypeOK /\ InstallRecorded /\ RunSettled /\ InstallsOnce

LEMMA NotRunningType == ASSUME LibConstants PROVE NotRunning \in Running /\ NotRunning.type = "none"
BY DEF LibConstants, NotRunning, Running

LEMMA NoRecordType == ASSUME LibConstants PROVE NoRecord \in LibRecord /\ NoRecord.type = "none"
BY DEF LibConstants, NoRecord, LibRecord, Content

LEMMA LibBegins == LibConstants /\ LibInit => LibInv
<1>1. SUFFICES ASSUME LibConstants, LibInit PROVE LibInv
  OBVIOUS
<1>2. records \in [LibPacks -> LibRecord]
  BY <1>1, NoRecordType DEF LibInit
<1>3. LibTypeOK
  BY <1>1, <1>2, NotRunningType DEF LibInit, LibTypeOK, LibConstants
<1>4. InstallRecorded /\ RunSettled /\ InstallsOnce
  BY <1>1, NotRunningType DEF LibInit, InstallRecorded, RunSettled, InstallsOnce
<1>5. QED BY <1>3, <1>4 DEF LibInv

LEMMA LibSteps ==
  ASSUME LibConstants, LibInv, [LibNext]_libVars
  PROVE  LibInv'
<1> USE DEF LibInv, LibTypeOK
<1>0. /\ libFaults \in Nat /\ MaxLibFaults \in Nat
      /\ \A q \in LibPacks : records[q] \in LibRecord /\ recordFile[q] \in LibRecord
  BY DEF LibConstants
<1>1. CASE UNCHANGED libVars \/ ProcessAll
  BY <1>1 DEF libVars, ProcessAll, InstallRecorded, RunSettled, InstallsOnce
<1>2. CASE RecordLib
  <2> DEFINE p == libRun.pack
             rec == [hash |-> IF libRun.type = "install" THEN libs[p].install ELSE libs[p].update, type |-> libRun.type]
  <2>1. p \in LibPacks /\ libRun.type \in {"install", "update"}
    BY <1>2 DEF RecordLib, Running
  <2>2. libs[p].install \in Content /\ libs[p].update \in Content
    BY <2>1
  <2>3. rec \in LibRecord /\ rec.type = libRun.type /\ (libRun.type = "install" => rec.hash = libs[p].install)
    BY <2>1, <2>2 DEF LibRecord
  <2>4. /\ records' = [records EXCEPT ![p] = rec] /\ libRun' = NotRunning
        /\ \/ recordFile' = records' /\ UNCHANGED libFaults
           \/ /\ libFaults < MaxLibFaults /\ libFaults' = libFaults + 1
              /\ recordFile' \in {recordFile, [q \in LibPacks |-> NoRecord]}
        /\ UNCHANGED <<libs, todo, again, settled>>
    BY <1>2 DEF RecordLib
  <2>5. settled[p] \in {"none", libRun.type}
    BY <1>2 DEF RecordLib, RunSettled
  <2>6. \A q \in LibPacks : q # p /\ settled[q] = "install" /\ libFaults = 0 =>
            records[q].type = "install" /\ records[q].hash = libs[q].install
    BY DEF InstallRecorded
  <2> HIDE DEF p, rec
  <2>7. LibTypeOK'
    BY <2>1, <2>3, <2>4, <1>0, NotRunningType, NoRecordType
  <2>8. InstallRecorded'
    <3>1. SUFFICES ASSUME libFaults' = 0 PROVE InstallRecorded'
      BY DEF InstallRecorded
    <3>2. libFaults = 0 /\ recordFile' = records'
      BY <3>1, <2>4, <1>0
    <3>3. \A q \in LibPacks : settled'[q] = "install" => records'[q].type = "install" /\ records'[q].hash = libs'[q].install
      BY <3>2, <2>1, <2>3, <2>4, <2>5, <2>6
    <3>4. QED BY <3>2, <3>3 DEF InstallRecorded
  <2>9. RunSettled' /\ InstallsOnce'
    BY <2>4, <1>0, NotRunningType DEF RunSettled, InstallsOnce
  <2>10. QED BY <2>7, <2>8, <2>9
<1>3. CASE RestartLibs
  <2>1. /\ records' = recordFile /\ todo' = {} /\ libRun' = NotRunning
        /\ settled' = IF libRun.type = "none" THEN settled ELSE [settled EXCEPT ![libRun.pack] = "none"]
        /\ UNCHANGED <<libs, recordFile, again, libFaults>>
    BY <1>3 DEF RestartLibs
  <2>2. libRun.pack \in LibPacks
    BY DEF Running
  <2>3. LibTypeOK'
    BY <2>1, <2>2, NotRunningType
  <2>4. InstallRecorded' /\ RunSettled' /\ InstallsOnce'
    BY <2>1, <2>2, NotRunningType DEF InstallRecorded, RunSettled, InstallsOnce
  <2>5. QED BY <2>3, <2>4
<1>4. SUFFICES ASSUME NEW p \in LibPacks, SkipLib(p) \/ RefuseLib(p) \/ RunLib(p) \/ ClearRecord(p) \/ ChangeLib(p)
             PROVE LibInv'
  BY <1>1, <1>2, <1>3 DEF LibNext
<1>5. CASE SkipLib(p) \/ RefuseLib(p)
  BY <1>5 DEF SkipLib, RefuseLib, InstallRecorded, RunSettled, InstallsOnce
<1>6. CASE RunLib(p)
  <2> DEFINE type == Needed(p)
             r == [pack |-> p, type |-> type]
  <2>1. type \in {"install", "update"}
    BY <1>6 DEF RunLib, Needed
  <2>2. r \in Running /\ r.pack = p /\ r.type = type
    BY <2>1 DEF Running
  <2>3. /\ libRun.type = "none" /\ todo' = todo \ {p} /\ libRun' = r
        /\ again' = IF settled[p] = "install" /\ type = "install" THEN again \cup {p} ELSE again
        /\ settled' = [settled EXCEPT ![p] = type]
        /\ UNCHANGED <<libs, records, recordFile, libFaults>>
    BY <1>6 DEF RunLib
  <2>4. libFaults = 0 /\ settled[p] = "install" => type # "install"
    <3>1. SUFFICES ASSUME libFaults = 0, settled[p] = "install" PROVE ~NeedsInstall(p)
      BY DEF Needed
    <3>2. records[p].type = "install" /\ records[p].hash = libs[p].install
      BY <3>1, <2>3 DEF InstallRecorded
    <3>3. records[p] # NoRecord
      BY <3>2, NoRecordType
    <3>4. QED BY <3>2, <3>3 DEF NeedsInstall
  <2> HIDE DEF type, r
  <2>5. LibTypeOK'
    BY <2>1, <2>2, <2>3
  <2>6. InstallRecorded' /\ RunSettled'
    BY <2>1, <2>2, <2>3 DEF InstallRecorded, RunSettled
  <2>7. InstallsOnce'
    BY <2>3, <2>4 DEF InstallsOnce
  <2>8. QED BY <2>5, <2>6, <2>7
<1>7. CASE ClearRecord(p)
  BY <1>7, NoRecordType DEF ClearRecord, InstallRecorded, RunSettled, InstallsOnce
<1>8. CASE ChangeLib(p)
  <2>1. PICK l \in [install: Content, update: Content] : libs' = [libs EXCEPT ![p] = l]
    BY <1>8 DEF ChangeLib
  <2>2. settled' = [settled EXCEPT ![p] = "none"] /\ UNCHANGED <<records, recordFile, todo, libRun, again, libFaults>>
    BY <1>8 DEF ChangeLib
  <2>3. LibTypeOK'
    BY <2>1, <2>2
  <2>4. InstallRecorded' /\ RunSettled' /\ InstallsOnce'
    BY <2>1, <2>2 DEF InstallRecorded, RunSettled, InstallsOnce
  <2>5. QED BY <2>3, <2>4
<1>9. QED BY <1>4, <1>5, <1>6, <1>7, <1>8

\* A start runs the install of a pack again only where something changed, or a
\* record was lost: for any number of packs, contents and restarts.
THEOREM InstallsAreOnce == ASSUME LibConstants PROVE LibSpec => []InstallsOnce
<1>1. LibInv => InstallsOnce
  BY DEF LibInv
<1>2. QED BY <1>1, LibBegins, LibSteps, PTL DEF LibSpec

-----------------------------------------------------------------------------
(***************************************************************************)
(* SecretsStore.                                                           *)
(***************************************************************************)
\* Until a key is lost the one in memory is the one in the file ...
OneKey == ~keyLost => keyUsed \in {NoKey, keyFile}

\* ... what was promised is encrypted with that key or may be read as it is, ...
PromisesHeld == ~keyLost => \A n \in Names : promised[n] \in Texts =>
    /\ vault[n].is \in {"plain", "cipher"} /\ vault[n].text = promised[n]
    /\ vault[n].is = "cipher" => vault[n].key = keyFile /\ keyFile # NoKey
    /\ vault[n].is = "plain" => PlaintextAllowed

\* ... and what was deleted is a tombstone; a file has a text or is one.
Deleted == \A n \in Names : promised[n] = Nothing => vault[n].is = "deleted"
HasText == \A n \in Names : vault[n].is \in {"plain", "cipher"} => vault[n].text \in Texts

SecretInv == SecretTypeOK /\ OneKey /\ PromisesHeld /\ Deleted /\ HasText

\* What is known of the keys and the faults.
KeysTyped ==
    /\ keyFile \in 0..keysMade /\ keyUsed \in 0..keysMade /\ keysMade \in 0..MaxKeys
    /\ secretFaults \in 0..MaxSecretFaults
KeysKept == UNCHANGED <<keyFile, keyUsed, keysMade>>

LEMMA FaultCounted ==
  ASSUME SecretConstants, KeysTyped, SecretFault, KeysKept
  PROVE  KeysTyped'
BY DEF SecretConstants, KeysTyped, SecretFault, KeysKept

\* What making the key ready leaves: a key, and the same one while none is lost.
LEMMA KeyIsReady ==
  ASSUME SecretConstants, KeysTyped, OneKey, keyLost \in BOOLEAN, KeyReady
  PROVE  /\ keyUsed' \in 0..MaxKeys /\ keyUsed' # NoKey
         /\ KeysTyped' /\ keyLost' \in BOOLEAN
         /\ ~keyLost' => ~keyLost /\ keyUsed' = keyFile' /\ (keyFile # NoKey => keyFile' = keyFile)
<1> USE DEF SecretConstants, KeysTyped, NoKey, SecretFine
<1>1. CASE keyUsed # NoKey /\ UNCHANGED <<keyUsed, keyFile, keysMade, keyLost>> /\ SecretFine
  <2>1. ~keyLost => keyUsed = keyFile
    BY <1>1 DEF OneKey
  <2>2. UNCHANGED <<keyUsed, keyFile, keysMade, keyLost, secretFaults>> /\ keyUsed # NoKey
    BY <1>1
  <2>3. keyUsed' \in 0..MaxKeys /\ keyUsed' # NoKey /\ KeysTyped'
    BY <2>2
  <2>4. QED BY <2>1, <2>2, <2>3
<1>2. CASE keyUsed = NoKey /\ keyFile # NoKey /\ keyUsed' = keyFile /\ UNCHANGED <<keyFile, keysMade, keyLost>> /\ SecretFine
  <2>1. keyUsed' \in 0..MaxKeys /\ keyUsed' # NoKey /\ KeysTyped'
    BY <1>2
  <2>2. QED BY <2>1, <1>2
<1>3. ASSUME NEW saved \in BOOLEAN, NEW gone \in BOOLEAN, NewKey(saved, gone)
      PROVE  /\ keyUsed' \in 0..MaxKeys /\ keyUsed' # NoKey
             /\ keyFile' \in 0..keysMade' /\ keyUsed' \in 0..keysMade' /\ keysMade' \in 0..MaxKeys
  BY <1>3 DEF NewKey
<1>4. CASE keyUsed = NoKey /\ keyFile = NoKey /\ NewKey(TRUE, FALSE) /\ SecretFine
  <2>1. keyUsed' = keyFile' /\ keyFile = NoKey /\ secretFaults' = secretFaults
    BY <1>4 DEF NewKey
  <2>2. keyLost' = keyLost
    BY <1>4 DEF NewKey
  <2>3. keyUsed' # NoKey /\ keyUsed' \in 0..MaxKeys /\ KeysTyped'
    BY <1>3, <1>4, <2>1
  <2>4. QED BY <2>1, <2>2, <2>3
<1>5. CASE keyUsed = NoKey /\ NewKey(keyFile # NoKey, TRUE) /\ SecretFault
  <2>1. keyLost' = TRUE
    BY <1>5 DEF NewKey
  <2>2. secretFaults' \in 0..MaxSecretFaults
    BY <1>5 DEF SecretFault
  <2>3. keyUsed' # NoKey /\ keyUsed' \in 0..MaxKeys /\ KeysTyped'
    <3>1. (keyFile # NoKey) \in BOOLEAN
      OBVIOUS
    <3>2. QED BY <1>3, <1>5, <2>2, <3>1
  <2>4. QED BY <2>1, <2>3
<1>6. QED BY <1>1, <1>2, <1>4, <1>5 DEF KeyReady

LEMMA SecretBegins == SecretConstants /\ SecretInit => SecretInv
<1>1. SUFFICES ASSUME SecretConstants, SecretInit PROVE SecretInv
  OBVIOUS
<1>2. Absent \in Entry /\ Absent.is = "absent"
  BY <1>1 DEF Absent, Entry, SecretConstants, NoKey
<1>3. SecretTypeOK
  <2>1. vault \in [Names -> Entry] /\ promised \in [Names -> Texts \cup {Nothing, Unknown}]
    BY <1>1, <1>2 DEF SecretInit
  <2>2. KeysTyped
    <3>1. keyFile = 0 /\ keyUsed = 0 /\ keysMade = 0 /\ secretFaults = 0 /\ MaxKeys \in Nat /\ MaxSecretFaults \in Nat
      BY <1>1 DEF SecretInit, SecretConstants, NoKey
    <3>2. QED BY <3>1 DEF KeysTyped
  <2>3. QED BY <1>1, <2>1, <2>2 DEF SecretInit, SecretTypeOK, KeysTyped
<1>4. OneKey /\ Deleted /\ HasText
  BY <1>1, <1>2 DEF SecretInit, OneKey, Deleted, HasText, Nothing, Unknown
<1>5. PromisesHeld
  BY <1>1 DEF SecretInit, PromisesHeld, SecretConstants
<1>6. QED BY <1>3, <1>4, <1>5 DEF SecretInv

\* One secret gets a file and a promise that agree.
LEMMA OneSecretMoves ==
  ASSUME SecretConstants, SecretInv, NEW n \in Names, NEW e \in Entry, NEW v \in Texts \cup {Nothing, Unknown},
         vault' = [vault EXCEPT ![n] = e], promised' = [promised EXCEPT ![n] = v],
         UNCHANGED policy, marker' \in BOOLEAN, marker' # marker => AllEncrypted(vault'),
         KeysTyped', keyLost' \in BOOLEAN,
         OneKey', ~keyLost' => ~keyLost /\ (keyFile # NoKey => keyFile' = keyFile),
         e.is \in {"plain", "cipher"} => e.text \in Texts,
         v = Nothing => e.is = "deleted",
         v \in Texts /\ ~keyLost' =>
             /\ e.is \in {"plain", "cipher"} /\ e.text = v
             /\ e.is = "cipher" => e.key = keyFile' /\ keyFile' # NoKey
             /\ e.is = "plain" => PlaintextAllowed'
  PROVE  SecretInv'
<1>1. /\ \A m \in Names : vault'[m] = IF m = n THEN e ELSE vault[m]
      /\ \A m \in Names : promised'[m] = IF m = n THEN v ELSE promised[m]
      /\ vault' \in [Names -> Entry] /\ promised' \in [Names -> Texts \cup {Nothing, Unknown}]
  BY DEF SecretInv, SecretTypeOK
<1>2. SecretTypeOK'
  BY <1>1 DEF SecretInv, SecretTypeOK, KeysTyped
<1>3. Deleted' /\ HasText'
  BY <1>1 DEF SecretInv, Deleted, HasText
<1>4. PromisesHeld'
  <2>1. SUFFICES ASSUME ~keyLost', NEW m \in Names, promised'[m] \in Texts
        PROVE /\ vault'[m].is \in {"plain", "cipher"} /\ vault'[m].text = promised'[m]
              /\ vault'[m].is = "cipher" => vault'[m].key = keyFile' /\ keyFile' # NoKey
              /\ vault'[m].is = "plain" => PlaintextAllowed'
    BY DEF PromisesHeld
  <2>2. CASE m = n
    <3>1. vault'[m] = e /\ promised'[m] = v /\ v \in Texts
      BY <2>1, <2>2, <1>1
    <3>2. QED BY <2>1, <3>1
  <2>3. CASE m # n
    <3>1. /\ vault[m].is \in {"plain", "cipher"} /\ vault[m].text = promised[m]
          /\ vault[m].is = "cipher" => vault[m].key = keyFile /\ keyFile # NoKey
          /\ vault[m].is = "plain" => PlaintextAllowed
      BY <2>1, <2>3, <1>1 DEF SecretInv, PromisesHeld
    <3>2. vault[m].is = "plain" => marker' = marker
      BY <1>1, <2>3 DEF AllEncrypted
    <3>3. vault[m].is = "plain" => PlaintextAllowed'
      BY <3>1, <3>2 DEF PlaintextAllowed
    <3>4. QED BY <3>1, <3>3, <2>1, <2>3, <1>1
  <2>4. QED BY <2>2, <2>3
<1>5. QED BY <1>2, <1>3, <1>4 DEF SecretInv

LEMMA SecretSteps ==
  ASSUME SecretConstants, SecretInv, [SecretNext]_secretVars
  PROVE  SecretInv'
<1>0. /\ KeysTyped /\ OneKey /\ keyLost \in BOOLEAN /\ marker \in BOOLEAN /\ vault \in [Names -> Entry]
      /\ Nothing \notin Texts /\ Unknown \notin Texts /\ Nothing # Unknown
      /\ \A n \in Names : vault[n] \in Entry /\ promised[n] \in Texts \cup {Nothing, Unknown}
  BY DEF SecretInv, SecretTypeOK, KeysTyped, SecretConstants, Nothing, Unknown
<1>1. CASE UNCHANGED secretVars
  BY <1>1 DEF secretVars, SecretInv, SecretTypeOK, OneKey, PromisesHeld, Deleted, HasText, PlaintextAllowed
<1>2. CASE RestartSecrets
  <2>1. /\ keyUsed' = NoKey /\ UNCHANGED <<policy, vault, keyFile, keysMade, promised, keyLost, secretFaults>>
        /\ marker' \in BOOLEAN /\ (marker' = marker \/ AllEncrypted(vault))
    BY <1>0, <1>2 DEF RestartSecrets
  <2>2. SecretTypeOK' /\ OneKey'
    <3>1. keyUsed' \in 0..keysMade
      BY <2>1, <1>0 DEF KeysTyped, NoKey
    <3>2. QED BY <2>1, <3>1 DEF SecretInv, SecretTypeOK, OneKey
  <2>3. Deleted' /\ HasText'
    BY <2>1 DEF SecretInv, Deleted, HasText
  <2>4. PromisesHeld'
    BY <2>1 DEF SecretInv, PromisesHeld, PlaintextAllowed, AllEncrypted
  <2>5. QED BY <2>2, <2>3, <2>4 DEF SecretInv
<1>3. ASSUME NEW n \in Names, NEW v \in Texts, SetSecret(n, v) PROVE SecretInv'
  <2>1. /\ KeyReady /\ vault' = [vault EXCEPT ![n] = Cipher(v, keyUsed')]
        /\ promised' = [promised EXCEPT ![n] = v] /\ UNCHANGED <<policy, marker>>
    BY <1>3 DEF SetSecret
  <2> DEFINE e == Cipher(v, keyUsed')
  <2>2. e \in Entry /\ e.is = "cipher" /\ e.text = v /\ e.key = keyUsed'
    BY <2>1, <1>0, KeyIsReady DEF Cipher, Entry
  <2> HIDE DEF e
  <2>3. marker' \in BOOLEAN /\ OneKey'
    BY <2>1, <1>0, KeyIsReady DEF OneKey
  <2>4. v \in Texts \cup {Nothing, Unknown} /\ v # Nothing
    BY <1>0
  <2>5. /\ KeysTyped' /\ keyLost' \in BOOLEAN /\ UNCHANGED marker
        /\ ~keyLost' => ~keyLost /\ (keyFile # NoKey => keyFile' = keyFile)
        /\ ~keyLost' => e.key = keyFile' /\ keyFile' # NoKey
    BY <2>1, <2>2, <1>0, KeyIsReady
  <2>6. vault' = [vault EXCEPT ![n] = e] /\ promised' = [promised EXCEPT ![n] = v] /\ UNCHANGED policy
    BY <2>1 DEF e
  <2>7. QED BY <2>2, <2>3, <2>4, <2>5, <2>6, OneSecretMoves
<1>4. ASSUME NEW n \in Names, NEW v \in Texts, PutPlain(n, v) PROVE SecretInv'
  <2> DEFINE e == Plain(v)
  <2>1. /\ vault' = [vault EXCEPT ![n] = e] /\ promised' = [promised EXCEPT ![n] = Unknown]
        /\ UNCHANGED <<policy, keyFile, keyUsed, keysMade, marker, keyLost, secretFaults>>
    BY <1>4 DEF PutPlain
  <2>2. e \in Entry /\ e.is = "plain" /\ e.text = v
    BY DEF Plain, Entry, NoKey, SecretConstants
  <2> HIDE DEF e
  <2>3. marker' \in BOOLEAN /\ OneKey' /\ keyLost' \in BOOLEAN /\ KeysTyped'
    BY <2>1, <1>0 DEF KeysTyped, OneKey
  <2>4. QED BY <2>1, <2>2, <2>3, <1>0, OneSecretMoves
<1>5. ASSUME NEW n \in Names, SetFails(n) PROVE SecretInv'
  <2>1. UNCHANGED <<policy, vault, keyFile, keyUsed, keysMade, marker, promised, keyLost>> /\ SecretFault
    BY <1>5 DEF SetFails
  <2>2. secretFaults' \in 0..MaxSecretFaults
    BY <2>1, <1>0, FaultCounted DEF KeysTyped, KeysKept
  <2>3. QED BY <2>1, <2>2 DEF SecretInv, SecretTypeOK, OneKey, PromisesHeld, Deleted, HasText, PlaintextAllowed
<1>6. ASSUME NEW n \in Names, DeleteSecret(n) PROVE SecretInv'
  <2> DEFINE e == Tombstone
  <2>1. /\ vault' = [vault EXCEPT ![n] = e] /\ promised' = [promised EXCEPT ![n] = Nothing]
        /\ UNCHANGED <<policy, keyFile, keyUsed, keysMade, marker, keyLost, secretFaults>>
    BY <1>6 DEF DeleteSecret
  <2>2. e \in Entry /\ e.is = "deleted"
    BY DEF Tombstone, Entry, NoKey, SecretConstants
  <2> HIDE DEF e
  <2>3. marker' \in BOOLEAN /\ OneKey' /\ keyLost' \in BOOLEAN /\ KeysTyped'
    BY <2>1, <1>0 DEF KeysTyped, OneKey
  <2>4. QED BY <2>1, <2>2, <2>3, <1>0, OneSecretMoves
<1>7. ASSUME NEW n \in Names, ReadCipher(n) PROVE SecretInv'
  <2> DEFINE e == vault[n]
             v == IF vault[n].key = keyUsed' THEN vault[n].text ELSE promised[n]
  <2>1. /\ e.is = "cipher" /\ KeyReady /\ promised' = [promised EXCEPT ![n] = v] /\ UNCHANGED <<policy, vault, marker>>
    BY <1>7 DEF ReadCipher
  <2>2. vault' = [vault EXCEPT ![n] = e]
    BY <2>1, <1>0
  <2>3. e \in Entry /\ e.text \in Texts
    BY <2>1, <1>0 DEF SecretInv, HasText
  <2>4. v \in Texts \cup {Nothing, Unknown} /\ v # Nothing
    BY <2>1, <2>3, <1>0 DEF SecretInv, Deleted
  <2>5. /\ KeysTyped' /\ keyLost' \in BOOLEAN /\ OneKey' /\ marker' \in BOOLEAN
        /\ ~keyLost' => ~keyLost /\ (keyFile # NoKey => keyFile' = keyFile)
    BY <2>1, <1>0, KeyIsReady DEF OneKey
  <2>6. v \in Texts /\ ~keyLost' => e.text = v /\ e.key = keyFile' /\ keyFile' # NoKey
    <3>1. SUFFICES ASSUME v \in Texts, ~keyLost' PROVE e.text = v /\ e.key = keyFile' /\ keyFile' # NoKey
      OBVIOUS
    <3>2. ~keyLost /\ keyUsed' = keyFile' /\ keyUsed' # NoKey /\ (keyFile # NoKey => keyFile' = keyFile)
      BY <3>1, <2>1, <1>0, KeyIsReady
    <3>3. CASE vault[n].key = keyUsed'
      BY <3>2, <3>3
    <3>4. CASE vault[n].key # keyUsed'
      <4>1. promised[n] \in Texts
        BY <3>1, <3>4
      <4>2. vault[n].key = keyFile /\ keyFile # NoKey
        BY <3>2, <4>1, <2>1 DEF SecretInv, PromisesHeld
      <4>3. QED BY <3>2, <3>4, <4>2
    <3>5. QED BY <3>3, <3>4
  <2> HIDE DEF e, v
  <2>7. QED BY <2>1, <2>2, <2>3, <2>4, <2>5, <2>6, OneSecretMoves
<1>8. ASSUME NEW n \in Names, ReadPlain(n) PROVE SecretInv'
  <2> DEFINE v == vault[n].text
  <2>1. vault[n].is = "plain" /\ PlaintextAllowed /\ promised' = [promised EXCEPT ![n] = v] /\ UNCHANGED policy
    BY <1>8 DEF ReadPlain
  <2>2. v \in Texts /\ v # Nothing /\ v \in Texts \cup {Nothing, Unknown}
    BY <2>1, <1>0 DEF SecretInv, HasText
  <2>3. CASE /\ KeyReady /\ vault' = [vault EXCEPT ![n] = Cipher(v, keyUsed')]
             /\ marker' = (marker \/ (AutoPolicy /\ AllEncrypted(vault')))
    <3> DEFINE e == Cipher(v, keyUsed')
    <3>1. e \in Entry /\ e.is = "cipher" /\ e.text = v /\ e.key = keyUsed'
      BY <2>2, <2>3, <1>0, KeyIsReady DEF Cipher, Entry
    <3> HIDE DEF e, v
    <3>2. marker' \in BOOLEAN /\ OneKey' /\ (marker' # marker => AllEncrypted(vault'))
      BY <2>3, <1>0, KeyIsReady DEF OneKey
    <3>3. vault' = [vault EXCEPT ![n] = e]
      BY <2>3 DEF e
    <3>4. QED BY <2>1, <2>2, <2>3, <3>1, <3>2, <3>3, <1>0, KeyIsReady, OneSecretMoves
  <2>4. CASE keyUsed # NoKey /\ SecretFault /\ UNCHANGED <<vault, marker, keyFile, keyUsed, keysMade, keyLost>>
    <3> DEFINE e == vault[n]
    <3>1. vault' = [vault EXCEPT ![n] = e] /\ e \in Entry
      BY <2>4, <1>0
    <3>2. KeysTyped' /\ keyLost' \in BOOLEAN /\ OneKey' /\ marker' \in BOOLEAN
      <4>1. KeysTyped'
        BY <2>4, <1>0, FaultCounted DEF KeysKept
      <4>2. QED BY <2>4, <1>0, <4>1 DEF OneKey
    <3>3. PlaintextAllowed'
      BY <2>1, <2>4 DEF PlaintextAllowed
    <3>4. e.is = "plain" /\ e.text = v
      BY <2>1
    <3> HIDE DEF e, v
    <3>5. QED BY <2>1, <2>2, <2>4, <3>1, <3>2, <3>3, <3>4, OneSecretMoves
  <2>5. \/ /\ KeyReady /\ vault' = [vault EXCEPT ![n] = Cipher(v, keyUsed')]
           /\ marker' = (marker \/ (AutoPolicy /\ AllEncrypted(vault')))
        \/ keyUsed # NoKey /\ SecretFault /\ UNCHANGED <<vault, marker, keyFile, keyUsed, keysMade, keyLost>>
    BY <1>8 DEF ReadPlain
  <2>6. QED BY <2>3, <2>4, <2>5
<1>9. QED BY <1>1, <1>2, <1>3, <1>4, <1>5, <1>6, <1>7, <1>8 DEF SecretNext

\* A secret is read as it was set until it is set or deleted again, or the key
\* is lost: for any number of secrets, and however long it takes.
THEOREM SecretsAreKept == ASSUME SecretConstants PROVE SecretSpec => []SecretsKept
<1>1. SecretConstants /\ SecretInv => SecretsKept
  <2>1. SUFFICES ASSUME SecretConstants, SecretInv, NEW n \in Names
               PROVE /\ promised[n] \in Texts /\ ~keyLost => Readable(n) = promised[n]
                     /\ promised[n] = Nothing => Readable(n) = Nothing
    BY DEF SecretsKept
  <2>2. ASSUME promised[n] \in Texts, ~keyLost PROVE Readable(n) = promised[n]
    <3>1. /\ vault[n].is \in {"plain", "cipher"} /\ vault[n].text = promised[n]
          /\ vault[n].is = "cipher" => vault[n].key = keyFile /\ keyFile # NoKey
          /\ vault[n].is = "plain" => PlaintextAllowed
      BY <2>1, <2>2 DEF SecretInv, PromisesHeld
    <3>2. keyUsed \in {NoKey, keyFile}
      BY <2>1, <2>2 DEF SecretInv, OneKey
    <3>3. QED BY <3>1, <3>2 DEF Readable
  <2>3. ASSUME promised[n] = Nothing PROVE Readable(n) = Nothing
    BY <2>1, <2>3 DEF SecretInv, Deleted, Readable
  <2>4. QED BY <2>2, <2>3
<1>2. QED BY <1>1, SecretBegins, SecretSteps, PTL DEF SecretSpec

-----------------------------------------------------------------------------
(***************************************************************************)
(* UnitExecution.                                                          *)
(***************************************************************************)
\* What the list in memory names was named by the file since it was read and,
\* unless an edit was missed, still is named as long as the mtime is the same ...
Listing == {"loaded", "reloaded"}
ListNamed ==
    /\ autoReload /\ call.pc # "idle" => NamedBy(named) \subseteq naming
    /\ NamedBy(trusted) \subseteq listed
    /\ ~missed /\ (~dated \/ call.pc \in Listing) => NamedBy(trusted) \subseteq NamedBy(named)
    /\ autoReload /\ ~missed /\ call.pc = "match" => NamedBy(trusted) \subseteq naming

\* ... and so was what was hashed, and what was read again is the same.
Vetted(c) == c \in listed /\ (autoReload /\ ~missed => c \in naming)
HashNamed ==
    /\ call.pc \in {"trust", "loaded", "asked", "reloaded", "match"} => call.sha \in Codes
    /\ call.pc = "read" => Vetted(call.sha)
    /\ call.pc \in {"exec", "run"} /\ Executable(call.meta) => Vetted(call.copy)
    /\ call.pc = "run" => Executable(call.meta)
    /\ call.pc \in {"gate", "hash"} => call.at \in Slots

UnitInv == UnitTypeOK /\ ListNamed /\ HashNamed

\* The index names the first of the directories: there is one.
LEMMA FirstIsThere ==
  ASSUME NEW D \in SUBSET Nat, D # {}
  PROVE  First(D) \in D
BY LeastIsThere DEF First

LEMMA UnitBegins == UnitConstants /\ UnitInit => UnitInv
<1>1. SUFFICES ASSUME UnitConstants, UnitInit PROVE UnitInv
  OBVIOUS
<1>2. NoExec \in Execution /\ NoExec.pc = "idle"
  BY DEF NoExec, Execution, NoUnit
<1>3. UnitTypeOK
  BY <1>1, <1>2 DEF UnitInit, UnitTypeOK
<1>4. NamedBy(trusted) = {}
  BY <1>1 DEF UnitInit, UnitConstants, NamedBy
<1>5. QED BY <1>1, <1>2, <1>3, <1>4 DEF UnitInit, UnitInv, ListNamed, HashNamed

\* The execution goes on with what it knows so far, and the rest is as it was.
LEMMA CallGoes ==
  ASSUME UnitInv, NEW e \in Execution, call' = e, temps' \in BOOLEAN, temps' => e.pc = "run",
         UNCHANGED <<autoReload, slot, listVars>>, indexed' = indexed, naming' = naming,
         call.pc # "idle", e.pc \notin Listing \cup {"asked", "match"},
         e.pc = "trust" => e.sha \in Codes,
         e.pc = "read" => Vetted(e.sha),
         e.pc \in {"exec", "run"} /\ Executable(e.meta) => Vetted(e.copy),
         e.pc = "run" => Executable(e.meta),
         e.pc \in {"gate", "hash"} => e.at \in Slots
  PROVE  UnitInv'
<1>1. UnitTypeOK'
  BY DEF UnitInv, UnitTypeOK, listVars
<1>2. ListNamed'
  BY DEF UnitInv, ListNamed, NamedBy, listVars
<1>3. HashNamed'
  BY DEF HashNamed, Vetted, listVars, Listing
<1>4. QED BY <1>1, <1>2, <1>3 DEF UnitInv

LEMMA EndGoes ==
  ASSUME UnitInv, EndCall, UNCHANGED <<autoReload, slot, listVars>>, indexed' = indexed, naming' = naming,
         call.pc # "idle"
  PROVE  UnitInv'
<1>1. NoExec \in Execution /\ NoExec.pc = "idle"
  BY DEF NoExec, Execution, NoUnit
<1>2. QED BY <1>1, CallGoes DEF EndCall, Listing

LEMMA UnitSteps ==
  ASSUME UnitConstants, UnitInv, [UnitNext]_unitVars
  PROVE  UnitInv'
<1>0. /\ UnitTypeOK /\ ListNamed /\ HashNamed
      /\ call \in Execution /\ NoExec \in Execution /\ NoExec.pc = "idle"
      /\ NoCode \notin Codes /\ TornList \notin Codes /\ NotLoaded \notin Codes
      /\ There \subseteq Slots /\ Slots \subseteq Nat \ {0}
  BY DEF UnitInv, UnitTypeOK, UnitConstants, There, NoExec, Execution, NoUnit
<1>1. CASE UNCHANGED unitVars
  BY <1>1 DEF unitVars, listVars, UnitInv, UnitTypeOK, ListNamed, HashNamed, Vetted
<1>2. \* The files are edited.
      ASSUME NEW s \in [Slots -> Unit \cup {NoUnit}], NEW i \in Slots \cup {NoSlot, NoIndex},
             slot' = s, indexed' = i, UNCHANGED <<autoReload, listVars, call, temps, naming>>
      PROVE  UnitInv'
  BY <1>2 DEF UnitInv, UnitTypeOK, ListNamed, HashNamed, Vetted, listVars
<1>3. ASSUME NEW d \in Slots, NEW u \in Unit \cup {NoUnit}, EditSlot(d, u) PROVE UnitInv'
  <2>1. [slot EXCEPT ![d] = u] \in [Slots -> Unit \cup {NoUnit}] /\ indexed \in Slots \cup {NoSlot, NoIndex}
    BY <1>0 DEF UnitTypeOK
  <2>2. QED BY <1>2, <1>3, <2>1 DEF EditSlot
<1>4. ASSUME NEW d \in Slots, NEW u \in Offered, NEW works \in BOOLEAN, PublishUnit(d, u, works) PROVE UnitInv'
  <2> DEFINE p == IF works THEN u ELSE [u EXCEPT !.code = NoCode]
  <2>1. u \in Unit /\ p \in Unit
    BY DEF UnitConstants, Unit
  <2> HIDE DEF p
  <2>2. slot' = [slot EXCEPT ![d] = p] /\ indexed' \in {NoIndex, indexed}
        /\ UNCHANGED <<autoReload, listVars, call, temps, naming>>
    BY <1>4 DEF PublishUnit, p
  <2>3. [slot EXCEPT ![d] = p] \in [Slots -> Unit \cup {NoUnit}] /\ indexed' \in Slots \cup {NoSlot, NoIndex}
    BY <1>0, <2>1, <2>2 DEF UnitTypeOK
  <2>4. QED BY <1>2, <2>2, <2>3
<1>5. CASE ListUnits
  <2>1. indexed' \in Slots \cup {NoSlot, NoIndex}
    BY <1>0, <1>5, FirstIsThere DEF ListUnits
  <2>2. slot' = slot /\ slot \in [Slots -> Unit \cup {NoUnit}] /\ UNCHANGED <<autoReload, listVars, call, temps, naming>>
    BY <1>0, <1>5 DEF ListUnits, UnitTypeOK
  <2>3. QED BY <1>2, <2>1, <2>2
<1>6. ASSUME NEW c \in Codes \cup {NoCode, TornList}, NEW differs \in BOOLEAN, EditTrust(c, differs) PROVE UnitInv'
  <2>1. /\ named' = c /\ dated' = differs /\ naming' = naming \cup NamedBy(c) /\ listed' = listed \cup NamedBy(c)
        /\ missed' = (missed \/ ~differs \/ call.pc \in Listing)
        /\ UNCHANGED <<autoReload, slot, indexed, trusted, call, temps>>
    BY <1>6 DEF EditTrust, Listing
  <2>2. NamedBy(c) \subseteq Codes
    BY DEF NamedBy
  <2>3. UnitTypeOK'
    <3>1. missed' \in BOOLEAN
      BY <2>1
    <3>2. QED BY <1>0, <2>1, <2>2, <3>1 DEF UnitTypeOK
  <2>4. ListNamed'
    BY <1>0, <2>1 DEF ListNamed, NamedBy
  <2>5. HashNamed'
    BY <1>0, <2>1 DEF HashNamed, Vetted
  <2>6. QED BY <2>3, <2>4, <2>5 DEF UnitInv
<1>7. ASSUME NEW mode \in {"host_capability", "sandbox"}, SubmitUnit(mode) PROVE UnitInv'
  <2> DEFINE e == [NoExec EXCEPT !.pc = "resolve", !.mode = mode]
  <2>1. e \in Execution /\ e.pc = "resolve"
    BY DEF NoExec, Execution, NoUnit
  <2>2. call' = e /\ naming' = NamedBy(named) /\ call.pc = "idle"
        /\ UNCHANGED <<autoReload, slot, named, trusted, dated, listed, missed, indexed, temps>>
    BY <1>7 DEF SubmitUnit, Only, At, listVars
  <2> HIDE DEF e
  <2>3. UnitTypeOK'
    BY <1>0, <2>1, <2>2 DEF UnitTypeOK, NamedBy
  <2>4. ListNamed' /\ HashNamed'
    BY <1>0, <2>1, <2>2 DEF ListNamed, HashNamed, NamedBy, Listing
  <2>5. QED BY <2>3, <2>4 DEF UnitInv
<1>8. CASE Resolve
  <2>1. call.pc = "resolve" /\ UNCHANGED <<autoReload, slot, listVars, indexed, naming>>
    BY <1>8 DEF Resolve, Only, At
  <2>2. CASE Resolved = NoSlot /\ EndCall
    BY <2>1, <2>2, EndGoes, <1>0
  <2>3. CASE Resolved # NoSlot /\ call' = [call EXCEPT !.pc = "gate", !.at = Resolved, !.meta = slot[Resolved]] /\ UNCHANGED temps
    <3> DEFINE e == [call EXCEPT !.pc = "gate", !.at = Resolved, !.meta = slot[Resolved]]
    <3>1. Resolved \in Slots
      BY <2>3, <1>0, FirstIsThere DEF Resolved, First
    <3>2. slot[Resolved] \in Unit \cup {NoUnit}
      BY <3>1, <1>0 DEF UnitTypeOK
    <3>3. e \in Execution /\ e.pc = "gate"
      BY <3>1, <3>2, <1>0 DEF Execution
    <3>4. call' = e /\ temps' \in BOOLEAN /\ ~temps' /\ e.at \in Slots
      BY <2>1, <2>3, <3>1, <1>0 DEF UnitTypeOK, Execution
    <3> HIDE DEF e
    <3>5. QED BY <2>1, <3>3, <3>4, <1>0, CallGoes DEF Listing
  <2>4. QED BY <1>8, <2>2, <2>3 DEF Resolve
<1>9. \* What a step of the execution without a change of place or content leaves.
      ASSUME NEW pc \in {"hash", "exec", "run", "read"}, Go(pc)
      PROVE  /\ call' \in Execution /\ call'.pc = pc
             /\ call'.sha = call.sha /\ call'.copy = call.copy /\ call'.meta = call.meta /\ call'.at = call.at
  BY <1>9, <1>0 DEF Go, Execution
<1>10. CASE Gate
  <2>1. call.pc = "gate" /\ UNCHANGED <<autoReload, slot, listVars, indexed, naming>>
    BY <1>10 DEF Gate, Only, At
  <2>2. CASE EndCall
    BY <2>1, <2>2, EndGoes, <1>0
  <2>3. CASE Go(IF Executable(call.meta) THEN "hash" ELSE "exec") /\ UNCHANGED temps
    <3>1. temps' \in BOOLEAN /\ ~temps'
      BY <2>1, <2>3, <1>0 DEF UnitTypeOK
    <3>2. CASE Executable(call.meta) /\ Go("hash")
      <4>1. call.at \in Slots
        BY <2>1, <1>0 DEF HashNamed
      <4>2. call' \in Execution /\ call'.pc = "hash" /\ call'.at \in Slots
        BY <3>2, <4>1, <1>9
      <4>3. "hash" \notin Listing \cup {"asked", "match", "trust", "read", "exec", "run"}
        BY DEF Listing
      <4>4. PICK e \in Execution : call' = e /\ e.pc = "hash" /\ e.at \in Slots
        BY <4>2
      <4>5. QED BY <1>0, <2>1, <3>1, <4>3, <4>4, CallGoes
    <3>3. CASE ~Executable(call.meta) /\ Go("exec")
      <4>1. "exec" \notin Listing \cup {"asked", "match", "trust", "read", "gate", "hash", "run"}
        BY DEF Listing
      <4>2. PICK e \in Execution : call' = e /\ e.pc = "exec" /\ ~Executable(e.meta)
        BY <3>3, <1>9
      <4>3. QED BY <1>0, <2>1, <3>1, <4>1, <4>2, CallGoes
    <3>4. QED BY <2>3, <3>2, <3>3
  <2>4. QED BY <1>10, <2>2, <2>3 DEF Gate
<1>11. CASE HashEntrypoint
  <2>1. call.pc = "hash" /\ UNCHANGED <<autoReload, slot, listVars, indexed, naming>>
    BY <1>11 DEF HashEntrypoint, Only, At
  <2>2. CASE EndCall
    BY <2>1, <2>2, EndGoes, <1>0
  <2>3. CASE ReadCode # NoCode /\ call' = [call EXCEPT !.pc = "trust", !.sha = ReadCode] /\ UNCHANGED temps
    <3> DEFINE e == [call EXCEPT !.pc = "trust", !.sha = ReadCode]
    <3>1. ReadCode \in Codes
      <4>1. slot[call.at] \in Unit \cup {NoUnit}
        BY <2>1, <1>0 DEF UnitTypeOK, HashNamed
      <4>2. \A u \in Unit : u.code \in Codes \cup {NoCode}
        BY Zenon DEF Unit
      <4>3. NoUnit.code = NoCode
        BY DEF NoUnit
      <4>4. ReadCode \in Codes \cup {NoCode}
        BY <4>1, <4>2, <4>3 DEF ReadCode
      <4>5. QED BY <4>4, <2>3
    <3>2. e \in Execution /\ e.pc = "trust" /\ e.sha \in Codes
      BY <3>1, <1>0 DEF Execution
    <3>3. call' = e /\ temps' \in BOOLEAN /\ ~temps'
      BY <2>1, <2>3, <1>0 DEF UnitTypeOK
    <3> HIDE DEF e
    <3>4. QED BY <2>1, <3>2, <3>3, <1>0, CallGoes DEF Listing
  <2>4. QED BY <1>11, <2>2, <2>3 DEF HashEntrypoint
<1>12. \* The list is read.
       ASSUME NEW pc \in {"asked", "loaded", "match", "reloaded"}, Go(pc), ReadList, UNCHANGED <<autoReload, slot, named>>,
              call.pc \in {"trust", "asked"},
              List = NotLoaded \/ pc \in Listing
       PROVE  UnitInv'
  <2>1. /\ trusted' = List /\ listed' = NamedBy(named) /\ missed' = FALSE
        /\ UNCHANGED <<autoReload, slot, named, indexed, dated, temps, naming>>
    BY <1>12 DEF ReadList
  <2>2. List \in Codes \cup {NoCode, NotLoaded} /\ NamedBy(List) \subseteq NamedBy(named) /\ NamedBy(named) \subseteq Codes
    BY <1>0 DEF List, UnitTypeOK, NamedBy
  <2>3. call' = [call EXCEPT !.pc = pc]
    BY <1>12 DEF Go
  <2>4. call' \in Execution /\ call'.pc = pc /\ call'.sha = call.sha /\ call.sha \in Codes
    BY <1>12, <2>3, <1>0 DEF Execution, HashNamed
  <2>5. UnitTypeOK'
    BY <1>0, <1>12, <2>1, <2>2, <2>4 DEF UnitTypeOK
  <2>6. ListNamed'
    <3>1. NamedBy(NotLoaded) = {}
      BY <1>0 DEF NamedBy
    <3>2. pc = "match" => List = NotLoaded
      BY <1>12 DEF Listing
    <3>3. autoReload => NamedBy(named) \subseteq naming
      BY <1>0, <1>12 DEF ListNamed
    <3>4. QED BY <2>1, <2>2, <2>4, <3>1, <3>2, <3>3 DEF ListNamed, NamedBy
  <2>7. HashNamed'
    BY <2>4 DEF HashNamed
  <2>8. QED BY <2>5, <2>6, <2>7 DEF UnitInv
<1>load. CASE LoadTrust \/ ReloadTrust
  <2>1. /\ ReadList /\ UNCHANGED <<autoReload, slot, named>> /\ call.pc \in {"trust", "asked"}
        /\ \/ List = NotLoaded /\ (Go("asked") \/ Go("match"))
           \/ Go("loaded") \/ Go("reloaded")
    BY <1>load DEF LoadTrust, ReloadTrust, At
  <2>2. QED BY <2>1, <1>12 DEF Listing
<1>date. CASE DateTrust
  <2> DEFINE pc == IF call.pc = "loaded" THEN "asked" ELSE "match"
  <2>1. /\ call.pc \in Listing /\ dated' = FALSE /\ call' = [call EXCEPT !.pc = pc]
        /\ UNCHANGED <<autoReload, slot, named, indexed, trusted, listed, missed, temps, naming>>
    BY <1>date DEF DateTrust, Go, At, Listing
  <2>2. call' \in Execution /\ call'.pc = pc /\ call'.sha = call.sha /\ call.sha \in Codes
    BY <2>1, <1>0 DEF Execution, HashNamed, Listing
  <2>3. UnitTypeOK'
    BY <1>0, <2>1, <2>2 DEF UnitTypeOK, Listing
  <2>4. ListNamed'
    <3>1. autoReload => NamedBy(named) \subseteq naming
      BY <1>0, <2>1 DEF ListNamed, Listing
    <3>2. NamedBy(trusted) \subseteq listed /\ (~missed => NamedBy(trusted) \subseteq NamedBy(named))
      BY <1>0, <2>1 DEF ListNamed
    <3>3. QED BY <2>1, <3>1, <3>2 DEF ListNamed, NamedBy
  <2>5. HashNamed'
    BY <2>2 DEF HashNamed
  <2>6. QED BY <2>3, <2>4, <2>5 DEF UnitInv
<1>trust. CASE TrustUnit
  <2>1. /\ call.pc \in {"trust", "asked", "match"} /\ UNCHANGED <<autoReload, slot, listVars, indexed, naming>>
        /\ call.pc = "match" \/ (call.pc \in {"asked", "trust"} /\ ~(autoReload /\ dated))
        /\ (trusted = call.sha /\ Go("read") /\ UNCHANGED temps) \/ EndCall
    BY <1>trust DEF TrustUnit, Asked, Reloads, At
  <2>2. CASE EndCall
    BY <2>1, <2>2, EndGoes, <1>0
  <2>3. CASE trusted = call.sha /\ Go("read") /\ UNCHANGED temps
    <3>1. call.sha \in Codes /\ temps' \in BOOLEAN /\ ~temps'
      BY <2>1, <2>3, <1>0 DEF HashNamed, UnitTypeOK
    <3>2. NamedBy(trusted) = {call.sha}
      BY <2>3, <3>1 DEF NamedBy
    <3>3. Vetted(call.sha)
      BY <2>1, <3>2, <1>0 DEF Vetted, ListNamed
    <3>4. QED BY <2>1, <2>3, <3>1, <3>3, <1>9, CallGoes DEF Listing
  <2>4. QED BY <2>1, <2>2, <2>3
<1>13. CASE ReadEntrypoint
  <2>1. call.pc = "read" /\ UNCHANGED <<autoReload, slot, listVars, indexed, naming>>
    BY <1>13 DEF ReadEntrypoint, Only, At
  <2>2. CASE EndCall
    BY <2>1, <2>2, EndGoes, <1>0
  <2>3. CASE ReadCode = call.sha /\ call' = [call EXCEPT !.pc = "exec", !.copy = ReadCode] /\ UNCHANGED temps
    <3> DEFINE e == [call EXCEPT !.pc = "exec", !.copy = call.sha]
    <3>1. Vetted(call.sha) /\ call.sha \in Codes
      BY <2>1, <1>0 DEF HashNamed, UnitTypeOK, Vetted
    <3>2. e \in Execution /\ e.pc = "exec" /\ Vetted(e.copy)
      BY <3>1, <1>0 DEF Execution
    <3>3. call' = e /\ temps' \in BOOLEAN /\ ~temps'
      BY <2>1, <2>3, <1>0 DEF UnitTypeOK
    <3> HIDE DEF e
    <3>4. QED BY <2>1, <3>2, <3>3, <1>0, CallGoes DEF Listing
  <2>4. QED BY <1>13, <2>2, <2>3 DEF ReadEntrypoint
<1>14. CASE NoHost \/ EndUnit
  <2>1. call.pc # "idle" /\ EndCall /\ UNCHANGED <<autoReload, slot, listVars, indexed, naming>>
    BY <1>14 DEF NoHost, EndUnit, Only, At
  <2>2. QED BY <2>1, EndGoes, <1>0
<1>15. CASE StartPython \/ StartBinary
  <2>1. /\ call.pc = "exec" /\ UNCHANGED <<autoReload, slot, listVars, indexed, naming>>
        /\ Executable(call.meta) /\ ((Go("run") /\ temps' = TRUE) \/ EndCall)
    BY <1>15 DEF StartPython, StartBinary, HostStart, Only, At, Executable
  <2>2. CASE EndCall
    BY <2>1, <2>2, EndGoes, <1>0
  <2>3. CASE Go("run") /\ temps' = TRUE
    <3>1. Vetted(call.copy)
      BY <2>1, <1>0 DEF HashNamed
    <3>2. QED BY <2>1, <2>3, <3>1, <1>9, CallGoes DEF Listing
  <2>4. QED BY <2>1, <2>2, <2>3
<1>16. CASE RestartUnits
  <2>1. /\ indexed' = NoIndex /\ trusted' = NotLoaded /\ dated' = TRUE /\ call' = NoExec /\ temps' = FALSE
        /\ UNCHANGED <<autoReload, slot, named, naming, listed, missed>>
    BY <1>16 DEF RestartUnits, EndCall
  <2>2. UnitTypeOK'
    BY <2>1, <1>0 DEF UnitTypeOK
  <2>3. ListNamed' /\ HashNamed'
    BY <2>1, <1>0 DEF ListNamed, HashNamed, NamedBy, Listing
  <2>4. QED BY <2>2, <2>3 DEF UnitInv
<1>17. \A d \in Slots : NoUnit \in Unit \cup {NoUnit} /\ Offered \subseteq Unit
  BY DEF UnitConstants
<1>18. QED BY <1>1, <1>3, <1>4, <1>5, <1>6, <1>7, <1>8, <1>10, <1>11, <1>load, <1>date, <1>trust, <1>13, <1>14, <1>15, <1>16, <1>17 DEF UnitNext

\* Code runs on the host only when the trust file has named it since the list was
\* read and, with reloading and no edit that the mtimes hid, since the call began,
\* whatever is published and edited between the checks: for any number of
\* directories, units and codes (unit_executor.py, unit_trust_store.py).
THEOREM UnitRunsAreVetted == ASSUME UnitConstants PROVE UnitSpec => []UnitRunsVetted
<1>1. UnitInv => UnitRunsVetted
  BY DEF UnitInv, HashNamed, UnitRunsVetted, Vetted
<1>2. QED BY <1>1, UnitBegins, UnitSteps, PTL DEF UnitSpec

-----------------------------------------------------------------------------
(***************************************************************************)
(* SharedDict.  Resolution follows the redirects of a dictionary whose     *)
(* rules may change while it walks, and comes to an end because they       *)
(* never have a cycle.                                                     *)
(***************************************************************************)
\* The walk of a resolution so far, as long as no rule has changed under it.
Walked(w, r) ==
    /\ w[0] = r.token /\ w[r.hops] = r.at /\ Follows(w, r.hops)
    /\ r.visited = {w[i] : i \in 0..r.hops - 1}
OnItsWay(r) == r.calm /\ r.pc = "hop" => \E w \in Walks(r.hops) : Walked(w, r)
Arrived(r) == r.calm /\ r.pc = "found" =>
    /\ rules[r.at] = NoRule
    /\ \E n \in 0..MaxHops : \E w \in Walks(n) : w[0] = r.token /\ Follows(w, n) /\ w[n] = r.at

DictInv ==
    /\ DictTypeOK
    /\ Acyclic(rules) /\ Acyclic(snapshotFile)
    /\ OnItsWay(resolution) /\ Arrived(resolution)
    /\ resolution.calm => resolution.pc # "cycle"

LEMMA NoRulesAcyclic == ASSUME DictConstants PROVE Acyclic(NoRules)
BY DEF DictConstants, Acyclic, NoRules, NoRule

\* Fewer rules make no cycle.
LEMMA RemovalAcyclic ==
  ASSUME DictConstants, NEW r \in [Tokens -> Tokens \cup {NoRule}], Acyclic(r), NEW t \in Tokens
  PROVE  Acyclic([r EXCEPT ![t] = NoRule])
<1>1. SUFFICES ASSUME NEW S \in SUBSET Tokens, S # {}
               PROVE  \E x \in S : [r EXCEPT ![t] = NoRule][x] \notin S
  BY DEF Acyclic
<1>2. PICK x \in S : r[x] \notin S
  BY <1>1 DEF Acyclic
<1>3. NoRule \notin S
  BY DEF DictConstants, NoRule
<1>4. [r EXCEPT ![t] = NoRule][x] \notin S
  BY <1>2, <1>3
<1>5. QED BY <1>4

\* A set that rules lead out of nowhere keeps a walk that enters it, unless the
\* walk comes by a token whose rule is another one.
LEMMA WalkStays ==
  ASSUME NEW S, NEW n \in Nat, NEW w \in Walks(n), NEW t, w[0] \in S, Follows(w, n),
         \A i \in 0..n : w[i] # t,
         \A x \in S : x # t => rules[x] \in S
  PROVE  w[n] \in S
<1> DEFINE Out == {i \in 0..n : w[i] \notin S}
           Less == OpToRel(<, Nat)
<1>1. \A d, e \in Nat : ~(<<e, d>> \in Less) => d <= e
  BY DEF OpToRel
<1>2. IsWellFoundedOn(Less, Nat)
  BY NatLessThanWellFounded
<1>3. Out \subseteq Nat
  OBVIOUS
<1> HIDE DEF Less
<1>4. ASSUME Out # {} PROVE FALSE
  <2>1. PICK k \in Out : \A e \in Out : ~(<<e, k>> \in Less)
    BY <1>2, <1>3, <1>4, WFMin
  <2>2. \A e \in Out : k <= e
    BY <1>1, <1>3, <2>1
  <2>3. k # 0 /\ k \in 1..n /\ k - 1 \in 0..n
    BY <2>1
  <2>4. w[k - 1] \in S
    BY <2>2, <2>3
  <2>5. w[k] = rules[w[k - 1]]
    BY <2>3 DEF Follows
  <2>6. QED BY <2>1, <2>3, <2>4, <2>5
<1>5. n \in 0..n
  OBVIOUS
<1>6. QED BY <1>4, <1>5

\* What _check_cycle lets through closes no cycle.
LEMMA AdditionAcyclic ==
  ASSUME DictConstants, rules \in [Tokens -> Tokens \cup {NoRule}], Acyclic(rules),
         NEW t \in Tokens, NEW v \in Tokens, Clear(t, v)
  PROVE  Acyclic([rules EXCEPT ![t] = v])
<1> DEFINE new == [rules EXCEPT ![t] = v]
<1>1. SUFFICES ASSUME NEW S \in SUBSET Tokens, S # {}, \A x \in S : new[x] \in S
               PROVE  FALSE
  BY DEF Acyclic
<1>2. PICK x \in S : rules[x] \notin S
  BY <1>1 DEF Acyclic
<1>3. t \in S /\ v \in S
  BY <1>1, <1>2
<1>4. PICK n \in 0..CheckHops - 1 : \E w \in Walks(n) :
             /\ w[0] = v /\ Follows(w, n) /\ rules[w[n]] = NoRule
             /\ \A i \in 0..n : w[i] # t
  BY DEF Clear
<1>5. PICK w \in Walks(n) : /\ w[0] = v /\ Follows(w, n) /\ rules[w[n]] = NoRule
                            /\ \A i \in 0..n : w[i] # t
  BY <1>4
<1>6. \A y \in S : y # t => rules[y] \in S
  BY <1>1
<1>7. n \in Nat
  BY DEF DictConstants
<1>8. w[n] \in S
  BY <1>3, <1>5, <1>6, <1>7, WalkStays
<1>9. w[n] # t
  BY <1>5, <1>7
<1>10. NoRule \in S
  BY <1>5, <1>6, <1>8, <1>9
<1>11. QED BY <1>10 DEF DictConstants, NoRule

\* A walk never comes back to where it was.
LEMMA NoWalkReturns ==
  ASSUME Acyclic(rules), NEW r, r.hops \in Nat, NEW w \in Walks(r.hops), Walked(w, r), r.at \in r.visited
  PROVE  FALSE
<1> DEFINE S == {w[i] : i \in 0..r.hops - 1}
<1>1. r.at \in S /\ S \subseteq Tokens
  BY DEF Walked, Walks
<1>2. PICK x \in S : rules[x] \notin S
  BY <1>1 DEF Acyclic
<1>3. PICK i \in 0..r.hops - 1 : x = w[i]
  OBVIOUS
<1>4. i + 1 \in 1..r.hops /\ (i + 1) - 1 = i
  BY <1>3
<1>5. rules[x] = w[i + 1]
  BY <1>3, <1>4 DEF Walked, Follows
<1>6. CASE i + 1 = r.hops
  BY <1>1, <1>2, <1>5, <1>6 DEF Walked
<1>7. CASE i + 1 \in 0..r.hops - 1
  BY <1>2, <1>5, <1>7
<1>8. QED BY <1>4, <1>6, <1>7

LEMMA DictBegins == ASSUME DictConstants PROVE DictInit => DictInv
<1>1. SUFFICES ASSUME DictInit PROVE DictInv
  OBVIOUS
<1>2. DictTypeOK
  <2>1. (CHOOSE t \in Tokens : TRUE) \in Tokens
    BY DEF DictConstants
  <2>2. 0 \in 0..MaxHops /\ 0 \in 0..MaxDictFaults
    BY DEF DictConstants
  <2>3. QED BY <1>1, <2>1, <2>2 DEF DictInit, DictTypeOK, NoRules, NoResolution, Resolution
<1>3. resolution.pc = "idle"
  BY <1>1 DEF DictInit, NoResolution
<1>4. QED BY <1>1, <1>2, <1>3, NoRulesAcyclic DEF DictInv, DictInit, OnItsWay, Arrived

\* Every change of the rules ends what is known of a resolution under way.
LEMMA ChangeKeeps ==
  ASSUME DictConstants, DictInv, NEW new \in [Tokens -> Tokens \cup {NoRule}], Acyclic(new),
         NEW entry \in [Tokens -> Tokens \cup {NoRule}], Change(new, entry)
  PROVE  DictInv'
<1>1. DictTypeOK
  BY DEF DictInv
<1>2. NoRules \in [Tokens -> Tokens \cup {NoRule}] /\ Acyclic(NoRules)
  BY NoRulesAcyclic DEF NoRules
<1>3. rules' = new /\ snapshotFile' \in {new, snapshotFile, NoRules} /\ journal' \in {entry, journal}
  BY DEF Change, DictFine
<1>4. dictFaults' \in 0..MaxDictFaults
  BY <1>1 DEF Change, DictFine, DictFault, DictTypeOK, DictConstants
<1>5. resolution' \in Resolution /\ ~resolution'.calm
  BY <1>1 DEF Change, DictTypeOK, Resolution
<1>6. DictTypeOK'
  BY <1>1, <1>2, <1>3, <1>4, <1>5 DEF DictTypeOK
<1>7. Acyclic(rules)' /\ Acyclic(snapshotFile)'
  BY <1>2, <1>3 DEF DictInv, Acyclic
<1>8. QED BY <1>5, <1>6, <1>7 DEF DictInv, OnItsWay, Arrived

LEMMA EndsTyped ==
  ASSUME DictConstants, resolution \in Resolution, NEW pc \in {"found", "cycle", "hops"}, Ends(pc)
  PROVE  /\ resolution' \in Resolution
         /\ resolution'.pc = pc /\ resolution'.calm = resolution.calm
         /\ resolution'.at = resolution.at /\ resolution'.token = resolution.token
<1>1. resolution' = [resolution EXCEPT !.pc = pc, !.visited = {}, !.hops = 0]
  BY DEF Ends
<1>2. 0 \in 0..MaxHops /\ {} \in SUBSET Tokens
  BY DEF DictConstants
<1>3. QED BY <1>1, <1>2 DEF Resolution

LEMMA HopKeeps == ASSUME DictConstants, DictInv, Hop PROVE DictInv'
<1> DEFINE r == resolution
<1>1. DictTypeOK /\ r \in Resolution /\ r.hops \in 0..MaxHops /\ MaxHops \in Nat
  BY DEF DictInv, DictTypeOK, Resolution, DictConstants
<1>2. r.pc = "hop" /\ UNCHANGED <<rules, snapshotFile, journal, dictFaults>>
  BY DEF Hop
<1>3. UNCHANGED <<Acyclic(rules), Acyclic(snapshotFile)>>
  BY <1>2 DEF Acyclic
<1>4. \A n : Walks(n)' = Walks(n)
  BY DEF Walks
<1>5. \A w, n : Follows(w, n)' = Follows(w, n)
  BY <1>2 DEF Follows
<1>6. CASE r.hops = MaxHops /\ Ends("hops")
  <2>1. resolution' \in Resolution /\ resolution'.pc = "hops"
    BY <1>1, <1>6, EndsTyped
  <2>2. QED BY <1>1, <1>2, <1>3, <2>1 DEF DictInv, DictTypeOK, OnItsWay, Arrived
<1>7. CASE r.at \in r.visited /\ Ends("cycle")
  <2>1. resolution' \in Resolution /\ resolution'.pc = "cycle" /\ resolution'.calm = r.calm
    BY <1>1, <1>7, EndsTyped
  <2>2. ~r.calm
    BY <1>1, <1>2, <1>7, NoWalkReturns DEF DictInv, OnItsWay
  <2>3. QED BY <1>1, <1>2, <1>3, <2>1, <2>2 DEF DictInv, DictTypeOK, OnItsWay, Arrived
<1>8. CASE r.hops < MaxHops /\ rules[r.at] = NoRule /\ Ends("found")
  <2>1. /\ resolution' \in Resolution /\ resolution'.pc = "found" /\ resolution'.calm = r.calm
        /\ resolution'.at = r.at /\ resolution'.token = r.token
    BY <1>1, <1>8, EndsTyped
  <2>2. ASSUME r.calm PROVE Arrived(resolution)'
    <3>1. PICK w \in Walks(r.hops) : Walked(w, r)
      BY <1>2, <2>2 DEF DictInv, OnItsWay
    <3>2. w[0] = r.token /\ Follows(w, r.hops) /\ w[r.hops] = r.at
      BY <3>1 DEF Walked
    <3>3. QED BY <1>1, <1>2, <1>4, <1>5, <1>8, <2>1, <3>2 DEF Arrived
  <2>3. Arrived(resolution)'
    BY <2>1, <2>2 DEF Arrived
  <2>4. QED BY <1>1, <1>2, <1>3, <2>1, <2>3 DEF DictInv, DictTypeOK, OnItsWay
<1>9. CASE /\ r.hops < MaxHops /\ r.at \notin r.visited /\ rules[r.at] # NoRule
           /\ resolution' = [r EXCEPT !.at = rules[r.at], !.visited = @ \cup {r.at}, !.hops = @ + 1]
  <2>1. rules[r.at] \in Tokens
    BY <1>1, <1>9 DEF DictTypeOK, Resolution
  <2>2. resolution' \in Resolution
    <3>1. r.hops + 1 \in 0..MaxHops /\ r.visited \cup {r.at} \in SUBSET Tokens
      BY <1>1, <1>9 DEF Resolution
    <3>2. QED BY <1>1, <1>9, <2>1, <3>1 DEF Resolution
  <2>3. /\ resolution'.pc = "hop" /\ resolution'.calm = r.calm /\ resolution'.token = r.token
        /\ resolution'.at = rules[r.at] /\ resolution'.visited = r.visited \cup {r.at}
        /\ resolution'.hops = r.hops + 1
    BY <1>1, <1>2, <1>9 DEF Resolution
  <2>4. ASSUME r.calm PROVE \E u \in Walks(r.hops + 1) : Walked(u, resolution)'
    <3>1. PICK w \in Walks(r.hops) : Walked(w, r)
      BY <1>2, <2>4 DEF DictInv, OnItsWay
    <3>2. /\ \A i \in 0..r.hops : i # r.hops + 1 /\ i \in 0..r.hops + 1 /\ (i - 1 \in 0..r.hops \/ i = 0)
          /\ 0 \in 0..r.hops /\ r.hops + 1 \in 0..r.hops + 1 /\ (r.hops + 1) - 1 = r.hops
          /\ r.hops \in 0..r.hops
          /\ \A i \in 1..r.hops + 1 : i \in 1..r.hops \/ i = r.hops + 1
          /\ \A i \in 1..r.hops : i \in 0..r.hops /\ i - 1 \in 0..r.hops
          /\ 0..(r.hops + 1) - 1 = 0..r.hops /\ 0..r.hops = (0..r.hops - 1) \cup {r.hops}
      BY <1>1
    <3>3. PICK u \in Walks(r.hops + 1) : (\A i \in 0..r.hops : u[i] = w[i]) /\ u[r.hops + 1] = rules[r.at]
      <4> DEFINE longer == [i \in 0..r.hops + 1 |-> IF i = r.hops + 1 THEN rules[r.at] ELSE w[i]]
      <4>1. \A i \in 0..r.hops + 1 : i = r.hops + 1 \/ i \in 0..r.hops
        BY <1>1
      <4>2. longer \in Walks(r.hops + 1)
        BY <2>1, <3>1, <4>1 DEF Walks
      <4>3. (\A i \in 0..r.hops : longer[i] = w[i]) /\ longer[r.hops + 1] = rules[r.at]
        BY <3>2
      <4> HIDE DEF longer
      <4>4. QED BY <4>2, <4>3
    <3>6. Follows(u, r.hops + 1)
      <4>1. SUFFICES ASSUME NEW i \in 1..r.hops + 1 PROVE u[i] = rules[u[i - 1]]
        BY DEF Follows
      <4>2. CASE i \in 1..r.hops
        BY <3>1, <3>2, <3>3, <4>2 DEF Walked, Follows
      <4>3. CASE i = r.hops + 1
        BY <3>1, <3>2, <3>3, <4>3 DEF Walked
      <4>4. QED BY <3>2, <4>2, <4>3
    <3>7. resolution'.visited = {u[i] : i \in 0..resolution'.hops - 1}
      <4>1. r.at = w[r.hops] /\ r.visited = {w[i] : i \in 0..r.hops - 1}
        BY <3>1 DEF Walked
      <4>2. resolution'.visited = {w[i] : i \in 0..r.hops}
        BY <2>3, <3>2, <4>1
      <4>3. {w[i] : i \in 0..r.hops} = {u[i] : i \in 0..r.hops}
        BY <3>3
      <4>4. QED BY <2>3, <3>2, <4>2, <4>3
    <3>8. Walked(u, resolution)'
      <4>1. u[0] = r.token
        BY <3>1, <3>2, <3>3 DEF Walked
      <4>2. Follows(u, resolution.hops)'
        BY <1>2, <2>3, <3>6 DEF Follows
      <4>3. QED BY <2>3, <3>3, <3>7, <4>1, <4>2 DEF Walked
    <3>9. QED BY <3>3, <3>8
  <2>5. OnItsWay(resolution)'
    BY <1>4, <2>3, <2>4 DEF OnItsWay
  <2>6. QED BY <1>1, <1>2, <1>3, <2>2, <2>3, <2>5 DEF DictInv, DictTypeOK, Arrived
<1>10. QED BY <1>1, <1>6, <1>7, <1>8, <1>9 DEF Hop

LEMMA BeginResolveKeeps ==
  ASSUME DictConstants, DictInv, NEW t \in Tokens, BeginResolve(t)
  PROVE  DictInv'
<1>1. DictTypeOK
  BY DEF DictInv
<1>2. UNCHANGED <<rules, snapshotFile, journal, dictFaults>>
  BY DEF BeginResolve
<1>3. /\ resolution'.pc = "hop" /\ resolution'.token = t /\ resolution'.at = t
      /\ resolution'.hops = 0 /\ resolution'.visited = {}
  BY DEF BeginResolve, NoResolution
<1>4. resolution' \in Resolution
  <2>1. 0 \in 0..MaxHops
    BY DEF DictConstants
  <2>2. QED BY <2>1 DEF BeginResolve, NoResolution, Resolution
<1> DEFINE w == [i \in 0..0 |-> t]
<1>5. w \in Walks(0) /\ w[0] = t
  BY DEF Walks
<1>6. {w[i] : i \in 0..0 - 1} = {} /\ Follows(w, 0)'
  BY DEF Follows
<1> HIDE DEF w
<1>7. OnItsWay(resolution)'
  <2>1. Walked(w, resolution)'
    BY <1>3, <1>5, <1>6 DEF Walked
  <2>2. w \in Walks(resolution.hops)'
    BY <1>3, <1>5 DEF Walks
  <2>3. QED BY <2>1, <2>2 DEF OnItsWay
<1>8. QED BY <1>1, <1>2, <1>3, <1>4, <1>7 DEF DictInv, DictTypeOK, Acyclic, Arrived

LEMMA DictSteps == ASSUME DictConstants PROVE DictInv /\ [DictNext]_dictVars => DictInv'
<1>1. SUFFICES ASSUME DictInv, [DictNext]_dictVars PROVE DictInv'
  OBVIOUS
<1>2. DictTypeOK /\ Acyclic(rules) /\ Acyclic(snapshotFile)
  BY <1>1 DEF DictInv
<1>3. ASSUME NEW t \in Tokens, NEW v \in Tokens, Propose(t, v) PROVE DictInv'
  <2>1. [rules EXCEPT ![t] = v] \in [Tokens -> Tokens \cup {NoRule}]
        /\ [journal EXCEPT ![t] = v] \in [Tokens -> Tokens \cup {NoRule}]
    BY <1>2 DEF DictTypeOK
  <2>2. Acyclic([rules EXCEPT ![t] = v])
    BY <1>2, <1>3, AdditionAcyclic DEF Propose, DictTypeOK
  <2>3. QED BY <1>1, <1>3, <2>1, <2>2, ChangeKeeps DEF Propose, AddRule
<1>4. ASSUME NEW t \in Tokens, ProposeAgain(t) PROVE DictInv'
  <2>1. journal' \in [Tokens -> Tokens \cup {NoRule}]
    BY <1>2, <1>4 DEF ProposeAgain, DictTypeOK
  <2>2. UNCHANGED <<rules, snapshotFile, resolution, dictFaults>>
    BY <1>4 DEF ProposeAgain
  <2>3. QED BY <1>1, <2>1, <2>2 DEF DictInv, DictTypeOK, Acyclic, OnItsWay, Arrived, Walked, Walks, Follows
<1>5. ASSUME NEW t \in Tokens, RemoveRule(t) PROVE DictInv'
  <2>1. [rules EXCEPT ![t] = NoRule] \in [Tokens -> Tokens \cup {NoRule}]
        /\ [journal EXCEPT ![t] = NoRule] \in [Tokens -> Tokens \cup {NoRule}]
    BY <1>2 DEF DictTypeOK
  <2>2. Acyclic([rules EXCEPT ![t] = NoRule])
    BY <1>2, RemovalAcyclic DEF DictTypeOK
  <2>3. QED BY <1>1, <1>5, <2>1, <2>2, ChangeKeeps DEF RemoveRule
<1>6. CASE ClearNamespace
  BY <1>1, <1>2, <1>6, ChangeKeeps, NoRulesAcyclic DEF ClearNamespace, DictTypeOK, NoRules
<1>7. CASE Reload
  <2>1. resolution' \in Resolution /\ ~resolution'.calm
    BY <1>2, <1>7 DEF Reload, DictTypeOK, Resolution
  <2>2. rules' = snapshotFile /\ UNCHANGED <<snapshotFile, journal, dictFaults>>
    BY <1>7 DEF Reload
  <2>3. QED BY <1>2, <2>1, <2>2 DEF DictInv, DictTypeOK, Acyclic, OnItsWay, Arrived
<1>8. ASSUME NEW t \in Tokens, BeginResolve(t) PROVE DictInv'
  BY <1>1, <1>8, BeginResolveKeeps
<1>9. CASE Hop
  BY <1>1, <1>9, HopKeeps
<1>10. CASE UNCHANGED dictVars
  BY <1>1, <1>10 DEF dictVars, DictInv, DictTypeOK, Acyclic, OnItsWay, Arrived, Walked, Walks, Follows
<1>11. QED BY <1>1, <1>3, <1>4, <1>5, <1>6, <1>7, <1>8, <1>9, <1>10 DEF DictNext

\* For any tokens and limits on hops: the rules never form a cycle, in memory or
\* in what a reload reads, and a resolution that no change disturbs ends where
\* its chain does.
THEOREM RulesAreAcyclic == ASSUME DictConstants PROVE DictSpec => []DictSound
<1>1. DictInv => DictSound
  BY DEF DictInv, Arrived, DictSound
<1>2. QED BY <1>1, DictBegins, DictSteps, PTL DEF DictSpec

-----------------------------------------------------------------------------
(***************************************************************************)
(* HmacKeys.  A key that was handed out is honoured for the time of grace  *)
(* after its rotation, whatever becomes of the file of keys and of the     *)
(* process.                                                                *)
(***************************************************************************)
\* A list of keys in order: one entry for a key, one key that signs, and those
\* that do not carry the time they were retired at.
InOrder(ks) ==
    /\ ks \subseteq HMACKey
    /\ \A j, k \in ks : j.id = k.id \/ (j.active /\ k.active) => j = k
    /\ \A k \in ks : ~k.active => k.rotated # Never /\ k.rotated = retired[k.id]

\* The file is behind the list in memory, never ahead of it.
FileBehind ==
    /\ \A f \in InFile, k \in keys : f.id = k.id /\ k.active => f.active
    /\ \A k \in keys : k.id \in durable => k.id \in Ids(InFile)

HonouredIn(ks) == \A i \in handedOut \cap durable : InForce(i) => i \in Ids(ks)

KeyInv ==
    /\ KeyTypeOK
    /\ InOrder(keys) /\ InOrder(InFile)
    /\ Ids(InFile) \subseteq durable
    /\ ringFile = Unreadable => durable = {}
    /\ stage = "off" => keys = {}
    /\ stage \in {"rotating", "starting"} => \A k \in keys : ~k.active
    /\ FileBehind
    /\ HonouredIn(InFile)
    /\ stage # "off" => HonouredIn(keys)

LEMMA KeyBegins == ASSUME KeyConstants PROVE KeyInit => KeyInv
<1>1. SUFFICES ASSUME KeyInit PROVE KeyInv
  OBVIOUS
<1>2. {} # Unreadable /\ InFile = {}
  BY <1>1 DEF KeyInit, Unreadable, InFile
<1>3. KeyTypeOK
  BY <1>1 DEF KeyInit, KeyTypeOK, KeyConstants
<1>4. QED
  BY <1>1, <1>2, <1>3 DEF KeyInit, KeyInv, InOrder, Ids, FileBehind, HonouredIn

\* What a cleanup leaves is in order, and holds every key in force.
LEMMA SurvivorsSound ==
  ASSUME KeyConstants, KeyTypeOK, NEW ks, InOrder(ks)
  PROVE  /\ InOrder(Surviving(ks)) /\ Ids(Surviving(ks)) \subseteq Ids(ks)
         /\ \A k \in ks : InForce(k.id) \/ k.active => k \in Surviving(ks)
         /\ Surviving(ks) \subseteq ks
         /\ HonouredIn(ks) => HonouredIn(Surviving(ks))
<1>1. Surviving(ks) \subseteq ks
  BY DEF Surviving
<1>2. InOrder(Surviving(ks)) /\ Ids(Surviving(ks)) \subseteq Ids(ks)
  BY <1>1 DEF InOrder, Ids
<1>3. ASSUME NEW k \in ks, InForce(k.id) \/ k.active PROVE k \in Surviving(ks)
  BY <1>3 DEF InOrder, InForce, Surviving
<1>4. HonouredIn(ks) => HonouredIn(Surviving(ks))
  BY <1>3 DEF HonouredIn, Ids
<1>5. QED BY <1>1, <1>2, <1>3, <1>4

\* When the list in memory has just been written, all is said with the list.
LEMMA SavedIsSound ==
  ASSUME KeyConstants, KeyInv, Save(keys'), InOrder(keys)', handedOut' \subseteq KeyIds,
         (stage' = "off" => keys' = {}),
         (stage' \in {"rotating", "starting"} => \A k \in keys' : ~k.active),
         HonouredIn(keys)', KeyTypeOK'
  PROVE  KeyInv'
<1>1. ringFile' = keys' /\ durable' = durable \cup Ids(keys')
  BY DEF Save
<1>2. ringFile' # Unreadable
  BY <1>1 DEF InOrder, HMACKey, KeyIds, Unreadable, KeyConstants
<1>3. InFile' = keys'
  BY <1>1, <1>2 DEF InFile
<1>4. Ids(InFile)' \subseteq durable'
  BY <1>1, <1>3 DEF Ids
<1>5. FileBehind'
  BY <1>3 DEF FileBehind, InOrder, Ids
<1>6. InOrder(InFile)' /\ HonouredIn(InFile)'
  BY <1>3 DEF InOrder, HonouredIn, Ids
<1>7. QED BY <1>2, <1>4, <1>5, <1>6 DEF KeyInv

\* A key that is generated is not in any list.
LEMMA NewKeyInOrder ==
  ASSUME KeyConstants, KeyTypeOK, NEW ks, InOrder(ks), NEW i \in KeyIds, i \notin Ids(ks), \A k \in ks : ~k.active
  PROVE  InOrder(ks \cup {NewHmacKey(i)})
<1>1. NewHmacKey(i) \in HMACKey /\ NewHmacKey(i).id = i /\ NewHmacKey(i).active
  BY DEF NewHmacKey, HMACKey
<1>2. \A k \in ks : k.id # i
  BY DEF Ids
<1>3. QED BY <1>1, <1>2 DEF InOrder

LEMMA FreshIsNew ==
  ASSUME NEW i \in Fresh
  PROVE  i \in KeyIds /\ i \notin handedOut /\ i \notin durable /\ i \notin Ids(keys)
BY DEF Fresh

LEMMA FaultTyped ==
  ASSUME KeyConstants, KeyTypeOK, KeyFault PROVE keyFaults' \in 0..MaxKeyFaults
BY DEF KeyConstants, KeyTypeOK, KeyFault

LEMMA LoadKeysKeeps ==
  ASSUME KeyConstants, KeyInv, NEW next \in {"ready", "loaded"}, LoadKeys(next)
  PROVE  KeyInv'
<1> DEFINE left == Surviving(InFile)
<1>1. KeyTypeOK /\ InOrder(InFile) /\ HonouredIn(InFile) /\ Ids(InFile) \subseteq durable
  BY DEF KeyInv
<1>2. InOrder(left) /\ Ids(left) \subseteq durable /\ HonouredIn(left)
  BY <1>1, SurvivorsSound
<1>3. stage' = next /\ UNCHANGED <<time, handedOut, retired>>
  BY DEF LoadKeys
<1>4. \A ks : InOrder(ks)' <=> InOrder(ks')
  BY <1>3 DEF InOrder
<1>5. ASSUME InOrder(keys'), Save(keys'), UNCHANGED keyFaults, \A i \in Ids(left) : i \in Ids(keys') PROVE KeyInv'
  <2>1. InOrder(keys)'
    BY <1>3, <1>5 DEF InOrder
  <2>2. ringFile' = keys' /\ durable' = durable \cup Ids(keys')
    BY <1>5 DEF Save
  <2>3. HonouredIn(keys)'
    BY <1>2, <1>3, <1>5, <2>2 DEF HonouredIn, InForce, Ids
  <2>4. Ids(keys') \subseteq KeyIds
    BY <1>5 DEF InOrder, HMACKey, Ids
  <2>5. KeyTypeOK'
    BY <1>1, <1>3, <1>5, <2>2, <2>4 DEF KeyTypeOK, InOrder
  <2>6. stage' \in {"ready", "loaded"}
    BY <1>3
  <2>7. QED BY <1>3, <1>5, <2>1, <2>3, <2>5, <2>6, SavedIsSound DEF KeyTypeOK
<1>6. CASE keys' = left /\ Save(left) /\ UNCHANGED keyFaults
  BY <1>2, <1>5, <1>6
<1>7. CASE (\A k \in left : ~k.active) /\ (\E i \in Fresh : keys' = left \cup {NewHmacKey(i)}) /\ Save(keys')
          /\ UNCHANGED keyFaults
  <2>1. PICK i \in Fresh : keys' = left \cup {NewHmacKey(i)}
    BY <1>7
  <2>2. i \in KeyIds /\ i \notin Ids(left)
    BY <1>2, FreshIsNew
  <2>3. InOrder(keys')
    BY <1>1, <1>2, <1>7, <2>1, <2>2, NewKeyInOrder
  <2>4. \A j \in Ids(left) : j \in Ids(keys')
    BY <2>1 DEF Ids
  <2>5. QED BY <1>5, <1>7, <2>3, <2>4
<1>8. \* The list is a new key alone, and so is the file: none that was given out is in it.
      ASSUME KeyFault, NEW i \in Fresh, keys' = {NewHmacKey(i)}, durable' = {i}, ringFile' = keys'
      PROVE  KeyInv'
  <2> DEFINE k == NewHmacKey(i)
  <2>1. i \in KeyIds /\ i \notin handedOut
    BY FreshIsNew
  <2>2. k \in HMACKey /\ k.id = i /\ k.active
    BY <2>1 DEF NewHmacKey, HMACKey
  <2>3. keys' = {k} /\ ringFile' = {k} /\ keyFaults' \in 0..MaxKeyFaults
    BY <1>1, <1>8, FaultTyped
  <2> HIDE DEF k
  <2>4. ringFile' # Unreadable /\ k.id # 0
    BY <2>1, <2>2, <2>3 DEF Unreadable, KeyIds, KeyConstants
  <2>5. InFile' = {k} /\ Ids(keys') = {i} /\ Ids(InFile)' = {i}
    BY <2>2, <2>3, <2>4 DEF InFile, Ids
  <2>6. InOrder(keys)' /\ InOrder(InFile)'
    BY <2>2, <2>3, <2>5 DEF InOrder
  <2>7. KeyTypeOK'
    BY <1>1, <1>3, <1>8, <2>1, <2>2, <2>3 DEF KeyTypeOK
  <2>8. FileBehind'
    BY <2>2, <2>3, <2>5 DEF FileBehind
  <2>9. HonouredIn(InFile)' /\ HonouredIn(keys)'
    BY <1>3, <1>8, <2>1 DEF HonouredIn
  <2>10. QED BY <1>3, <1>8, <2>4, <2>5, <2>6, <2>7, <2>8, <2>9 DEF KeyInv
<1>9. QED BY <1>6, <1>7, <1>8 DEF LoadKeys

\* Retiring: the key that signed is marked with the time, the others stay as
\* they are, and every key in force after it is still in the list.
LEMMA AgedSound ==
  ASSUME KeyConstants, KeyTypeOK, InOrder(keys), NEW k \in keys
  PROVE  /\ Aged(k) \in HMACKey /\ Aged(k).id = k.id /\ ~Aged(k).active /\ k.id \in KeyIds
         /\ Aged(k).rotated = RetiredAt[k.id] /\ Aged(k).rotated # Never
<1>1. k \in HMACKey /\ k.id \in KeyIds /\ k.rotated \in (0..MaxTime) \cup {Never} /\ k.active \in BOOLEAN
  BY DEF InOrder, HMACKey
<1>2. Aged(k).id = k.id /\ ~Aged(k).active /\ Aged(k).rotated = IF k.active THEN time ELSE k.rotated
  BY DEF Aged
<1>3. time \in 0..MaxTime /\ time # Never
  BY DEF KeyTypeOK, Never
<1>4. Aged(k).rotated \in (0..MaxTime) \cup {Never}
  BY <1>1, <1>2, <1>3
<1>5. Aged(k) \in HMACKey
  BY <1>1, <1>2, <1>4 DEF HMACKey, Aged
<1>6. CASE k.active
  BY <1>1, <1>2, <1>3, <1>5, <1>6 DEF RetiredAt
<1>7. CASE ~k.active
  <2>1. ~\E j \in keys : j.id = k.id /\ j.active
    BY <1>7 DEF InOrder
  <2>2. RetiredAt[k.id] = retired[k.id]
    BY <1>1, <2>1 DEF RetiredAt
  <2>3. k.rotated = retired[k.id] /\ k.rotated # Never
    BY <1>7 DEF InOrder
  <2>4. QED BY <1>1, <1>2, <1>5, <1>7, <2>2, <2>3
<1>8. QED BY <1>6, <1>7

LEMMA RetiredSound ==
  ASSUME KeyConstants, KeyInv, stage # "off", NEW old, old = {Aged(k) : k \in keys}
  PROVE  /\ Ids(old) = Ids(keys) /\ old \subseteq HMACKey /\ \A k \in old : ~k.active
         /\ \A j, k \in old : j.id = k.id => j = k
         /\ \A k \in old : k.rotated = RetiredAt[k.id] /\ k.rotated # Never
         /\ \A i \in handedOut \cap durable :
               (RetiredAt[i] = Never \/ time - RetiredAt[i] < Grace) => i \in Ids(Surviving(old))
         /\ RetiredAt \in [KeyIds -> (0..MaxTime) \cup {Never}]
<1>1. KeyTypeOK /\ InOrder(keys) /\ HonouredIn(keys)
  BY DEF KeyInv
<1>2. time \in 0..MaxTime /\ time # Never /\ retired \in [KeyIds -> (0..MaxTime) \cup {Never}]
  BY <1>1 DEF KeyTypeOK, Never
<1>3. \A k \in keys : /\ Aged(k) \in HMACKey /\ Aged(k).id = k.id /\ ~Aged(k).active /\ k.id \in KeyIds
                      /\ Aged(k).rotated = RetiredAt[k.id] /\ Aged(k).rotated # Never
  BY <1>1, AgedSound
<1>4. Ids(old) = Ids(keys) /\ old \subseteq HMACKey /\ \A k \in old : ~k.active
  BY <1>3 DEF Ids
<1>5. \A j, k \in old : j.id = k.id => j = k
  BY <1>1, <1>3 DEF InOrder
<1>6. \A k \in old : k.rotated = RetiredAt[k.id] /\ k.rotated # Never
  BY <1>3
<1>7. ASSUME NEW i \in handedOut \cap durable, RetiredAt[i] = Never \/ time - RetiredAt[i] < Grace
      PROVE  i \in Ids(Surviving(old))
  <2>1. i \in KeyIds
    BY <1>1 DEF KeyTypeOK
  <2>2. i \in Ids(keys)
    <3>1. CASE \E k \in keys : k.id = i /\ k.active
      BY <3>1 DEF Ids
    <3>2. CASE ~\E k \in keys : k.id = i /\ k.active
      BY <1>1, <1>7, <2>1, <3>2 DEF HonouredIn, InForce, RetiredAt
    <3>3. QED BY <3>1, <3>2
  <2>3. PICK k \in old : k.id = i
    BY <1>4, <2>2 DEF Ids
  <2>4. k.rotated # Never /\ time - k.rotated < Grace
    BY <1>6, <1>7, <2>3
  <2>5. k \in Surviving(old)
    BY <2>4 DEF Surviving
  <2>6. QED BY <2>3, <2>5 DEF Ids
<1>8. RetiredAt \in [KeyIds -> (0..MaxTime) \cup {Never}]
  BY <1>2 DEF RetiredAt
<1>9. QED BY <1>4, <1>5, <1>6, <1>7, <1>8

LEMMA RetireKeeps ==
  ASSUME KeyConstants, KeyInv,
         NEW from \in {"ready", "loaded"}, NEW rotating \in {"rotating", "starting"}, Retire(from, rotating)
  PROVE  KeyInv'
<1>a. PICK old : old = {Aged(k) : k \in keys}
  OBVIOUS
<1>b. PICK left : left = Surviving(old)
  OBVIOUS
<1>1. stage = from /\ stage # "off" /\ retired' = RetiredAt /\ time' = time /\ handedOut' = handedOut
  BY DEF Retire
<1>2. /\ Ids(old) = Ids(keys) /\ old \subseteq HMACKey /\ \A k \in old : ~k.active
      /\ \A j, k \in old : j.id = k.id => j = k
      /\ \A k \in old : k.rotated = RetiredAt[k.id] /\ k.rotated # Never
      /\ \A i \in handedOut \cap durable :
            (RetiredAt[i] = Never \/ time - RetiredAt[i] < Grace) => i \in Ids(left)
      /\ RetiredAt \in [KeyIds -> (0..MaxTime) \cup {Never}]
  BY <1>1, <1>a, <1>b, RetiredSound
<1>3. left \subseteq old
  BY <1>b DEF Surviving
<1>4. KeyTypeOK /\ InOrder(InFile) /\ FileBehind /\ HonouredIn(InFile) /\ InOrder(keys)
      /\ Ids(InFile) \subseteq durable /\ (ringFile = Unreadable => durable = {})
  BY DEF KeyInv
<1>5. \/ /\ NoSave \/ Save(left)
         /\ stage' = rotating /\ keys' = left /\ UNCHANGED keyFaults
      \/ /\ KeyFault /\ NoSave
         /\ stage' = IF from = "ready" THEN "ready" ELSE "off"
         /\ keys' = IF from = "ready" THEN left ELSE {}
  BY <1>a, <1>b DEF Retire
<1>c. keyFaults' \in 0..MaxKeyFaults
  BY <1>4, <1>5 DEF KeyFault, KeyTypeOK, KeyConstants
<1>d. (keys' = left \/ keys' = {}) /\ (keys' = left \/ stage' = "off") /\ (stage' = "off" => keys' = {})
  BY <1>5
<1>e. stage' \in {"rotating", "starting", "ready", "off"} /\ (NoSave \/ (Save(left) /\ keys' = left))
  BY <1>5
<1>6. InOrder(keys)' /\ \A k \in keys' : ~k.active
  <2>1. keys' \subseteq old
    BY <1>3, <1>d
  <2>2. QED BY <1>1, <1>2, <2>1 DEF InOrder
<1>7. KeyTypeOK'
  <2>1. Ids(left) \subseteq KeyIds /\ left \subseteq HMACKey
    BY <1>2, <1>3 DEF Ids, HMACKey
  <2>2. durable' \subseteq KeyIds
    BY <1>4, <1>e, <2>1 DEF KeyTypeOK, Save, NoSave
  <2>3. ringFile' = Unreadable \/ ringFile' \subseteq HMACKey
    BY <1>4, <1>e, <2>1 DEF KeyTypeOK, Save, NoSave
  <2>4. QED BY <1>1, <1>2, <1>4, <1>c, <1>e, <1>6, <2>2, <2>3 DEF KeyTypeOK, InOrder
<1>8. CASE Save(left) /\ keys' = left
  <2>1. durable' = durable \cup Ids(left)
    BY <1>8 DEF Save
  <2>2. HonouredIn(keys)'
    BY <1>1, <1>2, <1>8, <2>1 DEF HonouredIn, InForce, Ids
  <2>3. handedOut' \subseteq KeyIds
    BY <1>1, <1>4 DEF KeyTypeOK
  <2>4. Save(keys')
    BY <1>8
  <2>5. QED BY <1>d, <1>6, <1>7, <2>2, <2>3, <2>4, SavedIsSound
<1>9. CASE NoSave
  <2>1. ringFile' = ringFile /\ durable' = durable /\ InFile' = InFile /\ Ids(InFile)' = Ids(InFile)
    BY <1>9 DEF NoSave, InFile, Ids
  <2>2. InOrder(InFile)'
    <3>1. ASSUME NEW f \in InFile, ~f.active PROVE RetiredAt[f.id] = retired[f.id]
      <4>1. ~\E k \in keys : k.id = f.id /\ k.active
        BY <1>4, <3>1 DEF FileBehind
      <4>2. f.id \in KeyIds
        BY <1>4 DEF InOrder, HMACKey
      <4>3. QED BY <4>1, <4>2 DEF RetiredAt
    <3>2. QED BY <1>1, <1>4, <2>1, <3>1 DEF InOrder
  <2>3. Ids(keys') \subseteq Ids(keys)
    BY <1>2, <1>3, <1>d DEF Ids
  <2>4. FileBehind'
    <3>1. \A k \in keys' : k.id \in durable => k.id \in Ids(InFile)
      <4>1. \A k \in keys' : k.id \in Ids(keys)
        BY <2>3 DEF Ids
      <4>2. \A i \in Ids(keys) : i \in durable => i \in Ids(InFile)
        BY <1>4 DEF FileBehind, Ids
      <4>3. QED BY <4>1, <4>2
    <3>2. QED BY <1>6, <2>1, <3>1 DEF FileBehind
  <2>5. HonouredIn(InFile)'
    <3>1. ASSUME NEW i \in handedOut \cap durable, RetiredAt[i] = Never \/ time - RetiredAt[i] < Grace
          PROVE i \in Ids(InFile)
      <4>1. i \in Ids(keys)
        BY <1>2, <1>3, <3>1 DEF Ids
      <4>2. QED BY <1>4, <3>1, <4>1 DEF FileBehind, Ids
    <3>2. QED BY <1>1, <2>1, <3>1 DEF HonouredIn, InForce
  <2>6. stage' # "off" => HonouredIn(keys)'
    <3>1. SUFFICES ASSUME stage' # "off" PROVE HonouredIn(keys)'
      OBVIOUS
    <3>2. keys' = left
      BY <1>d, <3>1
    <3>3. QED BY <1>1, <1>2, <2>1, <3>2 DEF HonouredIn, InForce, Ids
  <2>7. Ids(InFile)' \subseteq durable' /\ (ringFile' = Unreadable => durable' = {})
    BY <1>4, <2>1
  <2>8. QED BY <1>d, <1>6, <1>7, <2>2, <2>4, <2>5, <2>6, <2>7 DEF KeyInv
<1>10. QED BY <1>e, <1>8, <1>9

\* A key made by a rotation or for want of one that signs: the list with it is in order.
LEMMA AddedSound ==
  ASSUME KeyConstants, KeyInv, stage # "off", NEW i \in Fresh, \A k \in keys : ~k.active,
         keys' = keys \cup {NewHmacKey(i)}, UNCHANGED <<time, retired>>,
         handedOut' = handedOut \/ handedOut' = handedOut \cup {i}
  PROVE  /\ InOrder(keys)' /\ handedOut' \subseteq KeyIds /\ keys' \subseteq HMACKey
         /\ \A j, k \in keys' : j.id = k.id => j = k
         /\ Ids(keys') = Ids(keys) \cup {i} /\ i \in KeyIds /\ i \notin durable
         /\ \A j \in handedOut' : InForce(j)' /\ j \in durable \cup Ids(keys') => j \in Ids(keys')
<1>1. KeyTypeOK /\ InOrder(keys) /\ HonouredIn(keys)
  BY DEF KeyInv
<1>2. i \in KeyIds /\ i \notin handedOut /\ i \notin durable /\ i \notin Ids(keys)
  BY FreshIsNew
<1>3. InOrder(keys \cup {NewHmacKey(i)})
  BY <1>1, <1>2, NewKeyInOrder
<1>4. InOrder(keys)' /\ keys' \subseteq HMACKey /\ \A j, k \in keys' : j.id = k.id => j = k
  BY <1>3 DEF InOrder
<1>5. Ids(keys') = Ids(keys) \cup {i}
  <2>1. NewHmacKey(i).id = i
    BY DEF NewHmacKey
  <2>2. Ids(keys \cup {NewHmacKey(i)}) = Ids(keys) \cup {NewHmacKey(i).id}
    BY DEF Ids
  <2>3. QED BY <2>1, <2>2
<1>6. ASSUME NEW j \in handedOut', InForce(j)', j \in durable \cup Ids(keys') PROVE j \in Ids(keys')
  BY <1>1, <1>5, <1>6 DEF HonouredIn, InForce
<1>7. handedOut' \subseteq KeyIds
  BY <1>1, <1>2 DEF KeyTypeOK
<1>8. QED BY <1>2, <1>4, <1>5, <1>6, <1>7

LEMMA AddSavedKeeps ==
  ASSUME KeyConstants, KeyInv, stage # "off", NEW i \in Fresh, \A k \in keys : ~k.active,
         keys' = keys \cup {NewHmacKey(i)}, UNCHANGED <<time, retired, keyFaults>>, stage' = "ready",
         handedOut' = handedOut \/ handedOut' = handedOut \cup {i}, Save(keys')
  PROVE  KeyInv'
<1>1. KeyTypeOK
  BY DEF KeyInv
<1>2. /\ InOrder(keys)' /\ handedOut' \subseteq KeyIds /\ keys' \subseteq HMACKey
      /\ \A j, k \in keys' : j.id = k.id => j = k
      /\ Ids(keys') = Ids(keys) \cup {i} /\ i \in KeyIds
      /\ \A j \in handedOut' : InForce(j)' /\ j \in durable \cup Ids(keys') => j \in Ids(keys')
  BY AddedSound
<1>3. ringFile' = keys' /\ durable' = durable \cup Ids(keys')
  BY DEF Save
<1>4. Ids(keys') \subseteq KeyIds
  BY <1>2 DEF Ids, HMACKey
<1>5. KeyTypeOK'
  BY <1>1, <1>2, <1>3, <1>4 DEF KeyTypeOK
<1>6. HonouredIn(keys)'
  BY <1>2, <1>3 DEF HonouredIn, Ids
<1>7. QED BY <1>2, <1>5, <1>6, SavedIsSound

LEMMA AddKeyKeeps ==
  ASSUME KeyConstants, KeyInv, AddKey PROVE KeyInv'
<1>1. \A k \in keys : ~k.active
  BY DEF AddKey, KeyInv
<1>2. PICK i \in Fresh : /\ keys' = keys \cup {NewHmacKey(i)}
                         /\ handedOut' = IF stage = "rotating" THEN handedOut \cup {i} ELSE handedOut
  BY DEF AddKey
<1>3. stage # "off" /\ stage' = "ready" /\ Save(keys') /\ UNCHANGED <<time, retired, keyFaults>>
  BY DEF AddKey
<1>4. QED BY <1>1, <1>2, <1>3, AddSavedKeeps

\* Nothing but the list in memory changes, and the file stays behind it.
LEMMA UnsavedKeeps ==
  ASSUME KeyConstants, KeyInv, NoSave, UNCHANGED <<time, retired>>, InOrder(keys)', handedOut' \subseteq KeyIds,
         stage' \in {"off", "ready"}, stage' = "off" => keys' = {}, keyFaults' \in 0..MaxKeyFaults,
         handedOut' \cap durable \subseteq handedOut \cup Ids(keys),
         \A f \in InFile, k \in keys' : f.id = k.id /\ k.active => f.active,
         \A k \in keys' : k.id \in durable => k.id \in Ids(InFile),
         \A j \in handedOut' \cap durable : InForce(j) /\ stage' # "off" => j \in Ids(keys')
  PROVE  KeyInv'
<1>1. /\ KeyTypeOK /\ InOrder(InFile) /\ Ids(InFile) \subseteq durable /\ (ringFile = Unreadable => durable = {})
      /\ HonouredIn(InFile) /\ FileBehind
  BY DEF KeyInv
<1>2. ringFile' = ringFile /\ durable' = durable /\ InFile' = InFile /\ Ids(InFile)' = Ids(InFile)
  BY DEF NoSave, InFile, Ids
<1>3. KeyTypeOK'
  BY <1>1, <1>2 DEF KeyTypeOK, InOrder
<1>4. InOrder(InFile)'
  BY <1>1, <1>2 DEF InOrder
<1>5. FileBehind'
  BY <1>2 DEF FileBehind
<1>6. HonouredIn(InFile)'
  BY <1>1, <1>2 DEF HonouredIn, InForce, FileBehind, Ids
<1>7. stage' # "off" => HonouredIn(keys)'
  BY <1>2 DEF HonouredIn, InForce, Ids
<1>8. QED BY <1>1, <1>2, <1>3, <1>4, <1>5, <1>6, <1>7 DEF KeyInv

LEMMA AddKeyFailsKeeps ==
  ASSUME KeyConstants, KeyInv, AddKeyFails PROVE KeyInv'
<1>1. /\ KeyTypeOK /\ InOrder(keys) /\ InOrder(InFile) /\ Ids(InFile) \subseteq durable /\ FileBehind
      /\ stage # "off" /\ HonouredIn(keys) /\ \A k \in keys : ~k.active
  BY DEF KeyInv, AddKeyFails
<1>2. NoSave /\ UNCHANGED <<time, handedOut, retired>> /\ keyFaults' \in 0..MaxKeyFaults
  BY <1>1, FaultTyped DEF AddKeyFails
<1>3. handedOut' \subseteq KeyIds /\ handedOut' \cap durable \subseteq handedOut \cup Ids(keys)
  BY <1>1, <1>2 DEF KeyTypeOK
<1>4. CASE stage = "rotating"
  <2>1. stage' = "ready"
    BY <1>4 DEF AddKeyFails
  <2>2. PICK i \in Fresh : keys' = keys \cup {NewHmacKey(i)}
    BY <1>4 DEF AddKeyFails
  <2>3. /\ InOrder(keys)' /\ i \notin durable
        /\ Ids(keys') = Ids(keys) \cup {i}
    BY <1>1, <1>2, <2>2, AddedSound
  <2>4. NewHmacKey(i).id = i
    BY DEF NewHmacKey
  <2>5. \A f \in InFile : f.id \in durable
    BY <1>1 DEF Ids
  <2>6. \A f \in InFile, k \in keys' : f.id = k.id /\ k.active => f.active
    BY <1>1, <2>2, <2>3, <2>4, <2>5
  <2>7. \A k \in keys' : k.id \in durable => k.id \in Ids(InFile)
    BY <1>1, <2>2, <2>3, <2>4 DEF FileBehind
  <2>8. \A j \in handedOut' \cap durable : InForce(j) => j \in Ids(keys')
    BY <1>1, <1>2, <2>3 DEF HonouredIn
  <2>9. QED BY <1>2, <1>3, <2>1, <2>3, <2>6, <2>7, <2>8, UnsavedKeeps
<1>5. CASE stage # "rotating"
  <2>1. stage' = "off" /\ keys' = {}
    BY <1>5 DEF AddKeyFails
  <2>2. InOrder(keys)'
    BY <2>1 DEF InOrder
  <2>3. QED BY <1>2, <1>3, <2>1, <2>2, UnsavedKeeps
<1>6. QED BY <1>4, <1>5

LEMMA GetActiveKeyKeeps ==
  ASSUME KeyConstants, KeyInv, GetActiveKey PROVE KeyInv'
<1>1. /\ KeyTypeOK /\ InOrder(keys) /\ FileBehind /\ stage = "ready" /\ HonouredIn(keys)
      /\ stage' = "ready" /\ UNCHANGED <<time, retired, keyFaults>>
  BY DEF KeyInv, GetActiveKey
<1>2. ASSUME NEW k \in keys, k.active, handedOut' = handedOut \cup {k.id}, keys' = keys, NoSave
      PROVE  KeyInv'
  <2>1. k.id \in KeyIds /\ k.id \in Ids(keys)
    BY <1>1 DEF InOrder, HMACKey, Ids
  <2>2. InOrder(keys)'
    BY <1>1, <1>2 DEF InOrder
  <2>3. handedOut' \subseteq KeyIds /\ handedOut' \cap durable \subseteq handedOut \cup Ids(keys)
    BY <1>1, <1>2, <2>1 DEF KeyTypeOK
  <2>4. keyFaults' \in 0..MaxKeyFaults
    BY <1>1 DEF KeyTypeOK
  <2>5. \A j \in handedOut' \cap durable : InForce(j) => j \in Ids(keys')
    BY <1>1, <1>2, <2>1 DEF HonouredIn
  <2>6. /\ \A f \in InFile, j \in keys' : f.id = j.id /\ j.active => f.active
        /\ \A j \in keys' : j.id \in durable => j.id \in Ids(InFile)
    BY <1>1, <1>2 DEF FileBehind
  <2>7. QED BY <1>1, <1>2, <2>2, <2>3, <2>4, <2>5, <2>6, UnsavedKeeps
<1>3. ASSUME \A k \in keys : ~k.active, NEW i \in Fresh, keys' = keys \cup {NewHmacKey(i)},
             handedOut' = handedOut \cup {i}, Save(keys')
      PROVE  KeyInv'
  BY <1>1, <1>3, AddSavedKeeps
<1>4. QED BY <1>2, <1>3 DEF GetActiveKey

LEMMA StopKeysKeeps ==
  ASSUME KeyConstants, KeyInv, StopKeys PROVE KeyInv'
<1>1. KeyTypeOK
  BY DEF KeyInv
<1>2. InOrder(keys)' /\ handedOut' \subseteq KeyIds /\ keyFaults' \in 0..MaxKeyFaults
  BY <1>1 DEF StopKeys, InOrder, KeyTypeOK
<1>3. NoSave /\ stage' = "off" /\ keys' = {} /\ UNCHANGED <<time, retired, handedOut>>
  BY DEF StopKeys, NoSave
<1>4. QED BY <1>2, <1>3, UnsavedKeeps

LEMMA DamageKeysKeeps ==
  ASSUME KeyConstants, KeyInv, DamageKeys PROVE KeyInv'
<1>1. KeyTypeOK /\ keyFaults' \in 0..MaxKeyFaults
  BY FaultTyped DEF KeyInv, DamageKeys
<1>2. ringFile' = Unreadable /\ durable' = {} /\ UNCHANGED <<time, keys, stage, handedOut, retired>>
  BY DEF DamageKeys
<1>3. InFile' = {}
  BY <1>2 DEF InFile
<1>4. KeyTypeOK'
  BY <1>1, <1>2 DEF KeyTypeOK
<1>5. InOrder(keys)' /\ InOrder(InFile)'
  BY <1>2, <1>3 DEF InOrder, KeyInv
<1>6. Ids(InFile)' \subseteq durable' /\ FileBehind'
  BY <1>2, <1>3 DEF Ids, FileBehind
<1>7. HonouredIn(InFile)' /\ HonouredIn(keys)'
  BY <1>2 DEF HonouredIn
<1>8. QED BY <1>2, <1>4, <1>5, <1>6, <1>7 DEF KeyInv

LEMMA PassKeeps ==
  ASSUME KeyConstants, KeyInv, Pass PROVE KeyInv'
<1>1. KeyTypeOK
  BY DEF KeyInv
<1>2. time' \in 0..MaxTime /\ time' = time + 1 /\ UNCHANGED <<keys, ringFile, stage, handedOut, durable, retired, keyFaults>>
  BY <1>1 DEF Pass, KeyTypeOK, KeyConstants
<1>3. KeyTypeOK'
  BY <1>1, <1>2 DEF KeyTypeOK
<1>4. InFile' = InFile /\ InOrder(keys)' /\ InOrder(InFile)' /\ Ids(InFile)' = Ids(InFile)
  BY <1>2 DEF InOrder, KeyInv, InFile, Ids
<1>5. FileBehind'
  BY <1>2, <1>4 DEF FileBehind, KeyInv
<1>6. ASSUME NEW i \in KeyIds, InForce(i)' PROVE InForce(i)
  <2>1. retired[i] \in (0..MaxTime) \cup {Never} /\ time \in 0..MaxTime
    BY <1>1 DEF KeyTypeOK
  <2>2. retired[i] \in Int /\ time \in Int /\ Grace \in Int
    BY <2>1 DEF Never, KeyConstants
  <2>3. QED BY <1>2, <1>6, <2>2 DEF InForce
<1>7. HonouredIn(InFile)' /\ (stage' # "off" => HonouredIn(keys)')
  BY <1>1, <1>2, <1>4, <1>6 DEF HonouredIn, KeyInv, KeyTypeOK, Ids
<1>8. QED BY <1>2, <1>3, <1>4, <1>5, <1>7 DEF KeyInv

LEMMA KeySteps == ASSUME KeyConstants PROVE KeyInv /\ [KeyNext]_keyVars => KeyInv'
<1>1. SUFFICES ASSUME KeyInv, [KeyNext]_keyVars PROVE KeyInv'
  OBVIOUS
<1>2. CASE StartKeys
  BY <1>1, <1>2, LoadKeysKeeps DEF StartKeys
<1>3. CASE StartWithRotation
  BY <1>1, <1>3, LoadKeysKeeps DEF StartWithRotation
<1>4. CASE RotateKeys
  BY <1>1, <1>4, RetireKeeps DEF RotateKeys
<1>5. CASE RotateAtStart
  BY <1>1, <1>5, RetireKeeps DEF RotateAtStart
<1>6. CASE UNCHANGED keyVars
  BY <1>1, <1>6 DEF keyVars, KeyInv, KeyTypeOK, InOrder, Ids, InFile, FileBehind, HonouredIn, InForce
<1>7. QED
  BY <1>1, <1>2, <1>3, <1>4, <1>5, <1>6, AddKeyKeeps, AddKeyFailsKeeps, GetActiveKeyKeeps, StopKeysKeeps,
     DamageKeysKeeps, PassKeeps DEF KeyNext

\* KeysHonoured (hmac_key_manager.py): whenever the manager is in use, one key
\* signs at most, and a key that was given out and has reached the file is
\* accepted for the whole grace period after its rotation, unless the file was
\* damaged since or a start could not read or save it.
THEOREM KeysAreHonoured == ASSUME KeyConstants PROVE KeySpec => []KeysHonoured
<1>1. KeyInv => KeysHonoured
  BY DEF KeyInv, InOrder, HonouredIn, KeysHonoured
<1>2. QED BY <1>1, KeyBegins, KeySteps, PTL DEF KeySpec

-----------------------------------------------------------------------------
(***************************************************************************)
(* PermissionTables.  What a caller was told of a grant is what the table  *)
(* says, and what its file says after a restart.                           *)
(***************************************************************************)
\* The secrets file of a pack, when it is the pack's own, says what the pack was
\* granted at some time and, unless something touched it, what the memory says; an
\* untouched one is the pack's own or there is nothing in it.
OwnFile(p) == secretFile[FileName[p]].owner = p
WasGranted(p) == {p} \X secretFile[FileName[p]].keys \subseteq ever
FileWasGranted == \A p \in TabPacks : OwnFile(p) => WasGranted(p)
AsGranted(p) ==
    /\ OwnFile(p) => secretFile[FileName[p]].keys = KeysOf(granted["secret"], p)
    /\ OwnFile(p) \/ KeysOf(granted["secret"], p) = {}
FileAsGranted == \A p \in TabPacks : <<"secret", p>> \notin unsure => AsGranted(p)
TableAsTold == \A t \in Replaced, p \in TabPacks :
    <<t, p>> \notin unsure => KeysOf(tableFile[t], p) = KeysOf(told[t], p)

TabInv == TabTypeOK /\ GrantsAsTold /\ FileAsGranted /\ FileWasGranted /\ TableAsTold

LEMMA TabBegins == ASSUME TabConstants PROVE TabInit => TabInv
<1>1. SUFFICES ASSUME TabInit PROVE TabInv
  OBVIOUS
<1>2. TabTypeOK
  BY <1>1 DEF TabInit, TabTypeOK, TabConstants, NoFile
<1>3. \A p \in TabPacks : ~OwnFile(p)
  BY <1>1 DEF TabInit, OwnFile, NoFile, FileNames, TabConstants
<1>4. \A t \in Tables, p \in TabPacks : KeysOf(granted[t], p) = {}
  BY <1>1 DEF TabInit, KeysOf
<1>5. \A t \in Replaced, p \in TabPacks : KeysOf(tableFile[t], p) = {}
  BY <1>1 DEF TabInit, KeysOf
<1>6. told = granted /\ Replaced \subseteq Tables /\ "secret" \in Tables
  BY <1>1 DEF TabInit, Replaced, Tables
<1>7. GrantsAsTold
  <2>1. granted["secret"] = {}
    BY <1>1, <1>6 DEF TabInit
  <2>2. QED BY <1>4, <1>6, <2>1 DEF GrantsAsTold
<1>8. FileAsGranted
  BY <1>3, <1>4, <1>6 DEF FileAsGranted, AsGranted
<1>had. FileWasGranted
  BY <1>3 DEF FileWasGranted
<1>9. TableAsTold
  BY <1>4, <1>5, <1>6 DEF TableAsTold
<1>10. QED BY <1>2, <1>7, <1>8, <1>had, <1>9 DEF TabInv

\* One table changes, and in it the entries of one pack.
Touched(t, p) ==
    /\ granted' \in [Tables -> SUBSET Pairs]
    /\ \A u \in Tables \ {t} : granted'[u] = granted[u]
    /\ \A q \in TabPacks \ {p} : KeysOf(granted'[t], q) = KeysOf(granted[t], q)

LEMMA GrantTouches ==
  ASSUME TabTypeOK, NEW t \in Tables, NEW p \in TabPacks, NEW k \in Keys, Grant(t, p, k)
  PROVE  Touched(t, p)
BY DEF TabTypeOK, Grant, Touched, KeysOf, Pairs

LEMMA RevokeTouches ==
  ASSUME TabTypeOK, NEW t \in Tables, NEW p \in TabPacks, NEW ks \in SUBSET Keys, Revoke(t, p, ks)
  PROVE  Touched(t, p)
BY DEF TabTypeOK, Revoke, Touched, KeysOf, Pairs

\* What a step on the secrets of a pack leaves of the rest.
SecretFrame(p) ==
    /\ Touched("secret", p)
    /\ ever \subseteq ever' /\ ever' \subseteq Pairs /\ granted'["secret"] \subseteq ever'
    /\ unsure \ {<<"secret", p>>} \subseteq unsure' /\ unsure' \subseteq Tables \X TabPacks
    /\ known' \subseteq TabPacks /\ tabFaults' \in 0..MaxTabFaults /\ tableFile' = tableFile
    /\ told' = [told EXCEPT !["secret"] = granted'["secret"]] \/ (told' = told /\ <<"secret", p>> \in unsure')

LEMMA SecretFrameKeeps ==
  ASSUME TabConstants, TabInv, NEW p \in TabPacks, SecretFrame(p),
         secretFile' \in [FileNames -> [owner: TabPacks, keys: SUBSET Keys] \cup {NoFile}],
         FileAsGranted', FileWasGranted'
  PROVE  TabInv'
<1>1. TabTypeOK /\ GrantsAsTold /\ TableAsTold /\ "secret" \in Tables /\ "secret" \notin Replaced /\ Replaced \subseteq Tables
  BY DEF TabInv, Tables, Replaced
<1>2. /\ granted' \in [Tables -> SUBSET Pairs]
      /\ \A u \in Tables \ {"secret"} : granted'[u] = granted[u] /\ told'[u] = told[u]
      /\ \A q \in TabPacks \ {p} : KeysOf(granted'["secret"], q) = KeysOf(granted["secret"], q)
      /\ told'["secret"] = granted'["secret"] \/ (told' = told /\ <<"secret", p>> \in unsure')
      /\ told' \in [Tables -> SUBSET Pairs]
  BY <1>1 DEF SecretFrame, Touched, TabTypeOK
<1>3. TabTypeOK'
  BY <1>1, <1>2 DEF TabTypeOK, SecretFrame
<1>4. \A u \in unsure : u # <<"secret", p>> => u \in unsure'
  BY DEF SecretFrame
<1>5. ASSUME NEW t \in Tables, NEW q \in TabPacks, <<t, q>> \notin unsure'
      PROVE  KeysOf(granted'[t], q) = KeysOf(told'[t], q)
  <2>1. CASE t = "secret" /\ told'["secret"] = granted'["secret"]
    BY <2>1
  <2>2. CASE t = "secret" /\ told' = told /\ <<"secret", p>> \in unsure'
    <3>1. q # p /\ <<t, q>> \notin unsure
      BY <1>4, <1>5, <2>2
    <3>2. QED BY <1>1, <1>2, <2>2, <3>1 DEF GrantsAsTold
  <2>3. CASE t # "secret"
    BY <1>1, <1>2, <1>4, <1>5, <2>3 DEF GrantsAsTold
  <2>4. QED BY <1>2, <2>1, <2>2, <2>3
<1>7. GrantsAsTold'
  BY <1>5 DEF GrantsAsTold, SecretFrame
<1>8. TableAsTold'
  BY <1>1, <1>2, <1>4 DEF TableAsTold, SecretFrame
<1>9. QED BY <1>3, <1>7, <1>8 DEF TabInv

\* The file of its name is written, spoiled or removed: what is there is the
\* pack's own content or nothing.
LEMMA SecretStep ==
  ASSUME TabConstants, TabInv, NEW p \in TabPacks, SecretFrame(p),
         NEW content \in [owner: {p}, keys: {KeysOf(granted'["secret"], p)}] \cup {NoFile},
         secretFile' = [secretFile EXCEPT ![FileName[p]] = content],
         \A q \in Sharing(p) : <<"secret", q>> \in unsure',
         content = NoFile => <<"secret", p>> \in unsure' \/ KeysOf(granted'["secret"], p) = {}
  PROVE  TabInv'
<1>1. TabTypeOK /\ FileAsGranted /\ FileWasGranted /\ "secret" \in Tables
  BY DEF TabInv, Tables
<1>2. \A q \in TabPacks \ {p} : KeysOf(granted'["secret"], q) = KeysOf(granted["secret"], q)
  BY <1>1 DEF SecretFrame, Touched
<1>3. FileName[p] \in FileNames /\ KeysOf(granted'["secret"], p) \in SUBSET Keys
  BY DEF FileNames, KeysOf
<1>4. secretFile' \in [FileNames -> [owner: TabPacks, keys: SUBSET Keys] \cup {NoFile}]
  BY <1>1, <1>3 DEF TabTypeOK
<1>5. \A u \in unsure : u # <<"secret", p>> => u \in unsure'
  BY DEF SecretFrame
<1>6. ever \subseteq ever'
  BY DEF SecretFrame
<1>7. \A k \in KeysOf(granted'["secret"], p) : <<p, k>> \in ever'
  BY DEF SecretFrame, KeysOf
<1>8. secretFile'[FileName[p]] = content
  BY <1>1, <1>3 DEF TabTypeOK
<1>9. \A q \in TabPacks \ {p} : q \notin Sharing(p) => secretFile'[FileName[q]] = secretFile[FileName[q]]
  BY <1>1, <1>3 DEF Sharing, TabTypeOK, FileNames
<1>10. (content.owner = p /\ content.keys = KeysOf(granted'["secret"], p)) \/ content = NoFile
  OBVIOUS
<1>11. NoFile.owner \notin TabPacks
  BY DEF NoFile, TabConstants
<1>12. ASSUME NEW q \in Sharing(p) PROVE ~OwnFile(q)' /\ q # p /\ <<"secret", q>> \in unsure'
  <2>1. FileName[q] = FileName[p] /\ q # p /\ q \in TabPacks
    BY DEF Sharing
  <2>2. QED BY <1>8, <1>10, <1>11, <2>1 DEF OwnFile
<1>13. FileAsGranted'
  <2>1. ASSUME NEW q \in TabPacks, <<"secret", q>> \notin unsure' PROVE AsGranted(q)'
    <3>1. CASE q = p
      BY <1>8, <1>10, <1>11, <2>1, <3>1 DEF OwnFile, AsGranted
    <3>2. CASE q # p
      <4>1. q \notin Sharing(p) /\ <<"secret", q>> \notin unsure
        BY <1>12, <1>5, <2>1, <3>2
      <4>2. secretFile'[FileName[q]] = secretFile[FileName[q]] /\ KeysOf(granted'["secret"], q) = KeysOf(granted["secret"], q)
        BY <1>2, <1>9, <3>2, <4>1
      <4>3. AsGranted(q)
        BY <1>1, <4>1 DEF FileAsGranted
      <4>4. QED BY <4>2, <4>3 DEF OwnFile, AsGranted
    <3>3. QED BY <3>1, <3>2
  <2>2. QED BY <2>1 DEF FileAsGranted
<1>14. FileWasGranted'
  <2>1. ASSUME NEW q \in TabPacks, OwnFile(q)' PROVE WasGranted(q)'
    <3>1. CASE q = p
      <4>1. content.keys = KeysOf(granted'["secret"], p)
        BY <1>8, <1>10, <1>11, <2>1, <3>1 DEF OwnFile
      <4>2. QED BY <1>7, <1>8, <3>1, <4>1 DEF WasGranted
    <3>2. CASE q # p
      <4>1. q \notin Sharing(p)
        BY <1>12, <2>1
      <4>2. secretFile'[FileName[q]] = secretFile[FileName[q]]
        BY <1>9, <3>2, <4>1
      <4>3. OwnFile(q)
        BY <2>1, <4>2 DEF OwnFile
      <4>4. WasGranted(q)
        BY <1>1, <4>3 DEF FileWasGranted
      <4>5. QED BY <1>6, <4>2, <4>4 DEF WasGranted
    <3>3. QED BY <3>1, <3>2
  <2>2. QED BY <2>1 DEF FileWasGranted
<1>15. QED BY <1>4, <1>13, <1>14, SecretFrameKeeps

\* The file stays as it is, with what the pack was granted before.
LEMMA SecretFileStays ==
  ASSUME TabConstants, TabInv, NEW p \in TabPacks, SecretFrame(p), UNCHANGED secretFile, <<"secret", p>> \in unsure'
  PROVE  TabInv'
<1>1. TabTypeOK /\ FileAsGranted /\ FileWasGranted
  BY DEF TabInv
<1>2. \A q \in TabPacks \ {p} : KeysOf(granted'["secret"], q) = KeysOf(granted["secret"], q)
  BY DEF SecretFrame, Touched
<1>3. \A q \in TabPacks \ {p} : <<"secret", q>> \in unsure => <<"secret", q>> \in unsure'
  BY DEF SecretFrame
<1>4. ever \subseteq ever'
  BY DEF SecretFrame
<1>5. \A q \in TabPacks : OwnFile(q)' <=> OwnFile(q)
  BY DEF OwnFile
<1>6. FileAsGranted'
  <2>1. ASSUME NEW q \in TabPacks \ {p} PROVE AsGranted(q) => AsGranted(q)'
    BY <1>2, <1>5 DEF AsGranted
  <2>2. QED BY <1>1, <1>3, <2>1 DEF FileAsGranted
<1>7. FileWasGranted'
  <2>1. \A q \in TabPacks : WasGranted(q) => WasGranted(q)'
    BY <1>4 DEF WasGranted
  <2>2. QED BY <1>1, <1>5, <2>1 DEF FileWasGranted
<1>8. QED BY <1>1, <1>6, <1>7, SecretFrameKeeps DEF TabTypeOK

LEMMA SharingTyped == ASSUME NEW p \in TabPacks PROVE {<<"secret", q>> : q \in Sharing(p) \cup {p}} \subseteq Tables \X TabPacks
BY DEF Sharing, Tables

\* What SaveSecrets does is one of these.
LEMMA SaveSecretsStep ==
  ASSUME TabConstants, TabInv, NEW p \in TabPacks, Touched("secret", p),
         told' = [told EXCEPT !["secret"] = granted'["secret"]],
         SaveSecrets(p, [owner |-> p, keys |-> KeysOf(granted'["secret"], p)]),
         ever \subseteq ever', ever' \subseteq Pairs, granted'["secret"] \subseteq ever',
         known' \subseteq TabPacks, tableFile' = tableFile
  PROVE  TabInv'
<1>1. TabTypeOK
  BY DEF TabInv
<1>2. {<<"secret", q>> : q \in Sharing(p) \cup {p}} \subseteq Tables \X TabPacks
  BY SharingTyped
<1>3. CASE /\ secretFile' = [secretFile EXCEPT ![FileName[p]] = [owner |-> p, keys |-> KeysOf(granted'["secret"], p)]]
           /\ unsure' = (unsure \cup {<<"secret", q>> : q \in Sharing(p)}) \ {<<"secret", p>>}
           /\ UNCHANGED tabFaults
  <2>1. PICK content : content = [owner |-> p, keys |-> KeysOf(granted'["secret"], p)]
    OBVIOUS
  <2>2. content \in [owner: {p}, keys: {KeysOf(granted'["secret"], p)}] \cup {NoFile} /\ content.owner = p
    BY <2>1
  <2>3. content # NoFile
    BY <2>2 DEF NoFile, TabConstants
  <2>4. \A q \in Sharing(p) : <<"secret", q>> \in unsure'
    BY <1>3 DEF Sharing
  <2>5. unsure' \subseteq Tables \X TabPacks /\ tabFaults' \in 0..MaxTabFaults
    BY <1>1, <1>2, <1>3 DEF TabTypeOK
  <2>6. secretFile' = [secretFile EXCEPT ![FileName[p]] = content] /\ unsure \ {<<"secret", p>>} \subseteq unsure'
    BY <1>3, <2>1
  <2>7. SecretFrame(p)
    BY <2>5, <2>6 DEF SecretFrame
  <2>8. QED BY <2>2, <2>3, <2>4, <2>6, <2>7, SecretStep
<1>4. CASE /\ tabFaults < MaxTabFaults /\ tabFaults' = tabFaults + 1
           /\ UNCHANGED secretFile \/ secretFile' = [secretFile EXCEPT ![FileName[p]] = NoFile]
           /\ unsure' = unsure \cup {<<"secret", q>> : q \in Sharing(p) \cup {p}}
  <2>1. \A q \in Sharing(p) : <<"secret", q>> \in unsure'
    BY <1>4
  <2>2. <<"secret", p>> \in unsure' /\ unsure \ {<<"secret", p>>} \subseteq unsure'
    BY <1>4
  <2>3. unsure' \subseteq Tables \X TabPacks
    BY <1>1, <1>2, <1>4 DEF TabTypeOK
  <2>4. tabFaults' \in 0..MaxTabFaults
    BY <1>1, <1>4 DEF TabTypeOK, TabConstants
  <2>5. SecretFrame(p)
    BY <2>2, <2>3, <2>4 DEF SecretFrame
  <2>6. QED BY <1>4, <2>1, <2>2, <2>5, SecretStep, SecretFileStays
<1>5. QED BY <1>3, <1>4 DEF SaveSecrets

LEMMA GrantSecretKeeps ==
  ASSUME TabConstants, TabInv, NEW p \in TabPacks, NEW k \in Keys, GrantSecret(p, k)
  PROVE  TabInv'
<1>1. TabTypeOK /\ "secret" \in Tables /\ GrantsAsTold
  BY DEF TabInv, Tables
<1>2. Touched("secret", p)
  BY <1>1, GrantTouches DEF GrantSecret
<1>3. known' \subseteq TabPacks /\ tableFile' = tableFile
  BY <1>1 DEF GrantSecret, TabTypeOK
<1>4. ever \subseteq ever' /\ ever' \subseteq Pairs
  BY <1>1 DEF GrantSecret, TabTypeOK, Pairs
<1>5. granted'["secret"] \subseteq ever'
  <2>1. granted'["secret"] = granted["secret"] \cup {<<p, k>>} /\ ever' = ever \cup {<<p, k>>}
    BY <1>1 DEF GrantSecret, Grant, TabTypeOK
  <2>2. QED BY <1>1, <2>1 DEF GrantsAsTold
<1>6. QED BY <1>2, <1>3, <1>4, <1>5, SaveSecretsStep DEF GrantSecret

\* What is left of a pack's secrets after a revocation it was granted before.
LEMMA RevokedWasGranted ==
  ASSUME TabInv, NEW p \in TabPacks, NEW ks \in SUBSET Keys, Revoke("secret", p, ks)
  PROVE  granted'["secret"] \subseteq ever
<1>1. granted["secret"] \subseteq ever
  BY DEF TabInv, GrantsAsTold
<1>2. granted'["secret"] = granted["secret"] \ ({p} \X ks)
  BY DEF TabInv, TabTypeOK, Tables, Revoke
<1>3. QED BY <1>1, <1>2

LEMMA RevokeSecretsKeeps ==
  ASSUME TabConstants, TabInv, NEW p \in TabPacks, NEW ks \in SUBSET Keys, RevokeSecrets(p, ks)
  PROVE  TabInv'
<1>1. TabTypeOK /\ "secret" \in Tables
  BY DEF TabInv, Tables
<1>2. Touched("secret", p)
  BY <1>1, RevokeTouches DEF RevokeSecrets
<1>3. known' \subseteq TabPacks /\ tableFile' = tableFile /\ ever' = ever /\ ever \subseteq Pairs
  BY <1>1 DEF RevokeSecrets, TabTypeOK
<1>4. granted'["secret"] \subseteq ever
  BY RevokedWasGranted DEF RevokeSecrets
<1>5. QED BY <1>2, <1>3, <1>4, SaveSecretsStep DEF RevokeSecrets

LEMMA DeleteSecretGrantKeeps ==
  ASSUME TabConstants, TabInv, NEW p \in TabPacks, DeleteSecretGrant(p)
  PROVE  TabInv'
<1>1. TabTypeOK /\ "secret" \in Tables /\ Keys \in SUBSET Keys
  BY DEF TabInv, Tables
<1>2. Touched("secret", p)
  BY <1>1, RevokeTouches DEF DeleteSecretGrant
<1>3. KeysOf(granted'["secret"], p) = {}
  BY <1>1 DEF DeleteSecretGrant, Revoke, TabTypeOK, KeysOf
<1>4. known' \subseteq TabPacks /\ tableFile' = tableFile /\ ever' = ever /\ ever \subseteq Pairs
  BY <1>1 DEF DeleteSecretGrant, TabTypeOK
<1>5. granted'["secret"] \subseteq ever
  BY <1>1, RevokedWasGranted DEF DeleteSecretGrant
<1>6. CASE /\ secretFile' = [secretFile EXCEPT ![FileName[p]] = NoFile]
           /\ told' = [told EXCEPT !["secret"] = granted'["secret"]]
           /\ unsure' = (unsure \cup {<<"secret", q>> : q \in Sharing(p)}) \ {<<"secret", p>>}
           /\ UNCHANGED tabFaults
  <2>1. unsure' \subseteq Tables \X TabPacks /\ tabFaults' \in 0..MaxTabFaults
    BY <1>1, <1>6, SharingTyped DEF TabTypeOK
  <2>2. (\A q \in Sharing(p) : <<"secret", q>> \in unsure') /\ unsure \ {<<"secret", p>>} \subseteq unsure'
    BY <1>6 DEF Sharing
  <2>3. SecretFrame(p)
    BY <1>2, <1>4, <1>5, <1>6, <2>1, <2>2 DEF SecretFrame
  <2>4. QED BY <1>3, <1>6, <2>2, <2>3, SecretStep
<1>7. CASE /\ tabFaults < MaxTabFaults /\ tabFaults' = tabFaults + 1
           /\ unsure' = unsure \cup {<<"secret", p>>}
           /\ UNCHANGED <<secretFile, told>>
  <2>1. unsure' \subseteq Tables \X TabPacks
    BY <1>1, <1>7 DEF TabTypeOK
  <2>2. tabFaults' \in 0..MaxTabFaults
    BY <1>1, <1>7 DEF TabTypeOK, TabConstants
  <2>3. SecretFrame(p)
    BY <1>2, <1>4, <1>5, <1>7, <2>1, <2>2 DEF SecretFrame
  <2>4. QED BY <1>7, <2>3, SecretFileStays
<1>8. QED BY <1>6, <1>7 DEF DeleteSecretGrant

\* The other tables: another pack's entries are not touched.
LEMMA TableStep ==
  ASSUME TabConstants, TabInv, NEW t \in Replaced, NEW p \in TabPacks, Touched(t, p), SaveTable(t, p),
         UNCHANGED <<secretFile, known, ever>>
  PROVE  TabInv'
<1>1. TabTypeOK /\ GrantsAsTold /\ FileAsGranted /\ FileWasGranted /\ TableAsTold /\ "secret" \in Tables /\ t # "secret" /\ t \in Tables
      /\ Replaced \subseteq Tables
  BY DEF TabInv, Tables, Replaced
<1>2. /\ granted' \in [Tables -> SUBSET Pairs]
      /\ \A u \in Tables \ {t} : granted'[u] = granted[u]
      /\ \A q \in TabPacks \ {p} : KeysOf(granted'[t], q) = KeysOf(granted[t], q)
  BY DEF Touched
<1>3. CASE /\ tableFile' = [tableFile EXCEPT ![t] = granted'[t]]
           /\ unsure' = {u \in unsure : u[1] # t} /\ told' = [told EXCEPT ![t] = granted'[t]]
           /\ UNCHANGED tabFaults
  <2>1. TabTypeOK'
    BY <1>1, <1>2, <1>3 DEF TabTypeOK
  <2>2. \A u \in Tables \ {t}, q \in TabPacks : <<u, q>> \in unsure => <<u, q>> \in unsure'
    BY <1>3
  <2>3. told'[t] = granted'[t] /\ tableFile'[t] = granted'[t]
        /\ (\A u \in Tables \ {t} : told'[u] = told[u]) /\ (\A u \in Replaced \ {t} : tableFile'[u] = tableFile[u])
    BY <1>1, <1>3 DEF TabTypeOK
  <2>4. GrantsAsTold'
    BY <1>1, <1>2, <2>2, <2>3 DEF GrantsAsTold
  <2>5. TableAsTold'
    BY <1>1, <2>2, <2>3 DEF TableAsTold
  <2>6. FileAsGranted'
    <3>1. \A q \in TabPacks : AsGranted(q) => AsGranted(q)'
      BY <1>1, <1>2 DEF OwnFile, AsGranted
    <3>2. QED BY <1>1, <2>2, <3>1 DEF FileAsGranted
  <2>had. FileWasGranted'
    BY <1>1 DEF FileWasGranted, OwnFile, WasGranted
  <2>7. QED BY <2>1, <2>4, <2>5, <2>6, <2>had DEF TabInv
<1>4. CASE /\ tabFaults < MaxTabFaults /\ tabFaults' = tabFaults + 1
           /\ unsure' = unsure \cup {<<t, p>>} /\ UNCHANGED <<tableFile, told>>
  <2>1. tabFaults' \in 0..MaxTabFaults
    BY <1>1, <1>4 DEF TabTypeOK, TabConstants
  <2>2. unsure' \subseteq Tables \X TabPacks
    BY <1>1, <1>4 DEF TabTypeOK
  <2>3. TabTypeOK'
    BY <1>1, <1>2, <1>4, <2>1, <2>2 DEF TabTypeOK
  <2>4. GrantsAsTold'
    <3>1. ASSUME NEW u \in Tables, NEW q \in TabPacks, <<u, q>> \notin unsure'
          PROVE  KeysOf(granted'[u], q) = KeysOf(told'[u], q)
      <4>1. <<u, q>> \notin unsure /\ (u = t => q # p)
        BY <1>4, <3>1
      <4>2. KeysOf(granted'[u], q) = KeysOf(granted[u], q)
        BY <1>2, <4>1
      <4>3. QED BY <1>1, <1>4, <4>1, <4>2 DEF GrantsAsTold
    <3>2. QED BY <1>1, <1>2, <1>4, <3>1 DEF GrantsAsTold
  <2>5. TableAsTold'
    BY <1>1, <1>4 DEF TableAsTold
  <2>6. FileAsGranted'
    <3>1. \A q \in TabPacks : AsGranted(q) => AsGranted(q)'
      BY <1>1, <1>2 DEF OwnFile, AsGranted
    <3>2. QED BY <1>1, <1>4, <3>1 DEF FileAsGranted
  <2>had. FileWasGranted'
    BY <1>1 DEF FileWasGranted, OwnFile, WasGranted
  <2>7. QED BY <2>3, <2>4, <2>5, <2>6, <2>had DEF TabInv
<1>5. QED BY <1>3, <1>4 DEF SaveTable

LEMMA TableEntriesKeep ==
  ASSUME TabConstants, TabInv, NEW t \in Replaced, NEW p \in TabPacks, NEW k \in Keys,
         GrantEntry(t, p, k) \/ RevokeEntry(t, p, k)
  PROVE  TabInv'
<1>1. TabTypeOK /\ t \in Tables /\ {k} \in SUBSET Keys
  BY DEF TabInv, Tables, Replaced
<1>2. Touched(t, p)
  BY <1>1, GrantTouches, RevokeTouches DEF GrantEntry, RevokeEntry
<1>3. QED BY <1>2, TableStep DEF GrantEntry, RevokeEntry

LEMMA UninstallPackKeeps ==
  ASSUME TabConstants, TabInv, NEW p \in TabPacks, UninstallPack(p)
  PROVE  TabInv'
<1>1. TabTypeOK /\ "host" \in Tables /\ "host" \in Replaced /\ Keys \in SUBSET Keys
  BY DEF TabInv, Tables, Replaced
<1>2. Touched("host", p)
  BY <1>1, RevokeTouches DEF UninstallPack
<1>3. QED BY <1>1, <1>2, TableStep DEF UninstallPack

LEMMA SetPermissionKeeps ==
  ASSUME TabConstants, TabInv, NEW p \in TabPacks, NEW k \in Keys, SetPermission(p, k)
  PROVE  TabInv'
<1>1. TabTypeOK /\ GrantsAsTold /\ FileAsGranted /\ FileWasGranted /\ TableAsTold /\ "volatile" \in Tables /\ {k} \in SUBSET Keys
      /\ "volatile" \notin Replaced /\ "secret" \in Tables \ {"volatile"} /\ Replaced \subseteq Tables
  BY DEF TabInv, Tables, Replaced
<1>2. Touched("volatile", p)
  BY <1>1, GrantTouches, RevokeTouches DEF SetPermission
<1>3. /\ told' = [told EXCEPT !["volatile"] = granted'["volatile"]]
      /\ UNCHANGED <<secretFile, known, tableFile, ever, unsure, tabFaults>>
  BY DEF SetPermission
<1>4. /\ granted' \in [Tables -> SUBSET Pairs] /\ told' \in [Tables -> SUBSET Pairs]
      /\ \A u \in Tables \ {"volatile"} : granted'[u] = granted[u] /\ told'[u] = told[u]
      /\ told'["volatile"] = granted'["volatile"]
  BY <1>1, <1>2, <1>3 DEF Touched, TabTypeOK
<1>5. TabTypeOK'
  BY <1>1, <1>3, <1>4 DEF TabTypeOK
<1>6. GrantsAsTold'
  BY <1>1, <1>3, <1>4 DEF GrantsAsTold
<1>7. FileAsGranted'
  <2>1. \A q \in TabPacks : AsGranted(q) => AsGranted(q)'
    BY <1>1, <1>3, <1>4 DEF OwnFile, AsGranted
  <2>2. QED BY <1>1, <1>3, <2>1 DEF FileAsGranted
<1>had. FileWasGranted'
  BY <1>1, <1>3 DEF FileWasGranted, OwnFile, WasGranted
<1>8. TableAsTold'
  BY <1>1, <1>3, <1>4 DEF TableAsTold
<1>9. QED BY <1>5, <1>6, <1>7, <1>had, <1>8 DEF TabInv

\* A restart: every table is what its file says.
LEMMA RestartTablesKeeps ==
  ASSUME TabConstants, TabInv, RestartTables PROVE TabInv'
<1>1. TabTypeOK /\ GrantsAsTold /\ FileAsGranted /\ FileWasGranted /\ TableAsTold
  BY DEF TabInv
<1>2. Tables = {"secret", "volatile"} \cup Replaced /\ "secret" \notin Replaced /\ "volatile" \notin Replaced
  BY DEF Tables, Replaced
<1>3. UNCHANGED <<secretFile, tableFile, ever, unsure, tabFaults>> /\ told' = [told EXCEPT !["volatile"] = {}]
      /\ known' \subseteq TabPacks
  BY DEF RestartTables
<1>4. granted'["secret"] = LoadedSecrets /\ granted'["volatile"] = {}
      /\ (\A t \in Replaced : granted'[t] = tableFile[t]) /\ granted' = [t \in Tables |-> granted'[t]]
  BY <1>2 DEF RestartTables
<1>5. told'["volatile"] = {} /\ (\A t \in Tables \ {"volatile"} : told'[t] = told[t])
      /\ told' \in [Tables -> SUBSET Pairs]
  BY <1>1, <1>2, <1>3 DEF TabTypeOK
<1>6. LoadedSecrets \subseteq Pairs
  BY DEF LoadedSecrets
<1>7. granted' \in [Tables -> SUBSET Pairs]
  BY <1>1, <1>2, <1>4, <1>6 DEF TabTypeOK
<1>8. TabTypeOK'
  BY <1>1, <1>3, <1>5, <1>7 DEF TabTypeOK
<1>9. ASSUME NEW p \in TabPacks
      PROVE  /\ OwnFile(p) => KeysOf(granted'["secret"], p) = secretFile[FileName[p]].keys
             /\ ~OwnFile(p) => KeysOf(granted'["secret"], p) = {}
  <2>1. KeysOf(granted'["secret"], p) = {k \in Keys : OwnFile(p) /\ k \in secretFile[FileName[p]].keys}
    BY <1>4 DEF KeysOf, LoadedSecrets, OwnFile, Pairs
  <2>2. CASE OwnFile(p)
    <3>1. FileName[p] \in FileNames /\ NoFile.keys \subseteq Keys
      BY DEF FileNames, NoFile
    <3>2. secretFile[FileName[p]].keys \subseteq Keys
      BY <1>1, <3>1 DEF TabTypeOK
    <3>3. QED BY <2>1, <2>2, <3>2
  <2>3. CASE ~OwnFile(p)
    BY <2>1, <2>3
  <2>4. QED BY <2>2, <2>3
<1>10. GrantsAsTold'
  <2>1. ASSUME NEW p \in TabPacks, <<"secret", p>> \notin unsure
        PROVE  KeysOf(granted'["secret"], p) = KeysOf(told'["secret"], p)
    <3>1. AsGranted(p)
      BY <1>1, <2>1 DEF FileAsGranted
    <3>2. KeysOf(granted'["secret"], p) = KeysOf(granted["secret"], p)
      BY <1>9, <3>1 DEF AsGranted
    <3>3. QED BY <1>1, <1>2, <1>5, <2>1, <3>2 DEF GrantsAsTold
  <2>2. ASSUME NEW t \in Replaced, NEW p \in TabPacks, <<t, p>> \notin unsure
        PROVE  KeysOf(granted'[t], p) = KeysOf(told'[t], p)
    BY <1>1, <1>2, <1>4, <1>5, <2>2 DEF TableAsTold
  <2>3. \A p \in TabPacks : KeysOf(granted'["volatile"], p) = KeysOf(told'["volatile"], p)
    BY <1>4, <1>5
  <2>4. granted'["secret"] \subseteq ever
    <3>1. SUFFICES ASSUME NEW p \in TabPacks, NEW k \in Keys, <<p, k>> \in LoadedSecrets PROVE <<p, k>> \in ever
      BY <1>4, <1>6 DEF Pairs
    <3>2. OwnFile(p) /\ k \in secretFile[FileName[p]].keys
      BY <3>1 DEF LoadedSecrets, OwnFile
    <3>3. QED BY <1>1, <3>2 DEF FileWasGranted, WasGranted
  <2>5. QED BY <1>2, <1>3, <2>1, <2>2, <2>3, <2>4 DEF GrantsAsTold
<1>11. FileAsGranted'
  <2>1. ASSUME NEW p \in TabPacks PROVE AsGranted(p)'
    BY <1>3, <1>9 DEF OwnFile, AsGranted
  <2>2. QED BY <2>1 DEF FileAsGranted
<1>had. FileWasGranted'
  BY <1>1, <1>3 DEF FileWasGranted, OwnFile, WasGranted
<1>12. TableAsTold'
  BY <1>1, <1>2, <1>3, <1>5 DEF TableAsTold
<1>13. QED BY <1>8, <1>10, <1>11, <1>had, <1>12 DEF TabInv

LEMMA TabSteps == ASSUME TabConstants PROVE TabInv /\ [TabNext]_tabVars => TabInv'
<1>1. SUFFICES ASSUME TabInv, [TabNext]_tabVars PROVE TabInv'
  OBVIOUS
<1>2. CASE UNCHANGED tabVars
  <2>1. TabTypeOK'
    BY <1>1, <1>2 DEF tabVars, TabInv, TabTypeOK
  <2>2. GrantsAsTold'
    BY <1>1, <1>2 DEF tabVars, TabInv, GrantsAsTold, KeysOf
  <2>3. FileAsGranted'
    <3>1. \A q \in TabPacks : AsGranted(q) => AsGranted(q)'
      BY <1>2 DEF tabVars, OwnFile, AsGranted
    <3>2. QED BY <1>1, <1>2, <3>1 DEF tabVars, TabInv, FileAsGranted
  <2>had. FileWasGranted'
    BY <1>1, <1>2 DEF tabVars, TabInv, FileWasGranted, OwnFile, WasGranted
  <2>4. TableAsTold'
    BY <1>1, <1>2 DEF tabVars, TabInv, TableAsTold, KeysOf
  <2>5. QED BY <2>1, <2>2, <2>3, <2>had, <2>4 DEF TabInv
<1>3. CASE RestartTables
  BY <1>1, <1>3, RestartTablesKeeps
<1>4. ASSUME NEW p \in TabPacks, DeleteSecretGrant(p) \/ RevokeSecrets(p, Keys) \/ UninstallPack(p) PROVE TabInv'
  BY <1>1, <1>4, DeleteSecretGrantKeeps, RevokeSecretsKeeps, UninstallPackKeeps
<1>5. ASSUME NEW p \in TabPacks, NEW k \in Keys,
             \/ GrantSecret(p, k) \/ RevokeSecrets(p, {k}) \/ SetPermission(p, k)
             \/ \E t \in Replaced : GrantEntry(t, p, k) \/ RevokeEntry(t, p, k)
      PROVE TabInv'
  BY <1>1, <1>5, GrantSecretKeeps, RevokeSecretsKeeps, SetPermissionKeeps, TableEntriesKeep
<1>6. QED BY <1>1, <1>2, <1>3, <1>4, <1>5 DEF TabNext

\* GrantsAsTold (secrets_grant_manager.py, store_sharing_manager.py,
\* host_privilege_manager.py): through failed saves, shared file names and
\* restarts, what a caller was told is what the tables grant, and no pack
\* comes to the secrets of another.
THEOREM GrantsStand == ASSUME TabConstants PROVE TabSpec => []GrantsAsTold
<1>1. TabInv => GrantsAsTold
  BY DEF TabInv
<1>2. QED BY <1>1, TabBegins, TabSteps, PTL DEF TabSpec

-----------------------------------------------------------------------------
(***************************************************************************)
(* AuditLog.  What a flush writes is later than what the files have, so    *)
(* that each stays in order and has an entry once; what a query gives is   *)
(* therefore no longer than what was logged, and none of it is cut off.    *)
(***************************************************************************)
Rising(s) == \A i, j \in DOMAIN s : i < j => s[i] < s[j]

\* Entries that wait to be written go behind those in the files, and none is missing.
Ready(entries, stamps) ==
    /\ stamps \in Seq(Days) /\ Len(stamps) <= MaxLogged
    /\ entries \in Seq(DOMAIN stamps) /\ Rising(entries)
    /\ logFiles \in [Days -> Seq(DOMAIN stamps)]
    /\ \A d \in Days : Rising(logFiles[d])
    /\ \A d \in Days : \A i \in DOMAIN logFiles[d] : stamps[logFiles[d][i]] = d
    /\ \A d \in Days : \A i \in DOMAIN logFiles[d] : \A j \in DOMAIN entries : logFiles[d][i] < entries[j]
    /\ \A e \in DOMAIN stamps \ Lost :
         e \in ToSet(entries) \/ e \in ToSet(logFiles[stamps[e]]) \/ stamps[e] < cleaned

\* No clean-up is undone: the first day kept does not move back.
KeptSince == cleaned = 1 \/ cleaned + KeepDays <= today

\* A half line is of one file and one fault, and until something is written behind
\* it the fault has spoilt nothing.
TornOk ==
    /\ torn \in [Days -> 0..auditFaults]
    /\ \A c, d \in Days : torn[c] = torn[d] /\ torn[c] # 0 => c = d
    /\ \A g \in Faults : g > auditFaults => spoilt[g] = 0
    /\ \A d \in Days : torn[d] # 0 => spoilt[torn[d]] = 0

AuditInv == AuditTypeOK /\ Ready(buffer, logged) /\ KeptSince /\ TornOk

LEMMA DaysAreNumbers == ASSUME AuditConstants PROVE Days \in SUBSET Nat /\ Days = 1..LastDay /\ LastDay \in Nat /\ 1 \in Days
BY DEF AuditConstants, Days

\* What is taken of the entries stays in order.
LEMMA SelectedRises ==
  ASSUME NEW X \in SUBSET Nat, NEW entries \in Seq(X), Rising(entries), NEW K \in SUBSET DOMAIN entries
  PROVE  /\ Selected(entries, K) \in Seq(X) /\ Rising(Selected(entries, K))
         /\ ToSet(Selected(entries, K)) = {entries[i] : i \in K}
<1> DEFINE s == Selected(entries, K)
<1>1. K \in SUBSET DOMAIN entries /\ DOMAIN entries \in SUBSET Nat
  OBVIOUS
<1>2. /\ s \in Seq(X) /\ DOMAIN s = 1..Cardinality(K) /\ Cardinality(K) \in 0..Len(entries)
      /\ \A i \in K : Place(K, i) \in DOMAIN s /\ s[Place(K, i)] = entries[i]
      /\ \A n \in DOMAIN s : \E i \in K : n = Place(K, i) /\ s[n] = entries[i]
      /\ \A i, j \in K : i < j => Place(K, i) < Place(K, j)
  BY <1>1, SelectedKeeps
<1> HIDE DEF s
<1>3. ASSUME NEW m \in DOMAIN s, NEW n \in DOMAIN s, m < n PROVE s[m] < s[n]
  <2>1. PICK i \in K : m = Place(K, i) /\ s[m] = entries[i]
    BY <1>2
  <2>2. PICK j \in K : n = Place(K, j) /\ s[n] = entries[j]
    BY <1>2
  <2>3. m \in Nat /\ n \in Nat /\ i \in Nat /\ j \in Nat
    BY <1>1, <1>2
  <2>4. i < j
    <3>1. ~(j < i) /\ i # j
      BY <1>2, <1>3, <2>1, <2>2, <2>3
    <3>2. QED BY <2>3, <3>1
  <2>5. QED BY <1>1, <2>1, <2>2, <2>4 DEF Rising
<1>4. ToSet(s) = {entries[i] : i \in K}
  <2>1. \A e \in ToSet(s) : \E i \in K : e = entries[i]
    BY <1>2 DEF ToSet
  <2>2. \A i \in K : entries[i] \in ToSet(s)
    BY <1>2 DEF ToSet
  <2>3. QED BY <2>1, <2>2
<1>5. QED BY <1>2, <1>3, <1>4 DEF Rising, s

\* What is written behind a file.
LEMMA FileGrows ==
  ASSUME NEW X \in SUBSET Nat, NEW f \in Seq(X), NEW g \in Seq(X), Rising(f), Rising(g),
         \A i \in DOMAIN f : \A j \in DOMAIN g : f[i] < g[j]
  PROVE  f \o g \in Seq(X) /\ Rising(f \o g) /\ ToSet(f \o g) = ToSet(f) \cup ToSet(g)
<1>1. PICK h : h = f \o g
  OBVIOUS
<1>2. /\ Len(f) \in Nat /\ Len(g) \in Nat /\ DOMAIN f = 1..Len(f) /\ DOMAIN g = 1..Len(g)
      /\ h \in Seq(X) /\ Len(h) = Len(f) + Len(g) /\ DOMAIN h = 1..Len(h)
  BY <1>1
<1>3. \A i \in 1..Len(f) : i \in DOMAIN h /\ h[i] = f[i]
  BY <1>1, <1>2
<1>4. \A i \in 1..Len(g) : Len(f) + i \in DOMAIN h /\ h[Len(f) + i] = g[i]
  BY <1>1, <1>2
<1>5. ASSUME NEW n \in DOMAIN h
      PROVE  \/ n \in 1..Len(f) /\ h[n] = f[n]
             \/ n > Len(f) /\ n - Len(f) \in 1..Len(g) /\ h[n] = g[n - Len(f)]
  BY <1>1, <1>2
<1>6. ASSUME NEW m \in DOMAIN h, NEW n \in DOMAIN h, m < n PROVE h[m] < h[n]
  <2>1. m \in Nat /\ n \in Nat
    BY <1>2
  <2>2. CASE n \in 1..Len(f)
    <3>1. m \in 1..Len(f)
      BY <1>2, <1>6, <2>1, <2>2
    <3>2. QED BY <1>2, <1>3, <1>6, <2>2, <3>1 DEF Rising
  <2>3. CASE m \in 1..Len(f) /\ n > Len(f)
    <3>1. n - Len(f) \in 1..Len(g) /\ h[n] = g[n - Len(f)]
      BY <1>2, <1>5, <2>1, <2>3
    <3>2. QED BY <1>2, <1>3, <2>3, <3>1
  <2>4. CASE m > Len(f)
    <3>1. m - Len(f) \in 1..Len(g) /\ h[m] = g[m - Len(f)]
      BY <1>2, <1>5, <2>1, <2>4
    <3>2. n - Len(f) \in 1..Len(g) /\ h[n] = g[n - Len(f)]
      BY <1>2, <1>5, <1>6, <2>1, <2>4
    <3>3. m - Len(f) < n - Len(f)
      BY <1>2, <1>6, <2>1
    <3>4. QED BY <1>2, <3>1, <3>2, <3>3 DEF Rising
  <2>5. QED BY <1>2, <2>1, <2>2, <2>3, <2>4
<1>7. ToSet(h) = ToSet(f) \cup ToSet(g)
  <2>1. \A e \in ToSet(h) : e \in ToSet(f) \cup ToSet(g)
    BY <1>2, <1>5 DEF ToSet
  <2>2. \A e \in ToSet(f) \cup ToSet(g) : e \in ToSet(h)
    BY <1>2, <1>3, <1>4 DEF ToSet
  <2>3. QED BY <2>1, <2>2
<1>8. QED BY <1>1, <1>2, <1>6, <1>7 DEF Rising

\* Some places have a first one.
LEMMA FirstPlace == ASSUME NEW K \in SUBSET Nat, K # {} PROVE Min(K) \in K
<1>1. \E x \in K : \A y \in K : x <= y
  BY LeastIsThere
<1>2. QED BY <1>1 DEF Min

\* The days whose files a writing reaches.
Reached(entries, stamps, W) == {d \in Days : W \cap OfDay(entries, stamps, d) # {}}

\* What is appended goes behind what the files have; it is there, or spoilt.
Appended(entries, stamps, W) ==
    /\ logFiles' \in [Days -> Seq(DOMAIN stamps)]
    /\ \A d \in Days : /\ Rising(logFiles'[d]) /\ ToSet(logFiles[d]) \subseteq ToSet(logFiles'[d])
                       /\ \A e \in ToSet(logFiles'[d]) : stamps[e] = d
    /\ spoilt' \in [Faults -> 0..Len(stamps)]
    /\ \A i \in W : \/ entries[i] \in ToSet(logFiles'[stamps[entries[i]]])
                    \/ \E g \in Faults : spoilt'[g] = entries[i]
    /\ \A g \in Faults : spoilt'[g] # spoilt[g] =>
          spoilt[g] = 0 /\ \E d \in Reached(entries, stamps, W) : torn[d] = g

LEMMA AppendKeeps ==
  ASSUME AuditConstants, NEW entries, NEW stamps, Ready(entries, stamps), NEW W \in SUBSET DOMAIN entries,
         AppendLines(entries, stamps, W), TornOk, spoilt \in [Faults -> 0..Len(stamps)], auditFaults \in 0..MaxAuditFaults
  PROVE  Appended(entries, stamps, W)
<1> DEFINE new(d) == W \cap OfDay(entries, stamps, d)
           Glued == {d \in Days : torn[d] # 0 /\ new(d) # {}}
           rest(d) == IF d \in Glued THEN new(d) \ {Min(new(d))} ELSE new(d)
           line(g) == CHOOSE d \in Glued : torn[d] = g
<1>1. /\ stamps \in Seq(Days) /\ entries \in Seq(DOMAIN stamps) /\ Rising(entries)
      /\ logFiles \in [Days -> Seq(DOMAIN stamps)] /\ DOMAIN stamps \in SUBSET Nat
      /\ DOMAIN entries \in SUBSET Nat /\ DOMAIN stamps = 1..Len(stamps) /\ Len(stamps) \in Nat
  BY DEF Ready
<1>2. /\ logFiles' = [d \in Days |-> logFiles[d] \o Selected(entries, rest(d))]
      /\ spoilt' = [g \in Faults |-> IF \E d \in Glued : torn[d] = g THEN entries[Min(new(line(g)))] ELSE spoilt[g]]
  BY DEF AppendLines
<1>3. \A d \in Days : new(d) \in SUBSET DOMAIN entries /\ \A i \in new(d) : stamps[entries[i]] = d
  BY DEF OfDay
<1>4. \A i \in W : stamps[entries[i]] \in Days /\ i \in new(stamps[entries[i]]) /\ entries[i] \in DOMAIN stamps
  BY <1>1 DEF OfDay
<1>5. Glued \subseteq Days /\ \A d \in Glued : torn[d] # 0 /\ new(d) # {} /\ torn[d] \in Faults
  BY DEF TornOk, Faults, AuditConstants
<1>6. \A d \in Days : new(d) # {} => d \in Reached(entries, stamps, W)
  BY DEF Reached
<1> HIDE DEF new
<1>7. \A d \in Days : new(d) # {} => Min(new(d)) \in new(d)
  BY <1>1, <1>3, FirstPlace
<1>8. \A d \in Days : rest(d) \in SUBSET DOMAIN entries /\ \A i \in rest(d) : stamps[entries[i]] = d
  BY <1>3
<1>9. \A d \in Glued : line(torn[d]) = d
  BY <1>5 DEF TornOk
<1>10. \A d \in Days : \A i \in new(d) : i \in rest(d) \/ (d \in Glued /\ i = Min(new(d)))
  OBVIOUS
<1> HIDE DEF rest
<1>11. ASSUME NEW d \in Days
       PROVE  /\ logFiles'[d] \in Seq(DOMAIN stamps) /\ Rising(logFiles'[d])
              /\ ToSet(logFiles'[d]) = ToSet(logFiles[d]) \cup {entries[i] : i \in rest(d)}
  <2> DEFINE more == Selected(entries, rest(d))
  <2>1. more \in Seq(DOMAIN stamps) /\ Rising(more) /\ ToSet(more) = {entries[i] : i \in rest(d)}
    BY <1>1, <1>8, SelectedRises
  <2>2. logFiles[d] \in Seq(DOMAIN stamps) /\ Rising(logFiles[d]) /\ logFiles'[d] = logFiles[d] \o more
    BY <1>1, <1>2 DEF Ready
  <2> HIDE DEF more
  <2>3. \A i \in DOMAIN logFiles[d] : \A j \in DOMAIN more : logFiles[d][i] < more[j]
    <3>1. \A j \in DOMAIN more : \E k \in DOMAIN entries : more[j] = entries[k]
      BY <2>1, <1>8 DEF ToSet
    <3>2. \A i \in DOMAIN logFiles[d] : \A k \in DOMAIN entries : logFiles[d][i] < entries[k]
      BY DEF Ready
    <3>3. SUFFICES ASSUME NEW i \in DOMAIN logFiles[d], NEW j \in DOMAIN more PROVE logFiles[d][i] < more[j]
      OBVIOUS
    <3>4. PICK k \in DOMAIN entries : more[j] = entries[k]
      BY <3>1
    <3>5. logFiles[d][i] < entries[k]
      BY <3>2
    <3>6. QED BY <3>4, <3>5
  <2>4. PICK f, g, X : f = logFiles[d] /\ g = more /\ X = DOMAIN stamps
    OBVIOUS
  <2>5. /\ X \in SUBSET Nat /\ f \in Seq(X) /\ g \in Seq(X) /\ Rising(f) /\ Rising(g)
        /\ \A i \in DOMAIN f : \A j \in DOMAIN g : f[i] < g[j]
    BY <1>1, <2>1, <2>2, <2>3, <2>4
  <2>6. f \o g \in Seq(X) /\ Rising(f \o g) /\ ToSet(f \o g) = ToSet(f) \cup ToSet(g)
    BY <2>5, FileGrows
  <2>7. QED BY <2>1, <2>2, <2>4, <2>6
<1>12. ASSUME NEW d \in Days PROVE \A e \in ToSet(logFiles'[d]) : stamps[e] = d
  <2>1. \A e \in ToSet(logFiles[d]) : stamps[e] = d
    BY DEF Ready, ToSet
  <2>2. QED BY <1>8, <1>11, <2>1
<1>13. logFiles' \in [Days -> Seq(DOMAIN stamps)]
  <2>1. DOMAIN logFiles' = Days /\ logFiles' = [d \in Days |-> logFiles'[d]]
    BY <1>2
  <2>2. QED BY <1>11, <2>1
<1>14. \A d \in Glued : spoilt'[torn[d]] = entries[Min(new(d))]
  <2>1. SUFFICES ASSUME NEW d \in Glued PROVE spoilt'[torn[d]] = entries[Min(new(d))]
    OBVIOUS
  <2>2. torn[d] \in Faults /\ line(torn[d]) = d /\ \E c \in Glued : torn[c] = torn[d]
    BY <1>5, <1>9
  <2> HIDE DEF Glued, line
  <2>3. QED BY <1>2, <2>2
<1>15. ASSUME NEW g \in Faults PROVE \/ spoilt'[g] = spoilt[g]
                                     \/ \E d \in Glued : torn[d] = g /\ spoilt'[g] = entries[Min(new(d))]
  <2> HIDE DEF Glued, line
  <2>1. CASE \E d \in Glued : torn[d] = g
    BY <1>14, <2>1
  <2>2. CASE ~ \E d \in Glued : torn[d] = g
    BY <1>2, <2>2
  <2>3. QED BY <2>1, <2>2
<1>16. \A d \in Glued : d \in Days /\ entries[Min(new(d))] \in DOMAIN stamps /\ d \in Reached(entries, stamps, W) /\ spoilt[torn[d]] = 0
  <2>1. \A d \in Glued : d \in Days /\ torn[d] # 0 /\ Min(new(d)) \in DOMAIN entries /\ d \in Reached(entries, stamps, W)
    BY <1>3, <1>5, <1>6, <1>7
  <2>2. \A i \in DOMAIN entries : entries[i] \in DOMAIN stamps
    BY <1>1
  <2> HIDE DEF Glued
  <2>3. QED BY <2>1, <2>2 DEF TornOk
<1> HIDE DEF Glued, line
<1>17. spoilt' \in [Faults -> 0..Len(stamps)]
  <2>1. DOMAIN stamps \subseteq 0..Len(stamps)
    BY <1>1
  <2>2. \A g \in Faults : spoilt'[g] \in 0..Len(stamps)
    BY <1>15, <1>16, <2>1
  <2>3. spoilt' = [g \in Faults |-> spoilt'[g]]
    BY <1>2
  <2>4. QED BY <2>2, <2>3
<1>18. ASSUME NEW i \in W
       PROVE  entries[i] \in ToSet(logFiles'[stamps[entries[i]]]) \/ \E g \in Faults : spoilt'[g] = entries[i]
  <2>1. PICK d \in Days : d = stamps[entries[i]] /\ i \in new(d)
    BY <1>4
  <2>2. CASE i \in rest(d)
    BY <1>11, <2>1, <2>2
  <2>3. CASE d \in Glued /\ i = Min(new(d))
    BY <1>5, <1>14, <2>3
  <2>4. QED BY <1>10, <2>1, <2>2, <2>3
<1>19. ASSUME NEW g \in Faults, spoilt'[g] # spoilt[g]
       PROVE  spoilt[g] = 0 /\ \E d \in Reached(entries, stamps, W) : torn[d] = g
  BY <1>15, <1>16, <1>19
<1>20. QED BY <1>11, <1>12, <1>13, <1>17, <1>18, <1>19 DEF Appended

\* Half lines come one at a time and go when something is written behind them.
TornAfter(X, bad) == \A d \in Days :
    \/ torn'[d] = 0
    \/ torn'[d] = torn[d] /\ d \notin X
    \/ d = bad /\ torn'[d] = auditFaults + 1 /\ auditFaults' = auditFaults + 1

LEMMA TornKept ==
  ASSUME AuditConstants, TornOk, NEW X, NEW bad, DOMAIN torn' = Days, torn' = [d \in Days |-> torn'[d]], TornAfter(X, bad),
         auditFaults \in 0..MaxAuditFaults, auditFaults' \in {auditFaults, auditFaults + 1},
         auditFaults' \in 0..MaxAuditFaults,
         \A g \in Faults : spoilt'[g] # spoilt[g] => \E d \in X : d \in Days /\ torn[d] = g
  PROVE  TornOk'
<1>1. /\ torn \in [Days -> 0..auditFaults] /\ auditFaults \in Nat /\ auditFaults' \in Nat /\ auditFaults <= auditFaults'
      /\ \A d \in Days : torn[d] \in Nat /\ torn[d] <= auditFaults
  BY DEF TornOk, AuditConstants
<1>2. ASSUME NEW d \in Days PROVE torn'[d] \in 0..auditFaults'
  BY <1>1 DEF TornAfter
<1>3. torn' \in [Days -> 0..auditFaults']
  BY <1>2
<1>4. ASSUME NEW c \in Days, NEW d \in Days, torn'[c] = torn'[d], torn'[c] # 0 PROVE c = d
  <2>1. CASE torn'[c] = torn[c] /\ torn'[d] = torn[d]
    BY <1>4, <2>1 DEF TornOk
  <2>2. CASE torn'[c] = auditFaults + 1 \/ torn'[d] = auditFaults + 1
    <3>1. torn[c] # auditFaults + 1 /\ torn[d] # auditFaults + 1 /\ auditFaults + 1 # 0
      BY <1>1
    <3>2. QED BY <1>4, <2>2, <3>1 DEF TornAfter
  <2>3. QED BY <1>4, <2>1, <2>2 DEF TornAfter
<1>5. ASSUME NEW g \in Faults, g > auditFaults PROVE spoilt'[g] = 0
  <2>1. spoilt[g] = 0 /\ \A d \in Days : torn[d] # g
    <3>1. g \in Nat
      BY DEF Faults, AuditConstants
    <3>2. QED BY <1>1, <1>5, <3>1 DEF TornOk
  <2>2. QED BY <2>1
<1>6. \A g \in Faults : g > auditFaults' => spoilt'[g] = 0
  <2>1. \A g \in Faults : g \in Nat
    BY DEF Faults, AuditConstants
  <2>2. QED BY <1>1, <1>5, <2>1
<1>7. ASSUME NEW d \in Days, torn'[d] # 0 PROVE spoilt'[torn'[d]] = 0
  <2>1. CASE torn'[d] = torn[d] /\ d \notin X
    <3>1. torn[d] \in Faults /\ spoilt[torn[d]] = 0
      BY <1>1, <1>7, <2>1 DEF TornOk, Faults, AuditConstants
    <3>2. \A c \in Days : torn[c] = torn[d] => c = d
      BY <1>7, <2>1 DEF TornOk
    <3>3. QED BY <2>1, <3>1, <3>2
  <2>2. CASE torn'[d] = auditFaults + 1 /\ auditFaults' = auditFaults + 1
    <3>1. auditFaults + 1 \in Faults /\ auditFaults + 1 > auditFaults
      BY <1>1, <1>7, <2>2 DEF Faults, AuditConstants
    <3>2. QED BY <1>5, <2>2, <3>1
  <2>3. QED BY <1>7, <2>1, <2>2 DEF TornAfter
<1>8. QED BY <1>3, <1>4, <1>6, <1>7 DEF TornOk

\* The places a failing write gets to the files.
Written(entries, stamps, bad, last, killed) ==
    LET start(d) == Min(OfDay(entries, stamps, d)) IN
    {i \in DOMAIN entries : LET d == stamps[entries[i]] IN
        IF d = bad THEN i <= last ELSE killed => start(d) < start(bad)}

\* A flush takes what is ready to the files; what it does not get there is dropped.
LEMMA FlushWrites ==
  ASSUME AuditConstants, NEW entries, NEW stamps, Ready(entries, stamps), FlushBuffer(entries, stamps),
         auditFaults \in 0..MaxAuditFaults
  PROVE  /\ buffer' = << >> /\ auditFaults' \in {auditFaults, auditFaults + 1} /\ auditFaults' \in 0..MaxAuditFaults
         /\ DOMAIN torn' = Days /\ torn' = [d \in Days |-> torn'[d]]
         /\ \E W \in SUBSET DOMAIN entries, bad \in Days \cup {0} :
               /\ AppendLines(entries, stamps, W)
               /\ dropped' = dropped \cup {entries[i] : i \in DOMAIN entries \ W}
               /\ TornAfter(Reached(entries, stamps, W), bad)
<1>1. buffer' = << >> /\ entries \in Seq(DOMAIN stamps) /\ stamps \in Seq(Days)
  BY DEF FlushBuffer, Ready
<1>2. CASE /\ AppendLines(entries, stamps, DOMAIN entries)
           /\ torn' = [d \in Days |-> IF OfDay(entries, stamps, d) = {} THEN torn[d] ELSE 0]
           /\ UNCHANGED <<dropped, auditFaults>>
  <2> DEFINE X == Reached(entries, stamps, DOMAIN entries)
  <2>1. \A d \in Days : OfDay(entries, stamps, d) = {} => d \notin X
    BY DEF Reached
  <2> HIDE DEF X
  <2>2. TornAfter(X, 0)
    BY <1>2, <2>1 DEF TornAfter
  <2>3. dropped' = dropped \cup {entries[i] : i \in DOMAIN entries \ DOMAIN entries}
    BY <1>2
  <2>4. DOMAIN torn' = Days /\ torn' = [d \in Days |-> torn'[d]]
    BY <1>2
  <2>5. QED BY <1>1, <1>2, <2>2, <2>3, <2>4 DEF X
<1>3. CASE /\ auditFaults < MaxAuditFaults /\ auditFaults' = auditFaults + 1
           /\ \E bad \in {stamps[e] : e \in ToSet(entries)}, tears \in BOOLEAN, W \in SUBSET DOMAIN entries :
                /\ AppendLines(entries, stamps, W)
                /\ torn' = [d \in Days |-> IF d = bad /\ tears THEN auditFaults + 1
                                           ELSE IF W \cap OfDay(entries, stamps, d) = {} THEN torn[d] ELSE 0]
                /\ dropped' = dropped \cup {entries[i] : i \in DOMAIN entries \ W}
  <2>1. PICK bad \in {stamps[e] : e \in ToSet(entries)}, tears \in BOOLEAN, W \in SUBSET DOMAIN entries :
                /\ AppendLines(entries, stamps, W)
                /\ torn' = [d \in Days |-> IF d = bad /\ tears THEN auditFaults + 1
                                           ELSE IF W \cap OfDay(entries, stamps, d) = {} THEN torn[d] ELSE 0]
                /\ dropped' = dropped \cup {entries[i] : i \in DOMAIN entries \ W}
    BY <1>3
  <2>2. bad \in Days
    BY <1>1 DEF ToSet
  <2> DEFINE X == Reached(entries, stamps, W)
  <2>3. \A d \in Days : W \cap OfDay(entries, stamps, d) = {} => d \notin X
    BY DEF Reached
  <2> HIDE DEF X
  <2>4. TornAfter(X, bad)
    BY <1>3, <2>1, <2>3 DEF TornAfter
  <2>5. auditFaults' \in 0..MaxAuditFaults
    BY <1>3 DEF AuditConstants
  <2>6. DOMAIN torn' = Days /\ torn' = [d \in Days |-> torn'[d]]
    BY <2>1
  <2>7. QED BY <1>1, <1>3, <2>1, <2>2, <2>4, <2>5, <2>6 DEF X
<1>4. \/ /\ AppendLines(entries, stamps, DOMAIN entries)
         /\ torn' = [d \in Days |-> IF OfDay(entries, stamps, d) = {} THEN torn[d] ELSE 0]
         /\ UNCHANGED <<dropped, auditFaults>>
      \/ /\ auditFaults < MaxAuditFaults /\ auditFaults' = auditFaults + 1
         /\ \E bad \in {stamps[e] : e \in ToSet(entries)}, tears \in BOOLEAN, W \in SUBSET DOMAIN entries :
              /\ AppendLines(entries, stamps, W)
              /\ torn' = [d \in Days |-> IF d = bad /\ tears THEN auditFaults + 1
                                         ELSE IF W \cap OfDay(entries, stamps, d) = {} THEN torn[d] ELSE 0]
              /\ dropped' = dropped \cup {entries[i] : i \in DOMAIN entries \ W}
  <2>1. CASE /\ AppendLines(entries, stamps, DOMAIN entries)
             /\ torn' = [d \in Days |-> IF OfDay(entries, stamps, d) = {} THEN torn[d] ELSE 0]
             /\ UNCHANGED <<dropped, auditFaults>>
    BY <2>1
  <2>2. CASE /\ auditFaults < MaxAuditFaults /\ auditFaults' = auditFaults + 1
             /\ \E bad \in {stamps[e] : e \in ToSet(entries)}, last \in 0..Len(entries), killed, tears \in BOOLEAN :
                  LET W == Written(entries, stamps, bad, last, killed)
                  IN  /\ ~(OfDay(entries, stamps, bad) \subseteq W)
                      /\ AppendLines(entries, stamps, W)
                      /\ torn' = [d \in Days |-> IF d = bad /\ tears THEN auditFaults + 1
                                                 ELSE IF W \cap OfDay(entries, stamps, d) = {} THEN torn[d] ELSE 0]
                      /\ dropped' = dropped \cup {entries[i] : i \in DOMAIN entries \ W}
    <3>1. \A bad, last, killed : Written(entries, stamps, bad, last, killed) \in SUBSET DOMAIN entries
      BY DEF Written
    <3>2. QED BY <2>2, <3>1
  <2>3. \/ /\ AppendLines(entries, stamps, DOMAIN entries)
           /\ torn' = [d \in Days |-> IF OfDay(entries, stamps, d) = {} THEN torn[d] ELSE 0]
           /\ UNCHANGED <<dropped, auditFaults>>
        \/ /\ auditFaults < MaxAuditFaults /\ auditFaults' = auditFaults + 1
           /\ \E bad \in {stamps[e] : e \in ToSet(entries)}, last \in 0..Len(entries), killed, tears \in BOOLEAN :
                LET W == Written(entries, stamps, bad, last, killed)
                IN  /\ ~(OfDay(entries, stamps, bad) \subseteq W)
                    /\ AppendLines(entries, stamps, W)
                    /\ torn' = [d \in Days |-> IF d = bad /\ tears THEN auditFaults + 1
                                               ELSE IF W \cap OfDay(entries, stamps, d) = {} THEN torn[d] ELSE 0]
                    /\ dropped' = dropped \cup {entries[i] : i \in DOMAIN entries \ W}
    BY Zenon DEF FlushBuffer, Written
  <2>4. QED BY Zenon, <2>1, <2>2, <2>3
<1>5. QED BY <1>2, <1>3, <1>4

LEMMA FlushKeeps ==
  ASSUME AuditConstants, NEW entries, NEW stamps, Ready(entries, stamps), FlushBuffer(entries, stamps), TornOk,
         logged' = stamps, cleaned' = cleaned, auditFaults \in 0..MaxAuditFaults, dropped \in SUBSET (DOMAIN stamps),
         spoilt \in [Faults -> 0..Len(stamps)]
  PROVE  /\ Ready(buffer, logged)' /\ buffer' = << >> /\ dropped' \in SUBSET (DOMAIN stamps)
         /\ auditFaults' \in 0..MaxAuditFaults /\ TornOk' /\ spoilt' \in [Faults -> 0..Len(stamps)]
<1>1. /\ stamps \in Seq(Days) /\ Len(stamps) <= MaxLogged /\ entries \in Seq(DOMAIN stamps)
      /\ DOMAIN stamps = 1..Len(stamps) /\ Len(stamps) \in Nat
  BY DEF Ready
<1>2. /\ buffer' = << >> /\ auditFaults' \in {auditFaults, auditFaults + 1} /\ auditFaults' \in 0..MaxAuditFaults
      /\ DOMAIN torn' = Days /\ torn' = [d \in Days |-> torn'[d]]
  BY FlushWrites
<1>3. PICK W \in SUBSET DOMAIN entries, bad \in Days \cup {0} :
               /\ AppendLines(entries, stamps, W)
               /\ dropped' = dropped \cup {entries[i] : i \in DOMAIN entries \ W}
               /\ TornAfter(Reached(entries, stamps, W), bad)
  BY FlushWrites
<1>4. /\ logFiles' \in [Days -> Seq(DOMAIN stamps)]
      /\ \A d \in Days : /\ Rising(logFiles'[d]) /\ ToSet(logFiles[d]) \subseteq ToSet(logFiles'[d])
                         /\ \A e \in ToSet(logFiles'[d]) : stamps[e] = d
      /\ spoilt' \in [Faults -> 0..Len(stamps)]
      /\ \A i \in W : \/ entries[i] \in ToSet(logFiles'[stamps[entries[i]]])
                      \/ \E g \in Faults : spoilt'[g] = entries[i]
      /\ \A g \in Faults : spoilt'[g] # spoilt[g] =>
            spoilt[g] = 0 /\ \E d \in Reached(entries, stamps, W) : torn[d] = g
  <2>1. W \in SUBSET DOMAIN entries /\ AppendLines(entries, stamps, W)
    BY <1>3
  <2>2. spoilt \in [Faults -> 0..Len(stamps)] /\ TornOk /\ auditFaults \in 0..MaxAuditFaults /\ Ready(entries, stamps)
    OBVIOUS
  <2>3. Appended(entries, stamps, W)
    BY <2>1, <2>2, AppendKeeps
  <2>4. QED BY <2>3 DEF Appended
<1>5. TornOk'
  <2>1. \A g \in Faults : spoilt'[g] # spoilt[g] => \E d \in Reached(entries, stamps, W) : d \in Days /\ torn[d] = g
    BY <1>4 DEF Reached
  <2>2. QED BY <1>2, <1>3, <2>1, TornKept
<1>6. dropped' \in SUBSET (DOMAIN stamps)
  <2>1. \A i \in DOMAIN entries : entries[i] \in DOMAIN stamps
    BY <1>1
  <2>2. QED BY <1>3, <2>1
<1>7. ASSUME NEW e \in DOMAIN stamps, e \notin Lost' PROVE e \in ToSet(logFiles'[stamps[e]]) \/ stamps[e] < cleaned
  <2>1. stamps[e] \in Days /\ e # 0 /\ e \notin dropped' /\ \A g \in Faults : spoilt'[g] # e
    BY <1>1, <1>7 DEF Lost
  <2>2. e \notin Lost
    BY <1>3, <1>4, <2>1 DEF Lost
  <2>3. e \in ToSet(entries) \/ e \in ToSet(logFiles[stamps[e]]) \/ stamps[e] < cleaned
    BY <1>7, <2>2 DEF Ready
  <2>4. CASE e \in ToSet(entries)
    <3>1. PICK i \in DOMAIN entries : e = entries[i]
      BY <2>4 DEF ToSet
    <3>2. i \in W
      BY <1>3, <2>1, <3>1
    <3>3. QED BY <1>4, <2>1, <3>1, <3>2
  <2>5. QED BY <1>4, <2>1, <2>3, <2>4
<1>8. Ready(buffer, logged)'
  <2>1. PICK b : b = buffer'
    OBVIOUS
  <2>2. b \in Seq(DOMAIN stamps) /\ Rising(b) /\ DOMAIN b = {}
    BY <1>2, <2>1 DEF Rising
  <2>3. \A d \in Days : \A i \in DOMAIN logFiles'[d] : stamps[logFiles'[d][i]] = d
    BY <1>4 DEF ToSet
  <2>4. \A e \in DOMAIN stamps \ Lost' : e \in ToSet(logFiles'[stamps[e]]) \/ stamps[e] < cleaned'
    BY <1>7
  <2>5. \A d \in Days : Rising(logFiles'[d])
    BY <1>4
  <2>6. QED BY <1>1, <1>4, <2>1, <2>2, <2>3, <2>4, <2>5 DEF Ready
<1>9. QED BY <1>2, <1>4, <1>5, <1>6, <1>8

\* An entry comes, and is the last of those that wait.
LEMMA EntryWaits ==
  ASSUME AuditConstants, AuditInv, NEW day \in Days, Len(logged) < MaxLogged,
         NEW stamps, stamps = Append(logged, day), NEW entries, entries = Append(buffer, Len(stamps))
  PROVE  Ready(entries, stamps) /\ DOMAIN logged \in SUBSET (DOMAIN stamps)
         /\ Len(entries) = Len(buffer) + 1 /\ ToSet(entries) \in SUBSET (DOMAIN stamps)
<1> DEFINE n == Len(logged)
<1>1. /\ AuditTypeOK /\ logged \in Seq(Days) /\ n \in Nat /\ MaxLogged \in Nat /\ DOMAIN logged = 1..n
      /\ buffer \in Seq(DOMAIN logged) /\ Rising(buffer) /\ logFiles \in [Days -> Seq(DOMAIN logged)]
  BY DEF AuditInv, Ready, AuditConstants
<1>2. /\ stamps \in Seq(Days) /\ Len(stamps) = n + 1 /\ DOMAIN stamps = 1..(n + 1) /\ stamps[n + 1] = day
      /\ \A e \in DOMAIN logged : e \in DOMAIN stamps /\ stamps[e] = logged[e]
  BY <1>1
<1>3. Len(buffer) \in Nat /\ DOMAIN buffer = 1..Len(buffer) /\ \A j \in DOMAIN buffer : buffer[j] \in 1..n
  BY <1>1
<1>4. /\ Len(entries) = Len(buffer) + 1 /\ DOMAIN entries = 1..(Len(buffer) + 1)
      /\ entries[Len(buffer) + 1] = n + 1 /\ \A j \in DOMAIN buffer : j \in DOMAIN entries /\ entries[j] = buffer[j]
  BY <1>1, <1>2, <1>3
<1>5. \A j \in DOMAIN entries : (j \in DOMAIN buffer /\ entries[j] = buffer[j]) \/ (j = Len(buffer) + 1 /\ entries[j] = n + 1)
  BY <1>3, <1>4
<1>6. entries \in Seq(DOMAIN stamps)
  <2>1. \A j \in DOMAIN entries : entries[j] \in DOMAIN stamps
    BY <1>1, <1>2, <1>3, <1>5
  <2>2. entries = [j \in 1..(Len(buffer) + 1) |-> entries[j]]
    BY <1>1, <1>2, <1>4
  <2>3. QED BY <1>3, <1>4, <2>1, <2>2
<1>7. Rising(entries)
  <2>1. SUFFICES ASSUME NEW i \in DOMAIN entries, NEW j \in DOMAIN entries, i < j PROVE entries[i] < entries[j]
    BY DEF Rising
  <2>2. i \in DOMAIN buffer /\ entries[i] = buffer[i] /\ buffer[i] \in 1..n
    BY <1>3, <1>4, <1>5, <2>1
  <2>3. CASE j \in DOMAIN buffer
    BY <1>1, <1>4, <2>1, <2>2, <2>3 DEF Rising
  <2>4. CASE j = Len(buffer) + 1
    BY <1>1, <1>4, <2>2, <2>4
  <2>5. QED BY <1>5, <2>3, <2>4
<1>8. logFiles \in [Days -> Seq(DOMAIN stamps)]
  <2>1. \A d \in Days : logFiles[d] \in Seq(DOMAIN logged)
    BY <1>1
  <2>2. \A d \in Days : logFiles[d] \in Seq(DOMAIN stamps)
    BY <1>2, <2>1
  <2>3. QED BY <1>1, <2>2
<1>9. ASSUME NEW d \in Days, NEW i \in DOMAIN logFiles[d]
      PROVE  stamps[logFiles[d][i]] = d /\ \A j \in DOMAIN entries : logFiles[d][i] < entries[j]
  <2>1. logFiles[d][i] \in 1..n /\ logged[logFiles[d][i]] = d
    BY <1>1, <1>9 DEF AuditInv, Ready
  <2>2. \A j \in DOMAIN buffer : logFiles[d][i] < buffer[j]
    BY <1>9 DEF AuditInv, Ready
  <2>3. logFiles[d][i] < n + 1
    BY <1>1, <2>1
  <2>4. QED BY <1>1, <1>2, <1>5, <2>1, <2>2, <2>3
<1>10. ASSUME NEW e \in DOMAIN stamps \ Lost
       PROVE  e \in ToSet(entries) \/ e \in ToSet(logFiles[stamps[e]]) \/ stamps[e] < cleaned
  <2>1. CASE e = n + 1
    <3>1. Len(buffer) + 1 \in DOMAIN entries
      BY <1>3, <1>4
    <3>2. QED BY <1>4, <2>1, <3>1 DEF ToSet
  <2>2. CASE e \in DOMAIN logged
    <3>1. e \in ToSet(buffer) \/ e \in ToSet(logFiles[logged[e]]) \/ logged[e] < cleaned
      BY <1>10, <2>2 DEF AuditInv, Ready
    <3>2. e \in ToSet(buffer) => e \in ToSet(entries)
      BY <1>4 DEF ToSet
    <3>3. QED BY <1>2, <2>2, <3>1, <3>2
  <2>3. QED BY <1>1, <1>2, <2>1, <2>2
<1>11. Len(stamps) <= MaxLogged
  BY <1>1, <1>2
<1>12. Ready(entries, stamps)
  BY <1>1, <1>2, <1>6, <1>7, <1>8, <1>9, <1>10, <1>11 DEF Ready, AuditInv
<1>13. ToSet(entries) \in SUBSET (DOMAIN stamps)
  BY <1>6 DEF ToSet
<1>14. QED BY <1>2, <1>4, <1>12, <1>13

LEMMA AuditBegins == ASSUME AuditConstants PROVE AuditInit => AuditInv
<1>1. SUFFICES ASSUME AuditInit PROVE AuditInv
  OBVIOUS
<1>2. /\ logged = << >> /\ buffer = << >> /\ logFiles = [d \in Days |-> << >>] /\ dropped = {} /\ today = 1
      /\ cleaned = 1 /\ auditFaults = 0 /\ 1 \in Days
      /\ MaxLogged \in Nat /\ MaxAuditFaults \in Nat /\ BufferSize \in Nat \ {0}
      /\ torn = [d \in Days |-> 0] /\ spoilt = [g \in Faults |-> 0]
  BY <1>1, DaysAreNumbers DEF AuditInit, AuditConstants
<1>3. \A d \in Days : logFiles[d] = << >> /\ DOMAIN logFiles[d] = {} /\ ToSet(logFiles[d]) = {}
  BY <1>2 DEF ToSet
<1>4. DOMAIN logged = {} /\ Len(logged) = 0 /\ logged \in Seq(Days) /\ DOMAIN buffer = {} /\ Len(buffer) = 0 /\ ToSet(buffer) = {}
  BY <1>2 DEF ToSet
<1>5. buffer \in Seq(DOMAIN logged) /\ logFiles \in [Days -> Seq(DOMAIN logged)]
  BY <1>2
<1>6. Ready(buffer, logged)
  BY <1>2, <1>3, <1>4, <1>5 DEF Ready, Rising
<1>7. AuditTypeOK
  BY <1>2, <1>3, <1>4 DEF AuditTypeOK
<1>8. TornOk
  BY <1>2 DEF TornOk
<1>9. QED BY <1>2, <1>6, <1>7, <1>8 DEF AuditInv, KeptSince

\* The types of the buffer and the files follow from what is ready.
LEMMA ReadyTyped ==
  ASSUME Ready(buffer, logged)
  PROVE  /\ logged \in Seq(Days) /\ Len(logged) <= MaxLogged /\ ToSet(buffer) \subseteq DOMAIN logged
         /\ \A d \in Days : ToSet(logFiles[d]) \subseteq DOMAIN logged
BY DEF Ready, ToSet

LEMMA TornTyped ==
  ASSUME AuditConstants, TornOk', auditFaults' \in 0..MaxAuditFaults
  PROVE  torn' \in [Days -> 0..MaxAuditFaults]
BY DEF TornOk, AuditConstants

LEMMA LogKeeps == ASSUME AuditConstants, AuditInv, NEW day \in Days, Log(day) PROVE AuditInv'
<1>1. PICK stamps : stamps = Append(logged, day)
  OBVIOUS
<1>2. PICK entries : entries = Append(buffer, Len(stamps))
  OBVIOUS
<1>3. /\ Len(logged) < MaxLogged /\ logged' = stamps /\ UNCHANGED <<today, cleaned>>
      /\ IF Len(entries) >= BufferSize THEN FlushBuffer(entries, stamps)
         ELSE buffer' = entries /\ UNCHANGED fileVars
  BY <1>1, <1>2 DEF Log
<1>4. /\ Ready(entries, stamps) /\ DOMAIN logged \in SUBSET (DOMAIN stamps) /\ Len(entries) = Len(buffer) + 1
  BY <1>1, <1>2, <1>3, EntryWaits
<1>5. /\ AuditTypeOK /\ KeptSince /\ BufferSize \in Nat \ {0} /\ Len(buffer) \in Nat
      /\ dropped \in SUBSET (DOMAIN stamps) /\ auditFaults \in 0..MaxAuditFaults
      /\ TornOk /\ spoilt \in [Faults -> 0..Len(stamps)]
  <2>1. AuditTypeOK /\ KeptSince /\ BufferSize \in Nat \ {0} /\ TornOk
    BY DEF AuditInv, AuditConstants
  <2>5. spoilt \in [Faults -> 0..Len(stamps)]
    <3>1. spoilt \in [Faults -> 0..Len(logged)] /\ logged \in Seq(Days)
      BY <2>1 DEF AuditTypeOK
    <3>2. Len(logged) \in Nat /\ Len(stamps) = Len(logged) + 1
      BY <1>1, <3>1
    <3>3. QED BY <3>1, <3>2
  <2>2. dropped \in SUBSET (DOMAIN logged) /\ auditFaults \in 0..MaxAuditFaults
    BY <2>1 DEF AuditTypeOK
  <2>3. buffer \in Seq(DOMAIN logged)
    BY DEF AuditInv, Ready
  <2>4. QED BY <1>4, <2>1, <2>2, <2>3, <2>5
<1>6. /\ Ready(buffer, logged)' /\ Len(buffer') < BufferSize /\ dropped' \in SUBSET (DOMAIN stamps) /\ auditFaults' \in 0..MaxAuditFaults
      /\ TornOk' /\ spoilt' \in [Faults -> 0..Len(stamps)]
  <2>1. CASE Len(entries) >= BufferSize
    <3>1. /\ Ready(buffer, logged)' /\ buffer' = << >> /\ dropped' \in SUBSET (DOMAIN stamps) /\ auditFaults' \in 0..MaxAuditFaults
          /\ TornOk' /\ spoilt' \in [Faults -> 0..Len(stamps)]
      BY <1>3, <1>4, <1>5, <2>1, FlushKeeps
    <3>2. Len(<< >>) < BufferSize
      BY <1>5
    <3>3. QED BY <3>1, <3>2
  <2>2. CASE ~(Len(entries) >= BufferSize)
    <3>1. buffer' = entries /\ UNCHANGED <<logFiles, torn, dropped, spoilt, auditFaults>>
      BY <1>3, <2>2 DEF fileVars
    <3>2. Lost' = Lost
      BY <3>1 DEF Lost
    <3>3. Ready(buffer, logged)'
      BY <1>3, <1>4, <3>1, <3>2 DEF Ready
    <3>4. TornOk'
      BY <1>5, <3>1 DEF TornOk
    <3>5. QED BY <1>4, <1>5, <2>2, <3>1, <3>3, <3>4
  <2>3. QED BY <2>1, <2>2
<1>7. AuditTypeOK'
  <2>1. /\ (logged \in Seq(Days))' /\ (Len(logged) <= MaxLogged)' /\ (ToSet(buffer) \subseteq DOMAIN logged)'
        /\ (\A d \in Days : ToSet(logFiles[d]) \subseteq DOMAIN logged)'
    BY <1>6, ReadyTyped, PTL
  <2>2. (torn \in [Days -> 0..MaxAuditFaults])' /\ (spoilt \in [Faults -> 0..Len(logged)])'
    BY <1>3, <1>6, TornTyped
  <2>3. QED BY <1>3, <1>5, <1>6, <2>1, <2>2 DEF AuditTypeOK
<1>8. KeptSince'
  BY <1>3, <1>5 DEF KeptSince
<1>9. QED BY <1>6, <1>7, <1>8 DEF AuditInv

LEMMA FlushStep == ASSUME AuditConstants, AuditInv, Flush PROVE AuditInv'
<1>1. PICK stamps : stamps = logged
  OBVIOUS
<1>2. PICK entries : entries = buffer
  OBVIOUS
<1>3. /\ FlushBuffer(entries, stamps) /\ logged' = stamps /\ UNCHANGED <<today, cleaned>>
  BY <1>1, <1>2 DEF Flush
<1>4. /\ Ready(entries, stamps) /\ AuditTypeOK /\ KeptSince /\ BufferSize \in Nat \ {0}
      /\ dropped \in SUBSET (DOMAIN stamps) /\ auditFaults \in 0..MaxAuditFaults
      /\ TornOk /\ spoilt \in [Faults -> 0..Len(stamps)]
  BY <1>1, <1>2 DEF AuditInv, AuditTypeOK, AuditConstants
<1>5. /\ Ready(buffer, logged)' /\ buffer' = << >> /\ dropped' \in SUBSET (DOMAIN stamps) /\ auditFaults' \in 0..MaxAuditFaults
      /\ TornOk' /\ spoilt' \in [Faults -> 0..Len(stamps)]
  BY <1>3, <1>4, FlushKeeps
<1>6. Len(buffer') < BufferSize
  <2>1. Len(<< >>) < BufferSize
    BY <1>4
  <2>2. QED BY <1>5, <2>1
<1>7. AuditTypeOK'
  <2>1. /\ (logged \in Seq(Days))' /\ (Len(logged) <= MaxLogged)' /\ (ToSet(buffer) \subseteq DOMAIN logged)'
        /\ (\A d \in Days : ToSet(logFiles[d]) \subseteq DOMAIN logged)'
    BY <1>5, ReadyTyped, PTL
  <2>2. (torn \in [Days -> 0..MaxAuditFaults])' /\ (spoilt \in [Faults -> 0..Len(logged)])'
    BY <1>3, <1>5, TornTyped
  <2>3. QED BY <1>3, <1>4, <1>5, <1>6, <2>1, <2>2 DEF AuditTypeOK
<1>8. KeptSince'
  BY <1>3, <1>4 DEF KeptSince
<1>9. QED BY <1>5, <1>7, <1>8 DEF AuditInv

LEMMA ProcessDiesStep == ASSUME AuditConstants, AuditInv, ProcessDies PROVE AuditInv'
<1>1. /\ buffer' = << >> /\ auditFaults < MaxAuditFaults /\ auditFaults' = auditFaults + 1
      /\ dropped' = dropped \cup ToSet(buffer) /\ UNCHANGED <<logged, logFiles, torn, spoilt, today, cleaned>>
  BY DEF ProcessDies
<1>2. /\ Ready(buffer, logged) /\ AuditTypeOK /\ KeptSince /\ TornOk /\ BufferSize \in Nat \ {0} /\ MaxAuditFaults \in Nat
  BY DEF AuditInv, AuditConstants
<1>3. ToSet(buffer) \subseteq DOMAIN logged /\ dropped \subseteq DOMAIN logged /\ auditFaults \in 0..MaxAuditFaults
  BY <1>2 DEF AuditTypeOK
<1>4. DOMAIN buffer' = {} /\ Len(buffer') = 0 /\ ToSet(buffer') = {} /\ buffer' \in Seq(DOMAIN logged)
  BY <1>1 DEF ToSet
<1>5. ASSUME NEW e \in DOMAIN logged \ Lost' PROVE e \in ToSet(logFiles[logged[e]]) \/ logged[e] < cleaned
  <2>1. e \notin Lost /\ e \notin ToSet(buffer)
    BY <1>1, <1>5 DEF Lost
  <2>2. QED BY <1>2, <1>5, <2>1 DEF Ready
<1>6. Ready(buffer, logged)'
  BY <1>1, <1>2, <1>4, <1>5 DEF Ready, Rising
<1>7. auditFaults' \in 0..MaxAuditFaults /\ dropped' \subseteq DOMAIN logged
  BY <1>1, <1>2, <1>3
<1>8. AuditTypeOK'
  BY <1>1, <1>2, <1>4, <1>7 DEF AuditTypeOK
<1>9. KeptSince'
  BY <1>1, <1>2 DEF KeptSince
<1>10. TornOk'
  <2>1. auditFaults \in Nat /\ auditFaults' = auditFaults + 1
    BY <1>1, <1>3
  <2>2. \A g \in Faults : g \in Nat
    BY DEF Faults, AuditConstants
  <2>3. torn' \in [Days -> 0..auditFaults']
    BY <1>1, <1>2, <2>1 DEF TornOk
  <2>4. QED BY <1>1, <1>2, <2>1, <2>2, <2>3 DEF TornOk
<1>11. QED BY <1>6, <1>8, <1>9, <1>10 DEF AuditInv

LEMMA CleanupStep == ASSUME AuditConstants, AuditInv, CleanupOldLogs PROVE AuditInv'
<1>1. PICK cutoff : cutoff = IF today > KeepDays THEN today - KeepDays ELSE 1
  OBVIOUS
<1>2. /\ cleaned' = cutoff /\ logFiles' = [d \in Days |-> IF d < cutoff THEN << >> ELSE logFiles[d]]
      /\ torn' = [d \in Days |-> IF d < cutoff THEN 0 ELSE torn[d]]
      /\ UNCHANGED <<logged, buffer, today, dropped, spoilt, auditFaults>>
  BY <1>1 DEF CleanupOldLogs
<1>3. /\ Ready(buffer, logged) /\ AuditTypeOK /\ KeptSince /\ TornOk /\ KeepDays \in Nat
      /\ Days \in SUBSET Nat /\ Days = 1..LastDay /\ LastDay \in Nat
  BY DaysAreNumbers DEF AuditInv, AuditConstants
<1>4. today \in Days /\ cleaned \in Days /\ logged \in Seq(Days) /\ logFiles \in [Days -> Seq(DOMAIN logged)]
  BY <1>3 DEF AuditTypeOK, Ready
<1>5. cutoff \in Days /\ cleaned <= cutoff /\ (cutoff = 1 \/ cutoff + KeepDays <= today)
  BY <1>1, <1>3, <1>4 DEF KeptSince
<1>6. ASSUME NEW d \in Days
      PROVE  /\ logFiles'[d] \in {<< >>, logFiles[d]} /\ (~(d < cutoff) => logFiles'[d] = logFiles[d])
             /\ logFiles'[d] \in Seq(DOMAIN logged)
  <2>1. << >> \in Seq(DOMAIN logged)
    OBVIOUS
  <2>2. logFiles[d] \in Seq(DOMAIN logged)
    BY <1>4
  <2>3. logFiles'[d] = IF d < cutoff THEN << >> ELSE logFiles[d]
    BY <1>2
  <2>4. QED BY <2>1, <2>2, <2>3
<1>7. logFiles' \in [Days -> Seq(DOMAIN logged)]
  BY <1>2, <1>6
<1>8. \A d \in Days : Rising(logFiles'[d])
  <2>1. Rising(<< >>)
    BY DEF Rising
  <2>2. \A d \in Days : Rising(logFiles[d])
    BY <1>3 DEF Ready
  <2>3. QED BY <1>6, <2>1, <2>2
<1>9. ASSUME NEW d \in Days, NEW i \in DOMAIN logFiles'[d]
      PROVE  logged[logFiles'[d][i]] = d /\ \A j \in DOMAIN buffer : logFiles'[d][i] < buffer[j]
  <2>1. logFiles'[d] = logFiles[d]
    BY <1>6, <1>9
  <2>2. QED BY <1>3, <1>9, <2>1 DEF Ready
<1>10. ASSUME NEW e \in DOMAIN logged \ Lost
       PROVE  e \in ToSet(buffer) \/ e \in ToSet(logFiles'[logged[e]]) \/ logged[e] < cutoff
  <2>1. logged[e] \in Days
    BY <1>4
  <2>2. e \in ToSet(buffer) \/ e \in ToSet(logFiles[logged[e]]) \/ logged[e] < cleaned
    BY <1>3 DEF Ready
  <2>3. logged[e] < cleaned => logged[e] < cutoff
    BY <1>3, <1>4, <1>5, <2>1
  <2>4. QED BY <1>6, <2>1, <2>2, <2>3
<1>11. Ready(buffer, logged)'
  <2>1. /\ logged \in Seq(Days) /\ Len(logged) <= MaxLogged /\ buffer \in Seq(DOMAIN logged) /\ Rising(buffer)
    BY <1>3 DEF Ready
  <2>2. /\ buffer' = buffer /\ logged' = logged /\ Lost' = Lost /\ cleaned' = cutoff
    BY <1>2 DEF Lost
  <2>3. /\ (logged \in Seq(Days))' /\ (Len(logged) <= MaxLogged)' /\ (buffer \in Seq(DOMAIN logged))' /\ Rising(buffer)'
        /\ (logFiles \in [Days -> Seq(DOMAIN logged)])' /\ (\A d \in Days : Rising(logFiles[d]))'
    BY <1>7, <1>8, <2>1, <2>2 DEF Rising
  <2>4. \A d \in Days : \A i \in DOMAIN logFiles'[d] : logged'[logFiles'[d][i]] = d
    BY <1>9, <2>2
  <2>5. \A d \in Days : \A i \in DOMAIN logFiles'[d] : \A j \in DOMAIN buffer' : logFiles'[d][i] < buffer'[j]
    BY <1>9, <2>2
  <2>6. \A e \in DOMAIN logged' \ Lost' :
          e \in ToSet(buffer') \/ e \in ToSet(logFiles'[logged'[e]]) \/ logged'[e] < cleaned'
    BY <1>10, <2>2
  <2>7. QED BY <2>3, <2>4, <2>5, <2>6 DEF Ready
<1>12. AuditTypeOK'
  <2>1. \A d \in Days : ToSet(logFiles'[d]) \subseteq DOMAIN logged
    BY <1>6 DEF ToSet
  <2>2. torn' \in [Days -> 0..MaxAuditFaults]
    BY <1>2, <1>3 DEF AuditTypeOK, AuditConstants
  <2>3. QED BY <1>2, <1>3, <1>5, <2>1, <2>2 DEF AuditTypeOK
<1>13. KeptSince'
  BY <1>2, <1>5 DEF KeptSince
<1>14. TornOk'
  <2>1. \A d \in Days : torn'[d] = 0 \/ torn'[d] = torn[d]
    BY <1>2
  <2>2. torn' \in [Days -> 0..auditFaults]
    <3>1. auditFaults \in Nat /\ torn \in [Days -> 0..auditFaults]
      BY <1>3 DEF AuditTypeOK, AuditConstants, TornOk
    <3>2. QED BY <1>2, <3>1
  <2>3. QED BY <1>2, <1>3, <2>1, <2>2 DEF TornOk
<1>15. QED BY <1>11, <1>12, <1>13, <1>14 DEF AuditInv

LEMMA AuditSteps == ASSUME AuditConstants PROVE AuditInv /\ [AuditNext]_auditVars => AuditInv'
<1>1. SUFFICES ASSUME AuditInv, [AuditNext]_auditVars PROVE AuditInv'
  OBVIOUS
<1>2. CASE \E d \in Days : Log(d)
  BY <1>1, <1>2, LogKeeps
<1>3. CASE Flush \/ ProcessDies \/ CleanupOldLogs
  BY <1>1, <1>3, FlushStep, ProcessDiesStep, CleanupStep
<1>4. CASE DayPasses
  <2>1. today' = today + 1 /\ today < LastDay /\ UNCHANGED <<logged, buffer, logFiles, torn, dropped, spoilt, cleaned, auditFaults>>
    BY <1>4 DEF DayPasses, fileVars
  <2>2. AuditTypeOK /\ Ready(buffer, logged) /\ KeptSince /\ TornOk /\ KeepDays \in Nat /\ Days = 1..LastDay /\ LastDay \in Nat
    BY <1>1, DaysAreNumbers DEF AuditInv, AuditConstants
  <2>3. today \in Days /\ cleaned \in Days
    BY <2>2 DEF AuditTypeOK
  <2>4. today' \in Days /\ KeptSince'
    BY <2>1, <2>2, <2>3 DEF KeptSince
  <2>5. AuditTypeOK' /\ Ready(buffer, logged)'
    BY <2>1, <2>2, <2>4 DEF AuditTypeOK, Ready, Lost
  <2>6. TornOk'
    BY <2>1, <2>2 DEF TornOk
  <2>7. QED BY <2>4, <2>5, <2>6 DEF AuditInv
<1>5. CASE UNCHANGED auditVars
  <2>1. UNCHANGED <<logged, buffer, logFiles, torn, dropped, spoilt, today, cleaned, auditFaults>>
    BY <1>5 DEF auditVars, fileVars
  <2>2. AuditTypeOK' /\ Ready(buffer, logged)' /\ KeptSince'
    BY <1>1, <2>1 DEF AuditInv, AuditTypeOK, Ready, Lost, KeptSince
  <2>3. TornOk'
    BY <1>1, <2>1 DEF AuditInv, TornOk
  <2>4. QED BY <2>2, <2>3 DEF AuditInv
<1>6. QED BY <1>1, <1>2, <1>3, <1>4, <1>5 DEF AuditNext

\* The recursion of a query over the days is well-founded: its function exists.
LEMMA BackIs ==
  ASSUME AuditConstants
  PROVE  Back = [d \in 0..LastDay |-> IF d = 0 THEN << >> ELSE logFiles[d] \o Back[d - 1]]
<1> DEFINE Upto(k, f) == f = [d \in 0..k |-> IF d = 0 THEN << >> ELSE logFiles[d] \o f[d - 1]]
           Missing == {k \in 0..LastDay : ~ \E f : Upto(k, f)}
<1>1. LastDay \in Nat
  BY DEF AuditConstants
<1>2. ASSUME Missing # {} PROVE FALSE
  <2>1. Missing \in SUBSET Nat
    <3>1. \A k \in Missing : k \in 0..LastDay
      OBVIOUS
    <3> HIDE DEF Missing
    <3>2. QED BY <1>1, <3>1
  <2>2. PICK k \in Missing : \A e \in Missing : k <= e
    <3> HIDE DEF Missing
    <3>1. QED BY <1>2, <2>1, LeastIsThere
  <2>3. CASE k = 0
    <3>1. Upto(0, [d \in 0..0 |-> << >>])
      OBVIOUS
    <3>2. QED BY <2>2, <2>3, <3>1
  <2>4. CASE k # 0
    <3>1. k \in Nat /\ k - 1 \in 0..LastDay /\ ~(k <= k - 1)
      BY <1>1, <2>2, <2>4
    <3>2. k - 1 \notin Missing
      BY <2>2, <3>1
    <3>3. PICK f : Upto(k - 1, f)
      BY <3>1, <3>2
    <3>4. PICK g : g = [d \in 0..k |-> IF d = k THEN logFiles[k] \o f[k - 1] ELSE f[d]]
      OBVIOUS
    <3>5. \A d \in 0..(k - 1) : g[d] = f[d]
      BY <3>1, <3>4
    <3>6. ASSUME NEW d \in 0..k PROVE g[d] = IF d = 0 THEN << >> ELSE logFiles[d] \o g[d - 1]
      <4>1. CASE d = k
        <5>1. k \in 0..k /\ k - 1 \in 0..(k - 1)
          BY <2>4, <3>1
        <5>2. g[k] = logFiles[k] \o f[k - 1]
          BY <3>4, <5>1
        <5>3. g[k - 1] = f[k - 1]
          BY <3>5, <5>1
        <5>4. QED BY <2>4, <4>1, <5>2, <5>3
      <4>2. CASE d # k
        <5>1. d \in 0..(k - 1) /\ (d # 0 => d - 1 \in 0..(k - 1))
          BY <3>1, <4>2
        <5>2. f[d] = IF d = 0 THEN << >> ELSE logFiles[d] \o f[d - 1]
          BY <3>3, <5>1
        <5>3. QED BY <3>5, <5>1, <5>2
      <4>3. QED BY <4>1, <4>2
    <3>7. Upto(k, g)
      BY <3>4, <3>6
    <3>8. QED BY <2>2, <3>7
  <2>5. QED BY <2>3, <2>4
<1>3. \E f : Upto(LastDay, f)
  <2>1. LastDay \in 0..LastDay
    BY <1>1
  <2>2. LastDay \notin Missing
    BY <1>2
  <2> HIDE DEF Upto
  <2>3. QED BY <2>1, <2>2
<1>4. Back = CHOOSE f : Upto(LastDay, f)
  BY DEF Back
<1>5. Upto(LastDay, Back)
  <2> HIDE DEF Upto
  <2>1. QED BY <1>3, <1>4
<1>6. QED BY <1>5

\* What is read of the days up to one: all that their files have, each entry once.
ReadBack(d) ==
    /\ Back[d] \in Seq(DOMAIN logged)
    /\ \A i, j \in DOMAIN Back[d] : Back[d][i] = Back[d][j] => i = j
    /\ \A i \in DOMAIN Back[d] : logged[Back[d][i]] <= d
    /\ \A o \in Days : o <= d => ToSet(logFiles[o]) \subseteq ToSet(Back[d])

LEMMA ReadsAll == ASSUME AuditConstants, AuditInv PROVE \A d \in 0..LastDay : ReadBack(d)
<1> DEFINE Bad == {d \in 0..LastDay : ~ReadBack(d)}
<1>1. SUFFICES ASSUME Bad # {} PROVE FALSE
  OBVIOUS
<1>2. /\ LastDay \in Nat /\ Days = 1..LastDay /\ logFiles \in [Days -> Seq(DOMAIN logged)] /\ logged \in Seq(Days)
      /\ \A d \in Days : Rising(logFiles[d])
      /\ \A d \in Days : \A i \in DOMAIN logFiles[d] : logged[logFiles[d][i]] = d
  BY DaysAreNumbers DEF AuditInv, Ready
<1>3. PICK d \in Bad : \A e \in Bad : d <= e
  <2>1. Bad \in SUBSET Nat
    OBVIOUS
  <2> HIDE DEF Bad
  <2>2. QED BY <1>1, <2>1, LeastIsThere
<1>4. d \in 0..LastDay /\ ~ReadBack(d)
  OBVIOUS
<1>5. CASE d = 0
  <2>1. Back[0] = << >>
    <3>1. 0 \in 0..LastDay
      BY <1>2
    <3>2. \A x \in 0..LastDay : Back[x] = IF x = 0 THEN << >> ELSE logFiles[x] \o Back[x - 1]
      BY BackIs
    <3>3. QED BY <3>1, <3>2
  <2>2. \A o \in Days : ~(o <= 0)
    BY <1>2
  <2>3. ReadBack(0)
    BY <2>1, <2>2 DEF ReadBack
  <2>4. QED BY <1>4, <1>5, <2>3
<1>6. CASE d # 0
  <2>1. d \in Days /\ d - 1 \in 0..LastDay /\ ~(d <= d - 1)
    BY <1>2, <1>4, <1>6
  <2>2. ReadBack(d - 1)
    BY <1>3, <2>1
  <2>3. PICK f : f = logFiles[d]
    OBVIOUS
  <2>4. PICK g : g = Back[d - 1]
    OBVIOUS
  <2>5. PICK h : h = Back[d]
    OBVIOUS
  <2>6. h = f \o g
    <3>1. \A x \in 0..LastDay : Back[x] = IF x = 0 THEN << >> ELSE logFiles[x] \o Back[x - 1]
      BY BackIs
    <3>2. QED BY <1>4, <1>6, <2>3, <2>4, <2>5, <3>1
  <2>7. /\ f \in Seq(DOMAIN logged) /\ Rising(f) /\ \A i \in DOMAIN f : logged[f[i]] = d
        /\ g \in Seq(DOMAIN logged) /\ \A i, j \in DOMAIN g : g[i] = g[j] => i = j
        /\ \A i \in DOMAIN g : logged[g[i]] <= d - 1
        /\ \A o \in Days : o <= d - 1 => ToSet(logFiles[o]) \subseteq ToSet(g)
    BY <1>2, <2>1, <2>2, <2>3, <2>4 DEF ReadBack
  <2>8. /\ Len(f) \in Nat /\ Len(g) \in Nat /\ DOMAIN f = 1..Len(f) /\ DOMAIN g = 1..Len(g)
        /\ h \in Seq(DOMAIN logged) /\ Len(h) = Len(f) + Len(g) /\ DOMAIN h = 1..Len(h)
    BY <2>6, <2>7
  <2>9. /\ \A i \in 1..Len(f) : i \in DOMAIN h /\ h[i] = f[i]
        /\ \A i \in 1..Len(g) : Len(f) + i \in DOMAIN h /\ h[Len(f) + i] = g[i]
    BY <2>6, <2>7, <2>8
  <2>10. ASSUME NEW n \in DOMAIN h
         PROVE  \/ n \in 1..Len(f) /\ h[n] = f[n] /\ logged[h[n]] = d
                \/ n > Len(f) /\ n - Len(f) \in 1..Len(g) /\ h[n] = g[n - Len(f)] /\ logged[h[n]] <= d - 1
    <3>1. n \in 1..Len(f) \/ (n > Len(f) /\ n - Len(f) \in 1..Len(g))
      BY <2>8
    <3>2. CASE n \in 1..Len(f)
      BY <2>7, <2>8, <2>9, <3>2
    <3>3. CASE n > Len(f) /\ n - Len(f) \in 1..Len(g)
      <4>1. h[n] = g[n - Len(f)]
        BY <2>6, <2>7, <2>8, <3>3
      <4>2. QED BY <2>7, <2>8, <3>3, <4>1
    <3>4. QED BY <3>1, <3>2, <3>3
  <2>11. ASSUME NEW m \in DOMAIN h, NEW n \in DOMAIN h, h[m] = h[n] PROVE m = n
    <3>1. m \in Nat /\ n \in Nat /\ ~(d <= d - 1)
      BY <2>1, <2>8
    <3>2. CASE m \in 1..Len(f) /\ n \in 1..Len(f)
      <4>1. f[m] = f[n]
        BY <2>9, <2>11, <3>2
      <4>2. f[m] \in DOMAIN logged /\ f[n] \in DOMAIN logged
        BY <2>7, <2>8, <3>2
      <4>3. \A x \in DOMAIN logged : x \in Nat
        BY <1>2
      <4>4. ~(f[m] < f[n]) /\ ~(f[n] < f[m])
        BY <4>1, <4>2, <4>3
      <4>5. ~(m < n) /\ ~(n < m)
        BY <2>7, <2>8, <3>2, <4>4 DEF Rising
      <4>6. QED BY <3>1, <4>5
    <3>3. CASE m > Len(f) /\ n > Len(f)
      <4>1. m - Len(f) \in DOMAIN g /\ n - Len(f) \in DOMAIN g /\ g[m - Len(f)] = g[n - Len(f)]
        BY <2>8, <2>10, <2>11, <3>1, <3>3
      <4>2. m - Len(f) = n - Len(f)
        BY <2>7, <4>1
      <4>3. QED BY <2>8, <3>1, <4>2
    <3>4. CASE (m \in 1..Len(f) /\ n > Len(f)) \/ (n \in 1..Len(f) /\ m > Len(f))
      BY <2>8, <2>10, <2>11, <3>1, <3>4
    <3>5. QED BY <2>8, <2>10, <3>2, <3>3, <3>4
  <2>12. \A n \in DOMAIN h : logged[h[n]] <= d
    <3>1. \A n \in DOMAIN h : logged[h[n]] \in Nat
      <4>1. \A e \in DOMAIN logged : logged[e] \in Days
        BY <1>2
      <4>2. \A n \in DOMAIN h : h[n] \in DOMAIN logged
        BY <2>8
      <4>3. \A x \in Days : x \in Nat
        BY <1>2
      <4>4. QED BY <4>1, <4>2, <4>3
    <3>2. d \in Nat
      BY <1>4
    <3>3. QED BY <2>10, <3>1, <3>2
  <2>13. ASSUME NEW o \in Days, o <= d PROVE ToSet(logFiles[o]) \subseteq ToSet(h)
    <3>1. ToSet(f) \subseteq ToSet(h) /\ ToSet(g) \subseteq ToSet(h)
      BY <2>8, <2>9 DEF ToSet
    <3>2. o = d \/ o <= d - 1
      BY <1>2, <1>4, <2>13
    <3>3. QED BY <2>3, <2>7, <3>1, <3>2
  <2>14. ReadBack(d)
    BY <2>5, <2>8, <2>11, <2>12, <2>13 DEF ReadBack
  <2>15. QED BY <1>4, <2>14
<1>7. QED BY <1>5, <1>6

\* AuditComplete (audit_logger.py): no entry is lost but by a failing write, the half
\* line it left, a kill or a clean-up, none is written twice, and a query after a
\* flush gives all there is.
THEOREM AuditIsComplete == ASSUME AuditConstants PROVE AuditSpec => []AuditComplete
<1>1. AuditInv => AuditComplete
  <2>1. SUFFICES ASSUME AuditInv PROVE AuditComplete
    OBVIOUS
  <2>2. /\ Ready(buffer, logged) /\ MaxLogged \in Nat /\ LastDay \in Nat /\ Days = 1..LastDay
        /\ logged \in Seq(Days) /\ Len(logged) <= MaxLogged /\ Len(logged) \in Nat /\ DOMAIN logged = 1..Len(logged)
    BY <2>1, DaysAreNumbers DEF AuditInv, Ready, AuditConstants
  <2>3. ASSUME NEW d \in Days, NEW i \in DOMAIN logFiles[d], NEW j \in DOMAIN logFiles[d]
        PROVE  /\ i < j => logFiles[d][i] < logFiles[d][j]
               /\ logged[logFiles[d][i]] = d /\ logFiles[d][i] \notin ToSet(buffer)
    <3>1. logFiles[d][i] \in Nat /\ \A k \in DOMAIN buffer : logFiles[d][i] < buffer[k] /\ buffer[k] \in Nat
      <4>1. logFiles[d] \in Seq(DOMAIN logged) /\ buffer \in Seq(DOMAIN logged)
        BY <2>2 DEF Ready
      <4>2. logFiles[d][i] \in DOMAIN logged /\ \A k \in DOMAIN buffer : buffer[k] \in DOMAIN logged
        BY <4>1
      <4>3. \A x \in DOMAIN logged : x \in Nat
        BY <2>2
      <4>4. \A k \in DOMAIN buffer : logFiles[d][i] < buffer[k]
        BY <2>2 DEF Ready
      <4>5. QED BY <4>2, <4>3, <4>4
    <3>2. logFiles[d][i] \notin ToSet(buffer)
      BY <3>1 DEF ToSet
    <3>3. QED BY <2>2, <3>2 DEF Ready, Rising
  <2>4. ASSUME buffer = << >>, NEW e \in DOMAIN logged \ Lost, logged[e] >= cleaned
        PROVE  e \in ToSet(QueryLogs(MaxLogged))
    <3>1. PICK s : s = Back[LastDay]
      OBVIOUS
    <3>2. /\ s \in Seq(DOMAIN logged) /\ \A i, j \in DOMAIN s : s[i] = s[j] => i = j
          /\ \A o \in Days : ToSet(logFiles[o]) \subseteq ToSet(s)
      <4>1. ReadBack(LastDay) /\ \A o \in Days : o <= LastDay
        BY <2>1, <2>2, ReadsAll
      <4>2. QED BY <3>1, <4>1 DEF ReadBack
    <3>3. Len(s) \in Nat /\ DOMAIN s = 1..Len(s)
      BY <3>2
    <3>4. Len(s) <= MaxLogged
      <4>1. s \in Injection(1..Len(s), 1..Len(logged))
        <5>1. s \in [1..Len(s) -> 1..Len(logged)]
          BY <2>2, <3>2, <3>3
        <5>2. QED BY <3>2, <3>3, <5>1 DEF Injection, IsInjective
      <4>2. \A n \in Nat : IsFiniteSet(1..n) /\ Cardinality(1..n) = n
        <5>1. ASSUME NEW n \in Nat PROVE IsFiniteSet(1..n) /\ Cardinality(1..n) = n
          <6>1. IsFiniteSet(1..n) /\ Cardinality(1..n) = IF 1 > n THEN 0 ELSE n - 1 + 1
            BY FS_Interval
          <6>2. (IF 1 > n THEN 0 ELSE n - 1 + 1) = n
            OBVIOUS
          <6>3. QED BY <6>1, <6>2
        <5>2. QED BY <5>1
      <4>3. /\ IsFiniteSet(1..Len(s)) /\ Cardinality(1..Len(s)) = Len(s)
            /\ IsFiniteSet(1..Len(logged)) /\ Cardinality(1..Len(logged)) = Len(logged)
        BY <2>2, <3>3, <4>2
      <4>4. Len(s) <= Len(logged)
        BY <4>1, <4>3, FS_Injection
      <4>5. QED BY <2>2, <3>3, <4>4
    <3>5. QueryLogs(MaxLogged) = s
      <4>1. QueryLogs(MaxLogged) = SubSeq(s, 1, IF MaxLogged < Len(s) THEN MaxLogged ELSE Len(s))
        BY <3>1 DEF QueryLogs
      <4>2. (IF MaxLogged < Len(s) THEN MaxLogged ELSE Len(s)) = Len(s)
        <5>1. PICK n \in Nat : n = Len(s) /\ n <= MaxLogged
          BY <3>3, <3>4
        <5>2. ~(n < n) /\ ~(MaxLogged < n)
          BY <2>2, <5>1
        <5>3. QED BY <5>1, <5>2
      <4>3. SubSeq(s, 1, Len(s)) = s
        BY <3>2
      <4>4. QED BY <4>1, <4>2, <4>3
    <3>6. e \in ToSet(logFiles[logged[e]])
      <4>1. ToSet(buffer) = {}
        BY <2>4 DEF ToSet
      <4>2. logged[e] \in Nat /\ cleaned \in Nat
        BY <2>1, <2>2 DEF AuditInv, AuditTypeOK
      <4>3. ~(logged[e] < cleaned)
        BY <2>4, <4>2
      <4>4. QED BY <2>2, <2>4, <4>1, <4>3 DEF Ready
    <3>7. QED BY <2>2, <2>4, <3>2, <3>5, <3>6
  <2>5. QED BY <2>2, <2>3, <2>4 DEF AuditComplete, Ready
<1>2. QED BY <1>1, AuditBegins, AuditSteps, PTL DEF AuditSpec

-----------------------------------------------------------------------------
(***************************************************************************)
(* All of them: MCCoreFiles assumes of the constants what the theorems     *)
(* above start from, and while one component is in focus the others stand  *)
(* still.                                                                  *)
(***************************************************************************)
LEMMA FilesStepAlone ==
  /\ [Next]_vars => [JournalNext]_journalVars /\ [PipNext]_pipVars /\ [LibNext]_libVars
  /\ [Next]_vars => [UnitNext]_unitVars /\ [SecretNext]_secretVars /\ [KeyNext]_keyVars
  /\ [Next]_vars => [DictNext]_dictVars /\ [TabNext]_tabVars /\ [AuditNext]_auditVars
BY Zenon DEF Next, vars, InInstalls, InSecrets, InKeys, InTables, installVars, tableVars

LEMMA FilesRun ==
  /\ Spec => JournalSpec /\ PipSpec /\ LibSpec /\ UnitSpec
  /\ Spec => SecretSpec /\ KeySpec /\ DictSpec /\ TabSpec /\ AuditSpec
<1>1. Init => /\ JournalInit /\ PipInit /\ LibInit /\ UnitInit
              /\ SecretInit /\ KeyInit /\ DictInit /\ TabInit /\ AuditInit
  BY DEF Init
<1>2. QED
  BY <1>1, FilesStepAlone, PTL
     DEF Spec, JournalSpec, PipSpec, LibSpec, UnitSpec, SecretSpec, KeySpec, DictSpec, TabSpec, AuditSpec

\* What is installed was allowed, and once, and what is removed was recorded.
THEOREM InstallsAreSound == Spec => []InstallsSound
<1>1. Spec => []RootsSurvive
  BY Instances, FilesRun, UninstallSparesRoots, PTL
<1>2. Spec => []PipBlockSurvives
  BY Instances, FilesRun, PipBlocksSurvive, PTL
<1>3. Spec => []InstallsOnce
  BY Instances, FilesRun, InstallsAreOnce, PTL
<1>4. Spec => []UnitRunsVetted
  BY Instances, FilesRun, UnitRunsAreVetted, PTL
<1>5. RootsSurvive /\ PipBlockSurvives /\ InstallsOnce /\ UnitRunsVetted => InstallsSound
  BY DEF InstallsSound
<1>6. QED BY <1>1, <1>2, <1>3, <1>4, <1>5, PTL

\* What was kept in a file, and reported, is what is read from it later.
THEOREM RecordsAreKept == Spec => []RecordsKept
<1>1. Spec => []SecretsKept
  BY Instances, FilesRun, SecretsAreKept, PTL
<1>2. Spec => []KeysHonoured
  BY Instances, FilesRun, KeysAreHonoured, PTL
<1>3. Spec => []GrantsAsTold
  BY Instances, FilesRun, GrantsStand, PTL
<1>4. Spec => []DictSound
  BY Instances, FilesRun, RulesAreAcyclic, PTL
<1>5. SecretsKept /\ KeysHonoured /\ GrantsAsTold /\ DictSound => RecordsKept
  BY DEF RecordsKept
<1>6. QED BY <1>1, <1>2, <1>3, <1>4, <1>5, PTL

\* What was logged is in the files, once, in the order of logging, unless it could not be.
THEOREM LogsAreComplete == Spec => []AuditComplete
BY Instances, FilesRun, AuditIsComplete, PTL

\* The variables of every component keep their types.
THEOREM FilesTyped == Spec => []FilesTypeOK
<1>1. Spec => []JournalInv
  BY Instances, FilesRun, JournalBegins, JournalSteps, PTL DEF JournalSpec
<1>2. Spec => []PipInv
  BY Instances, FilesRun, PipBegins, PipSteps, PTL DEF PipSpec
<1>3. Spec => []LibInv
  BY Instances, FilesRun, LibBegins, LibSteps, PTL DEF LibSpec
<1>4. Spec => []UnitInv
  BY Instances, FilesRun, UnitBegins, UnitSteps, PTL DEF UnitSpec
<1>5. Spec => []SecretInv
  BY Instances, FilesRun, SecretBegins, SecretSteps, PTL DEF SecretSpec
<1>6. Spec => []KeyInv
  BY Instances, FilesRun, KeyBegins, KeySteps, PTL DEF KeySpec
<1>7. Spec => []DictInv
  BY Instances, FilesRun, DictBegins, DictSteps, PTL DEF DictSpec
<1>8. Spec => []TabInv
  BY Instances, FilesRun, TabBegins, TabSteps, PTL DEF TabSpec
<1>9. Spec => []AuditInv
  BY Instances, FilesRun, AuditBegins, AuditSteps, PTL DEF AuditSpec
<1>10. JournalInv /\ PipInv /\ LibInv /\ UnitInv /\ SecretInv /\ KeyInv /\ DictInv /\ TabInv /\ AuditInv => FilesTypeOK
  BY DEF FilesTypeOK, JournalInv, PipInv, LibInv, UnitInv, SecretInv, KeyInv, DictInv, TabInv, AuditInv
<1>11. QED BY <1>1, <1>2, <1>3, <1>4, <1>5, <1>6, <1>7, <1>8, <1>9, <1>10, PTL
=============================================================================
