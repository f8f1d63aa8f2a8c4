--------------------- MODULE CapabilityInstallerProofs ---------------------
(***************************************************************************)
(* Proofs about the candidate life cycle, for any candidates, handlers and *)
(* threshold and any number of faults.                                     *)
(***************************************************************************)
EXTENDS CapabilityInstaller, TLAPS

LEMMA KeyParts ==
  ASSUME NEW k \in Keys
  PROVE  /\ Source(k) \in Sources /\ Content(k) \in Contents
         /\ Dest(k) \in Slugs /\ Handler(k) \in Handlers
BY InstallerAssumption DEF Keys, Source, Content, Dest, Handler

LEMMA OpParts ==
  /\ Idle \in Op /\ Idle.pc = "idle"
  /\ \A k \in Keys, pc \in PC : On(pc, k) \in Op /\ On(pc, k).pc = pc /\ On(pc, k).key = k
  /\ \A todo \in SUBSET Sources, created \in BOOLEAN :
       Scanning(todo, created) \in Op /\ Scanning(todo, created).pc = "scan"
BY DEF Idle, On, Scanning, Op, PC

\* An item changes its status.
LEMMA StatusChange ==
  ASSUME NEW f \in [Keys -> Item], NEW k \in Keys, NEW st \in Status \ {"blocked"}
  PROVE  /\ [f EXCEPT ![k].status = st] \in [Keys -> Item]
         /\ [f EXCEPT ![k].status = st][k].status = st
         /\ \A j \in Keys : j # k => [f EXCEPT ![k].status = st][j] = f[j]
<1>1. f[k] \in [status : Status, rejects : 0..Threshold]
  BY DEF Item
<1>2. [f[k] EXCEPT !.status = st] \in Item
  BY <1>1 DEF Item
<1>3. QED BY <1>1, <1>2

LEMMA ItemsTyped == NoItem \in Item /\ NewItem \in Item
BY InstallerAssumption DEF Item, NoItem, NewItem, Status

\* What each write and each helper does to the state, typed.
LEMMA SaveTyped ==
  ASSUME TypeOK, index' \in [Keys -> Item], SaveIndex
  PROVE  indexFile' \in [Keys -> Item] /\ faults' \in 0..MaxFaults
BY InstallerAssumption DEF TypeOK, SaveIndex, Works, Fails, IndexSaved

LEMMA FaultTyped ==
  ASSUME TypeOK, Fails \/ Works PROVE faults' \in 0..MaxFaults
BY InstallerAssumption DEF TypeOK, Fails, Works

LEMMA FailTyped ==
  ASSUME TypeOK, NEW k \in Keys, MarkFailed(k) \/ MarkFailedAfterFault(k)
  PROVE  /\ index' \in [Keys -> Item] /\ indexFile' \in [Keys -> Item]
         /\ blocked' \subseteq Keys /\ blockedFile' \subseteq Keys
         /\ op' = Idle /\ faults' \in 0..MaxFaults
<1>1. index' \in [Keys -> Item]
  <2>1. index' = [index EXCEPT ![k].status = "failed"]
    BY DEF MarkFailed, MarkFailedAfterFault, ItemFails
  <2>2. index \in [Keys -> Item] /\ "failed" \in Status \ {"blocked"}
    BY DEF TypeOK, Status
  <2>3. QED BY <2>1, <2>2, StatusChange
<1>2. QED BY <1>1, SaveTyped, FaultTyped
  DEF TypeOK, MarkFailed, MarkFailedAfterFault, ItemFails, IndexSaved

LEMMA WithEntryTyped ==
  ASSUME NEW list \in [Handlers -> Contents \cup {None}], NEW k \in Keys
  PROVE  /\ WithEntry(list, k) \in [Handlers -> Contents \cup {None}]
         /\ WithEntry(list, k)[Handler(k)] = Content(k)
         /\ \A h \in Handlers : h # Handler(k) => WithEntry(list, k)[h] = list[h]
BY KeyParts DEF WithEntry

LEMMA TrustTyped ==
  ASSUME TypeOK, LoadTrust
  PROVE  /\ trust' \in [Handlers -> Contents \cup {None}] /\ trustLoaded' \in BOOLEAN
         /\ trustFile' \in [Handlers -> Contents \cup {None}] /\ trustIntact' \in BOOLEAN
BY DEF TypeOK, LoadTrust, NoTrust

LEMMA DestTyped ==
  ASSUME NEW d \in [Slugs -> [json : File, code : File]], NEW g \in Slugs, NEW v \in File
  PROVE  /\ [d EXCEPT ![g].json = v] \in [Slugs -> [json : File, code : File]]
         /\ [d EXCEPT ![g].code = v] \in [Slugs -> [json : File, code : File]]
OBVIOUS

-----------------------------------------------------------------------------
(* Types.                                                                  *)

LEMMA InitTyped == Init => TypeOK
<1> SUFFICES ASSUME Init PROVE TypeOK
  OBVIOUS
<1>1. index \in [Keys -> Item] /\ indexFile \in [Keys -> Item]
  BY ItemsTyped DEF Init
<1>2. dest \in [Slugs -> [json : File, code : File]]
  BY DEF Init, EmptyDest, File
<1>3. op = Idle /\ op \in Op /\ op.pc = "idle"
  BY OpParts DEF Init
<1>4. faults \in 0..MaxFaults
  BY InstallerAssumption DEF Init
<1>5. QED BY <1>1, <1>2, <1>3, <1>4 DEF Init, TypeOK, NoTrust

LEMMA ScanTyped ==
  ASSUME TypeOK, ScanBegin \/ ScanEnd \/ \E s \in Sources : ScanSource(s)
  PROVE  TypeOK'
<1> USE DEF TypeOK
<1>1. CASE ScanBegin
  <2>1. op' \in Op /\ op'.pc = "scan"
    BY <1>1, OpParts DEF ScanBegin
  <2>2. QED BY <1>1, <2>1 DEF ScanBegin, Works, requests, trustStore, history
<1>2. CASE ScanEnd
  <2>1. op' \in Op /\ op'.pc = "idle"
    BY <1>2, OpParts DEF ScanEnd
  <2>2. index' \in [Keys -> Item]
    BY <1>2 DEF ScanEnd
  <2>3. indexFile' \in [Keys -> Item] /\ faults' \in 0..MaxFaults
    BY <1>2, <2>2, SaveTyped DEF ScanEnd, Works
  <2>4. QED BY <1>2, <2>1, <2>2, <2>3 DEF ScanEnd, trustStore, history
<1>3. ASSUME NEW s \in Sources, ScanSource(s) PROVE TypeOK'
  <2>1. op.todo \in SUBSET Sources /\ op.created \in BOOLEAN
    BY DEF Op
  <2>2. op' \in Op /\ op'.pc \in {"idle", "scan"}
    <3>1. op' = Idle \/ \E todo \in SUBSET Sources, created \in BOOLEAN :
                           op' = Scanning(todo, created)
      BY <1>3, <2>1
      DEF ScanSource, ScanError, ScanSkip, ScanRepend, MayReturn, ScanNew
    <3>2. CASE op' = Idle
      BY <3>2, OpParts
    <3>3. ASSUME NEW todo \in SUBSET Sources, NEW created \in BOOLEAN,
                 op' = Scanning(todo, created)
          PROVE  op' \in Op /\ op'.pc = "scan"
      BY <3>3, OpParts
    <3>4. QED BY <3>1, <3>2, <3>3
  <2>3. index' \in [Keys -> Item] /\ indexFile' \in [Keys -> Item] /\ faults' \in 0..MaxFaults
    <3>1. CASE ScanError(s)
      BY <3>1 DEF ScanError, Works
    <3>2. ASSUME NEW c \in Contents,
                 ScanSkip(<<s, c>>) \/ ScanRepend(<<s, c>>) \/ ScanNew(<<s, c>>)
          PROVE  /\ index' \in [Keys -> Item] /\ indexFile' \in [Keys -> Item]
                 /\ faults' \in 0..MaxFaults
      <4>1. <<s, c>> \in Keys
        BY DEF Keys
      <4>2. CASE ScanSkip(<<s, c>>)
        BY <4>2 DEF ScanSkip, Works
      <4>3. CASE ScanRepend(<<s, c>>)
        <5>1. index' = [index EXCEPT ![<<s, c>>].status = "pending"]
          BY <4>3 DEF ScanRepend, MayReturn
        <5>2. "pending" \in Status \ {"blocked"}
          BY DEF Status
        <5>3. index' \in [Keys -> Item]
          BY <4>1, <5>1, <5>2, StatusChange
        <5>4. QED BY <4>3, <5>3, FaultTyped DEF ScanRepend, MayReturn, IndexSaved
      <4>4. CASE ScanNew(<<s, c>>)
        BY <4>1, <4>4, ItemsTyped DEF ScanNew, Works
      <4>5. QED BY <3>2, <4>2, <4>3, <4>4
    <3>3. QED BY <1>3, <3>1, <3>2 DEF ScanSource
  <2>4. QED BY <1>3, <2>2, <2>3 DEF ScanSource, trustStore, history
<1>4. QED BY <1>1, <1>2, <1>3

LEMMA ApproveTyped ==
  ASSUME TypeOK,
         \/ \E k \in Keys : ApproveBegin(k)
         \/ ApproveTrust \/ ApproveRecheck \/ ApprovePlace \/ ApproveCopyCode \/ ApproveFinish
  PROVE  TypeOK'
<1> USE DEF TypeOK
<1>1. ASSUME NEW k \in Keys, ApproveBegin(k) PROVE TypeOK'
  <2>1. asked' \subseteq Keys
    BY <1>1 DEF ApproveBegin
  <2>2. CASE source[Source(k)] = Content(k)
    <3>1. op' \in Op /\ op'.key = k
      BY <1>1, <2>2, OpParts DEF ApproveBegin, PC
    <3>2. QED BY <1>1, <2>1, <2>2, <3>1
          DEF ApproveBegin, Works, requests, trustStore
  <2>3. CASE MarkFailed(k)
    <3>1. op' \in Op /\ op'.pc = "idle"
      BY <2>3, FailTyped, OpParts
    <3>2. QED BY <1>1, <2>1, <2>3, <3>1, FailTyped DEF ApproveBegin, trustStore
  <2>4. QED BY <1>1, <2>2, <2>3 DEF ApproveBegin
<1>2. CASE ApproveTrust
  <2>1. op.key \in Keys
    BY <1>2 DEF ApproveTrust
  <2>2. trust' \in [Handlers -> Contents \cup {None}] /\ trustLoaded' \in BOOLEAN
    BY <1>2, <2>1, WithEntryTyped DEF ApproveTrust, NoTrust
  <2>3. CASE /\ Works /\ trustFile' = trust' /\ trustIntact' = TRUE
             /\ op' = On("recheck", op.key) /\ UNCHANGED requests
    <3>1. op' \in Op /\ op'.key \in Keys
      BY <2>1, <2>3, OpParts DEF PC
    <3>2. QED BY <1>2, <2>2, <2>3, <3>1 DEF ApproveTrust, Works, requests, history
  <2>4. CASE (TrustFileKept \/ TrustFileTorn) /\ MarkFailedAfterFault(op.key)
    <3>1. op' \in Op /\ op'.pc = "idle"
      BY <2>1, <2>4, FailTyped, OpParts
    <3>2. trustFile' \in [Handlers -> Contents \cup {None}] /\ trustIntact' \in BOOLEAN
      BY <2>4 DEF TrustFileKept, TrustFileTorn, NoTrust
    <3>3. QED BY <1>2, <2>1, <2>2, <2>4, <3>1, <3>2, FailTyped DEF ApproveTrust, history
  <2>5. QED BY <1>2, <2>3, <2>4 DEF ApproveTrust
<1>3. CASE ApproveRecheck
  <2>1. op.key \in Keys
    BY <1>3 DEF ApproveRecheck
  <2>2. CASE source[Source(op.key)] = Content(op.key)
    <3>1. op' \in Op /\ op'.key \in Keys
      BY <1>3, <2>1, <2>2, OpParts DEF ApproveRecheck, PC
    <3>2. QED BY <1>3, <2>2, <3>1
          DEF ApproveRecheck, Works, requests, trustStore, history
  <2>3. CASE MarkFailed(op.key)
    <3>1. op' \in Op /\ op'.pc = "idle"
      BY <2>1, <2>3, FailTyped, OpParts
    <3>2. QED BY <1>3, <2>1, <2>3, <3>1, FailTyped DEF ApproveRecheck, trustStore, history
  <2>4. QED BY <1>3, <2>2, <2>3 DEF ApproveRecheck
<1>4. CASE ApprovePlace \/ ApproveCopyCode
  <2>1. op.key \in Keys /\ Dest(op.key) \in Slugs /\ Source(op.key) \in Sources
    BY <1>4, KeyParts DEF ApprovePlace, ApproveCopyCode
  <2>2. dest' \in [Slugs -> [json : File, code : File]]
    <3>1. source[Source(op.key)] \in File /\ None \in File /\ Torn \in File
      BY <2>1 DEF File
    <3>2. CASE ApprovePlace
      <4>1. dest' = dest \/ \E v \in File : dest' = [dest EXCEPT ![Dest(op.key)].json = v]
        BY <3>1, <3>2 DEF ApprovePlace
      <4>2. ASSUME NEW v \in File, dest' = [dest EXCEPT ![Dest(op.key)].json = v]
            PROVE  dest' \in [Slugs -> [json : File, code : File]]
        BY <2>1, <4>2, DestTyped
      <4>3. QED BY <4>1, <4>2
    <3>3. CASE ApproveCopyCode
      <4>1. dest' = dest \/ \E v \in File : dest' = [dest EXCEPT ![Dest(op.key)].code = v]
        BY <3>1, <3>3 DEF ApproveCopyCode
      <4>2. ASSUME NEW v \in File, dest' = [dest EXCEPT ![Dest(op.key)].code = v]
            PROVE  dest' \in [Slugs -> [json : File, code : File]]
        BY <2>1, <4>2, DestTyped
      <4>3. QED BY <4>1, <4>2
    <3>4. QED BY <1>4, <3>2, <3>3
  <2>3. CASE MarkFailed(op.key) \/ MarkFailedAfterFault(op.key)
    <3>1. op' \in Op /\ op'.pc = "idle"
      BY <2>1, <2>3, FailTyped, OpParts
    <3>2. QED BY <1>4, <2>1, <2>2, <2>3, <3>1, FailTyped
          DEF ApprovePlace, ApproveCopyCode, trustStore, history
  <2>4. CASE /\ \E pc \in {"copyCode", "finish"} : op' = On(pc, op.key)
             /\ Works /\ UNCHANGED requests
    <3>1. op' \in Op /\ op'.key \in Keys
      BY <2>1, <2>4, OpParts DEF PC
    <3>2. QED BY <1>4, <2>2, <2>4, <3>1
          DEF ApprovePlace, ApproveCopyCode, Works, requests, trustStore, history
  <2>5. QED BY <1>4, <2>3, <2>4 DEF ApprovePlace, ApproveCopyCode
<1>5. CASE ApproveFinish
  <2>1. op.key \in Keys
    BY <1>5 DEF ApproveFinish
  <2>2. index' \in [Keys -> Item]
    <3>1. "installed" \in Status \ {"blocked"}
      BY DEF Status
    <3>2. QED BY <1>5, <2>1, <3>1, StatusChange DEF ApproveFinish
  <2>3. indexFile' \in [Keys -> Item] /\ faults' \in 0..MaxFaults
    BY <1>5, <2>2, SaveTyped DEF ApproveFinish
  <2>4. op' \in Op /\ op'.pc = "idle" /\ ready' \in BOOLEAN
    BY <1>5, OpParts DEF ApproveFinish
  <2>5. LoadTrust
    BY <1>5 DEF ApproveFinish
  <2>6. QED BY <1>5, <2>2, <2>3, <2>4, <2>5, TrustTyped DEF ApproveFinish, history
<1>6. QED BY <1>1, <1>2, <1>3, <1>4, <1>5

LEMMA RejectTyped ==
  ASSUME TypeOK,
         (\E k \in Keys : Reject(k) \/ UnblockBegin(k)) \/ SaveReject \/ UnblockItem
  PROVE  TypeOK'
<1> USE DEF TypeOK
<1>1. ASSUME NEW k \in Keys, Reject(k) PROVE TypeOK'
  <2> DEFINE rejects == Capped(index[k].rejects + 1)
  <2>1. rejects \in 0..Threshold /\ (ReachesThreshold(rejects) => rejects = Threshold)
    <3>1. index[k].rejects \in 0..Threshold /\ Threshold \in Nat
      BY InstallerAssumption DEF Item
    <3>2. QED BY <3>1 DEF Capped, ReachesThreshold
  <2>2. op' \in Op /\ (op'.pc = "idle" \/ op'.key \in Keys) /\ faults' \in 0..MaxFaults
    <3>1. (op' = Idle \/ op' = On("saveReject", k)) /\ (Works \/ Fails)
      BY <1>1 DEF Reject
    <3>2. "saveReject" \in PC /\ "unblockItem" \in PC
      BY DEF PC
    <3>3. QED BY <3>1, <3>2, OpParts, FaultTyped
  <2>3. index' \in [Keys -> Item]
    <3>1. CASE ReachesThreshold(rejects)
      <4>1. [status |-> "blocked", rejects |-> rejects] \in Item
        BY <2>1, <3>1 DEF Item, Status
      <4>2. QED BY <1>1, <3>1, <4>1 DEF Reject
    <3>2. CASE ~ReachesThreshold(rejects)
      <4>1. [status |-> "rejected", rejects |-> rejects] \in Item
        BY <2>1 DEF Item, Status
      <4>2. QED BY <1>1, <3>2, <4>1 DEF Reject
    <3>3. QED BY <3>1, <3>2
  <2> HIDE DEF rejects
  <2>4. blocked' \subseteq Keys /\ blockedFile' \subseteq Keys
    BY <1>1 DEF Reject, BlockedSaved
  <2>5. QED BY <1>1, <2>2, <2>3, <2>4 DEF Reject, trustStore, history
<1>2. ASSUME NEW k \in Keys, UnblockBegin(k) PROVE TypeOK'
  <2>1. op' \in Op /\ (op'.pc = "idle" \/ op'.key \in Keys) /\ faults' \in 0..MaxFaults
    <3>1. (op' = Idle \/ op' = On("unblockItem", k)) /\ (Works \/ Fails)
      BY <1>2 DEF UnblockBegin
    <3>2. "saveReject" \in PC /\ "unblockItem" \in PC
      BY DEF PC
    <3>3. QED BY <3>1, <3>2, OpParts, FaultTyped
  <2>2. QED BY <1>2, <2>1 DEF UnblockBegin, BlockedSaved, trustStore
<1>3. CASE SaveReject
  <2>1. op.key \in Keys /\ op' \in Op /\ op'.pc = "idle"
    BY <1>3, OpParts DEF SaveReject
  <2>2. index' \in [Keys -> Item] /\ indexFile' \in [Keys -> Item] /\ told' \subseteq Keys
    BY <1>3, <2>1 DEF SaveReject, IndexSaved
  <2>3. faults' \in 0..MaxFaults
    BY <1>3, FaultTyped DEF SaveReject
  <2>4. QED BY <1>3, <2>1, <2>2, <2>3 DEF SaveReject, trustStore
<1>4. CASE UnblockItem
  <2>1. op.key \in Keys /\ op' \in Op /\ op'.pc = "idle"
    BY <1>4, OpParts DEF UnblockItem
  <2>2. index' \in [Keys -> Item]
    <3>1. "rejected" \in Status \ {"blocked"}
      BY DEF Status
    <3>2. QED BY <1>4, <2>1, <3>1, StatusChange DEF UnblockItem
  <2>3. indexFile' \in [Keys -> Item] /\ faults' \in 0..MaxFaults
    BY <1>4, <2>2, SaveTyped DEF UnblockItem, Works
  <2>4. QED BY <1>4, <2>1, <2>2, <2>3 DEF UnblockItem, trustStore, history
<1>5. QED BY <1>1, <1>2, <1>3, <1>4

LEMMA SurroundingsTyped ==
  ASSUME TypeOK, (\E s \in Sources : Edit(s)) \/ ExecutorStart \/ Restart \/ UNCHANGED vars
  PROVE  TypeOK'
<1> USE DEF TypeOK
<1>1. ASSUME NEW s \in Sources, Edit(s) PROVE TypeOK'
  <2>1. source' \in [Sources -> Contents \cup {None}]
    BY <1>1 DEF Edit
  <2>2. QED BY <1>1, <2>1 DEF Edit, requests, trustStore, history
<1>2. CASE ExecutorStart
  <2>1. LoadTrust
    BY <1>2 DEF ExecutorStart
  <2>2. QED BY <1>2, <2>1, TrustTyped DEF ExecutorStart, requests, history
<1>3. CASE Restart
  <2>1. op' \in Op /\ op'.pc = "idle" /\ faults' \in 0..MaxFaults
    BY <1>3, OpParts, FaultTyped DEF Restart
  <2>2. /\ trust' \in [Handlers -> Contents \cup {None}] /\ trustLoaded' \in BOOLEAN
        /\ trustFile' \in [Handlers -> Contents \cup {None}] /\ trustIntact' \in BOOLEAN
    BY <1>3 DEF Restart, NoTrust, TrustFileKept, TrustFileTorn
  <2>3. dest' \in [Slugs -> [json : File, code : File]]
    <3>1. CASE op.pc \in {"place", "copyCode"}
      <4>1. Dest(op.key) \in Slugs /\ Torn \in File
        BY <3>1, KeyParts DEF File
      <4>2. \/ dest' = dest
            \/ dest' = [dest EXCEPT ![Dest(op.key)].json = Torn]
            \/ dest' = [dest EXCEPT ![Dest(op.key)].code = Torn]
        BY <1>3 DEF Restart
      <4>3. ASSUME dest' = [dest EXCEPT ![Dest(op.key)].json = Torn]
            PROVE  dest' \in [Slugs -> [json : File, code : File]]
        BY <4>1, <4>3, DestTyped
      <4>4. ASSUME dest' = [dest EXCEPT ![Dest(op.key)].code = Torn]
            PROVE  dest' \in [Slugs -> [json : File, code : File]]
        BY <4>1, <4>4, DestTyped
      <4>5. QED BY <4>2, <4>3, <4>4
    <3>2. CASE op.pc \notin {"place", "copyCode"}
      BY <1>3, <3>2 DEF Restart
    <3>3. QED BY <3>1, <3>2
  <2>4. QED BY <1>3, <2>1, <2>2, <2>3 DEF Restart, history
<1>4. CASE UNCHANGED vars
  BY <1>4 DEF vars
<1>5. QED BY <1>1, <1>2, <1>3, <1>4

\* The state of the installer and of the trust store has its types, and only a
\* candidate rejected Threshold times is blocked.
THEOREM TypeCorrect == Spec => []TypeOK
<1>1. TypeOK /\ [Next]_vars => TypeOK'
  BY ScanTyped, ApproveTyped, RejectTyped, SurroundingsTyped DEF Next
<1>2. QED BY <1>1, InitTyped, PTL DEF Spec

-----------------------------------------------------------------------------
(* Trust.                                                                  *)

\* The candidate being approved was asked for, and from the second check on its
\* entry is in the trust file.
TrustInv ==
  /\ TypeOK
  /\ TrustWasAsked
  /\ op.pc \in Approving => op.key \in asked
  /\ op.pc \in Approving \ {"trust"} =>
       trustIntact /\ trustFile[Handler(op.key)] = Content(op.key)

\* Entries that were asked for stay so when the lists become one another.
LEMMA TrustKept ==
  ASSUME TrustWasAsked, asked \subseteq asked',
         trust' \in {trust, trustFile, NoTrust}, trustFile' \in {trustFile, NoTrust}
  PROVE  TrustWasAsked'
<1> SUFFICES ASSUME NEW h \in Handlers, NEW c \in {trust'[h], trustFile'[h]} \ {None}
             PROVE  HandlerOf[c] = h /\ \E s \in Sources : <<s, c>> \in asked'
  BY DEF TrustWasAsked
<1>1. c \in {trust[h], trustFile[h]} \ {None}
  BY DEF NoTrust
<1>2. QED BY <1>1 DEF TrustWasAsked

LEMMA InitTrust == Init => TrustInv
BY InitTyped, OpParts DEF Init, TrustInv, TrustWasAsked, NoTrust, Approving

\* The step that adds an entry.
LEMMA ApproveTrustTrust == TrustInv /\ ApproveTrust => TrustInv'
<1> SUFFICES ASSUME TrustInv, ApproveTrust PROVE TrustInv'
  OBVIOUS
<1> DEFINE k == op.key
           listed == IF trustLoaded THEN trust ELSE IF trustIntact THEN trustFile ELSE NoTrust
<1>1. TypeOK'
  BY ApproveTyped DEF TrustInv
<1>2. k \in Keys /\ k \in asked /\ asked' = asked
  BY DEF ApproveTrust, TrustInv, TypeOK, Approving, history
<1>3. listed \in [Handlers -> Contents \cup {None}]
  BY DEF TrustInv, TypeOK, NoTrust
<1>4. trust' = WithEntry(listed, k)
  BY DEF ApproveTrust
<1>5. trustFile' \in {trust', trustFile, NoTrust}
  BY DEF ApproveTrust, TrustFileKept, TrustFileTorn
<1>6. TrustWasAsked'
  <2> SUFFICES ASSUME NEW h \in Handlers, NEW c \in {trust'[h], trustFile'[h]} \ {None}
               PROVE  HandlerOf[c] = h /\ \E s \in Sources : <<s, c>> \in asked
    BY <1>2 DEF TrustWasAsked
  <2>1. c \in {trust[h], trustFile[h]} \ {None} \/ (h = Handler(k) /\ c = Content(k))
    BY <1>2, <1>3, <1>4, <1>5, WithEntryTyped DEF NoTrust
  <2>2. CASE h = Handler(k) /\ c = Content(k)
    <3>1. Source(k) \in Sources /\ <<Source(k), c>> = k
      BY <1>2, <2>2, KeyParts DEF Keys, Source, Content
    <3>2. QED BY <1>2, <2>2, <3>1 DEF Handler, Content
  <2>3. QED BY <2>1, <2>2 DEF TrustInv, TrustWasAsked
<1>7. op' = Idle \/ (op' = On("recheck", k) /\ trustFile' = trust' /\ trustIntact')
  BY DEF ApproveTrust, MarkFailedAfterFault, ItemFails
<1>8. CASE op' = Idle
  BY <1>1, <1>6, <1>8, OpParts DEF TrustInv, Approving
<1>9. CASE op' = On("recheck", k) /\ trustFile' = trust' /\ trustIntact'
  <2>1. op'.pc = "recheck" /\ op'.key = k
    BY <1>2, <1>9, OpParts DEF PC
  <2>2. trustFile'[Handler(k)] = Content(k)
    BY <1>2, <1>3, <1>4, <1>9, WithEntryTyped
  <2>3. QED BY <1>1, <1>2, <1>6, <1>9, <2>1, <2>2 DEF TrustInv
<1>10. QED BY <1>7, <1>8, <1>9

\* Every other step leaves the trust file alone or tears it in a restart, and the
\* operation goes on with its candidate or ends.
LEMMA NextTrust == TrustInv /\ [Next]_vars => TrustInv'
<1> SUFFICES ASSUME TrustInv, [Next]_vars, ~ApproveTrust PROVE TrustInv'
  BY ApproveTrustTrust
<1>1. TypeOK'
  BY ScanTyped, ApproveTyped, RejectTyped, SurroundingsTyped DEF TrustInv, Next
<1> USE DEF TypeOK
<1>2. asked \subseteq asked' /\ trust' \in {trust, trustFile, NoTrust}
        /\ trustFile' \in {trustFile, NoTrust}
  BY DEF Next, ScanBegin, ScanEnd, ScanSource, ApproveBegin, ApproveRecheck, ApprovePlace,
         ApproveCopyCode, ApproveFinish, Reject, UnblockBegin, SaveReject, UnblockItem, Edit,
         ExecutorStart, Restart, LoadTrust, TrustFileKept, TrustFileTorn, trustStore,
         history, vars
<1>3. TrustWasAsked'
  BY <1>2, TrustKept DEF TrustInv
<1>4. \/ op'.pc \notin Approving
      \/ op'.pc = "trust" /\ op'.key \in asked'
      \/ /\ op.pc \in Approving \ {"trust"} /\ op'.key = op.key /\ asked' = asked
         /\ trustFile' = trustFile /\ trustIntact' = trustIntact
      \/ op' = op /\ asked' = asked /\ trustFile' = trustFile /\ trustIntact' = trustIntact
  <2>1. CASE ScanBegin \/ ScanEnd \/ \E s \in Sources : ScanSource(s)
    <3>1. op' = Idle \/ \E todo, created : op' = Scanning(todo, created)
      BY <2>1 DEF ScanBegin, ScanEnd, ScanSource, ScanError, ScanSkip, ScanRepend, MayReturn, ScanNew
    <3>2. \A todo, created : Scanning(todo, created).pc = "scan"
      BY DEF Scanning
    <3>3. op'.pc \in {"idle", "scan"}
      BY <3>1, <3>2, OpParts
    <3>4. QED BY <3>3 DEF Approving
  <2>2. ASSUME NEW k \in Keys, ApproveBegin(k) \/ Reject(k) \/ UnblockBegin(k)
        PROVE  op'.pc \notin Approving \/ (op'.pc = "trust" /\ op'.key \in asked')
    <3>1. \/ op' = Idle \/ op' = On("saveReject", k) \/ op' = On("unblockItem", k)
          \/ op' = On("trust", k) /\ k \in asked'
      BY <2>2 DEF ApproveBegin, Reject, UnblockBegin, MarkFailed, ItemFails
    <3>2. QED BY <3>1, OpParts DEF Approving, On, PC
  <2>3. CASE ApproveRecheck \/ ApprovePlace \/ ApproveCopyCode
    <3>1. /\ op.pc \in Approving \ {"trust"} /\ asked' = asked
          /\ trustFile' = trustFile /\ trustIntact' = trustIntact
      BY <2>3 DEF ApproveRecheck, ApprovePlace, ApproveCopyCode, Approving, trustStore, history
    <3>2. op' = Idle \/ op'.key = op.key
      BY <2>3 DEF ApproveRecheck, ApprovePlace, ApproveCopyCode, MarkFailed,
                  MarkFailedAfterFault, ItemFails, On
    <3>3. QED BY <3>1, <3>2, OpParts DEF Approving
  <2>4. CASE ApproveFinish \/ SaveReject \/ UnblockItem \/ Restart
    <3>1. op' = Idle
      BY <2>4 DEF ApproveFinish, SaveReject, UnblockItem, Restart
    <3>2. QED BY <3>1, OpParts DEF Approving
  <2>5. CASE (\E s \in Sources : Edit(s)) \/ ExecutorStart \/ UNCHANGED vars
    BY <2>5 DEF Edit, ExecutorStart, LoadTrust, trustStore, history, vars
  <2>6. QED BY <2>1, <2>2, <2>3, <2>4, <2>5 DEF Next
<1> HIDE DEF TypeOK
<1>5. QED BY <1>1, <1>3, <1>4 DEF TrustInv

LEMMA TrustInvariance == Spec => []TrustInv
BY InitTrust, NextTrust, PTL DEF Spec

\* Only content an operator asked to approve ever enters the trust list.
THEOREM TrustWasAskedAlways == Spec => []TrustWasAsked
<1>1. TrustInv => TrustWasAsked
  BY DEF TrustInv
<1>2. QED BY <1>1, TrustInvariance, PTL

\* No candidate becomes installed without its trust entry saved and loaded.
THEOREM InstalledWithTrustAlways == Spec => InstalledWithTrust
<1> DEFINE Step == \A k \in Keys :
       index[k].status # "installed" /\ index'[k].status = "installed" /\ ready'
         => trustIntact' /\ trustLoaded' /\ trustFile'[Handler(k)] = Content(k)
              /\ trust' = trustFile'
<1>1. TrustInv /\ [Next]_vars => [Step]_vars
  <2> SUFFICES ASSUME TrustInv, Next, NEW k \in Keys, index[k].status # "installed",
                      index'[k].status = "installed", ready'
               PROVE  trustIntact' /\ trustLoaded' /\ trustFile'[Handler(k)] = Content(k)
                        /\ trust' = trustFile'
    BY DEF vars
  <2> USE DEF TrustInv, TypeOK
  <2>1. CASE ApproveFinish
    <3>1. op.key \in Keys /\ trustIntact /\ trustFile[Handler(op.key)] = Content(op.key)
      BY <2>1 DEF ApproveFinish, Approving
    <3>2. k = op.key
      BY <2>1, <3>1 DEF ApproveFinish
    <3>3. QED BY <2>1, <3>1, <3>2 DEF ApproveFinish, LoadTrust
  <2>2. CASE ScanBegin \/ ScanEnd \/ \E s \in Sources : ScanSource(s)
    <3>1. index' = index \/ \E j \in Keys : \/ index' = [index EXCEPT ![j].status = "pending"]
                                           \/ index' = [index EXCEPT ![j] = NewItem]
      BY <2>2 DEF ScanBegin, ScanEnd, ScanSource, ScanError, ScanSkip, ScanRepend, MayReturn, ScanNew,
                  requests, Keys
    <3>2. ASSUME NEW j \in Keys, index' = [index EXCEPT ![j].status = "pending"] PROVE FALSE
      BY <3>2, StatusChange DEF Status
    <3>3. ASSUME NEW j \in Keys, index' = [index EXCEPT ![j] = NewItem] PROVE FALSE
      BY <3>3 DEF NewItem
    <3>4. QED BY <3>1, <3>2, <3>3
  <2>3. ASSUME NEW j \in Keys, MarkFailed(j) \/ MarkFailedAfterFault(j) PROVE FALSE
    <3>1. index' = [index EXCEPT ![j].status = "failed"]
      BY <2>3 DEF MarkFailed, MarkFailedAfterFault, ItemFails
    <3>2. QED BY <3>1, StatusChange DEF Status
  <2>4. CASE (\E j \in Keys : ApproveBegin(j)) \/ ApproveTrust \/ ApproveRecheck
               \/ ApprovePlace \/ ApproveCopyCode
    BY <2>3, <2>4 DEF ApproveBegin, ApproveTrust, ApproveRecheck, ApprovePlace,
                      ApproveCopyCode, requests
  <2>5. ASSUME NEW j \in Keys, Reject(j) PROVE FALSE
    BY <2>5 DEF Reject
  <2>6. CASE UnblockItem
    <3>1. op.key \in Keys
      BY <2>6 DEF UnblockItem
    <3>2. index' = index \/ index' = [index EXCEPT ![op.key].status = "rejected"]
      BY <2>6 DEF UnblockItem
    <3>3. ASSUME index' = [index EXCEPT ![op.key].status = "rejected"] PROVE FALSE
      BY <3>1, <3>3, StatusChange DEF Status
    <3>4. QED BY <3>2, <3>3
  <2>7. CASE (\E j \in Keys : UnblockBegin(j)) \/ SaveReject
               \/ (\E s \in Sources : Edit(s)) \/ ExecutorStart
    BY <2>7 DEF UnblockBegin, SaveReject, Edit, ExecutorStart, requests
  <2>8. CASE Restart
    <3>1. ready' = FALSE
      BY <2>8 DEF Restart
    <3>2. QED BY <3>1, Zenon
  <2>9. QED BY <2>1, <2>2, <2>4, <2>5, <2>6, <2>7, <2>8 DEF Next
<1>2. QED BY <1>1, TrustInvariance, PTL DEF Spec, InstalledWithTrust

-----------------------------------------------------------------------------
(* What is copied.                                                         *)

Complete(d) == d.json \in Contents /\ d.code \in Contents

\* A candidate about to be marked is there in full, and one that is being copied
\* is not there in full.
CopyInv ==
  /\ TypeOK
  /\ InstalledIsComplete
  /\ op.pc = "copyCode" =>
       dest[Dest(op.key)].json \in Contents /\ dest[Dest(op.key)].code = None
  /\ op.pc = "finish" => Complete(dest[Dest(op.key)])

LEMMA InitCopy == Init => CopyInv
<1> SUFFICES ASSUME Init PROVE CopyInv
  OBVIOUS
<1>1. \A k \in Keys : index[k].status = "none" /\ indexFile[k].status = "none"
  BY DEF Init, NoItem
<1>2. QED BY <1>1, InitTyped, OpParts DEF Init, CopyInv, InstalledIsComplete

\* What a step may write: only a destination that is not complete.
LEMMA DestKept ==
  ASSUME CopyInv, [Next]_vars, NEW g \in Slugs, Complete(dest[g])
  PROVE  dest'[g] = dest[g]
<1> USE DEF CopyInv, TypeOK
<1>1. CASE ApprovePlace
  <2>1. op.key \in Keys /\ Dest(op.key) \in Slugs
    BY <1>1, KeyParts DEF ApprovePlace
  <2>2. dest' = dest \/ (FreeDest(dest[Dest(op.key)])
                          /\ \E v : dest' = [dest EXCEPT ![Dest(op.key)].json = v])
    BY <1>1 DEF ApprovePlace
  <2>3. FreeDest(dest[Dest(op.key)]) => Dest(op.key) # g
    BY InstallerAssumption DEF FreeDest, EmptyDest, Complete
  <2>4. QED BY <2>1, <2>2, <2>3
<1>2. CASE ApproveCopyCode
  <2>1. op.key \in Keys /\ Dest(op.key) \in Slugs
    BY <1>2, KeyParts DEF ApproveCopyCode
  <2>2. dest' = dest \/ \E v : dest' = [dest EXCEPT ![Dest(op.key)].code = v]
    BY <1>2 DEF ApproveCopyCode
  <2>3. Dest(op.key) # g
    BY <1>2, InstallerAssumption DEF ApproveCopyCode, Complete
  <2>4. QED BY <2>1, <2>2, <2>3
<1>3. CASE Restart
  <2>1. \/ dest' = dest
        \/ /\ op.pc \in {"place", "copyCode"}
           /\ op.pc = "place" => FreeDest(dest[Dest(op.key)])
           /\ \/ dest' = [dest EXCEPT ![Dest(op.key)].json = Torn]
              \/ dest' = [dest EXCEPT ![Dest(op.key)].code = Torn]
    BY <1>3 DEF Restart
  <2>2. ASSUME op.pc \in {"place", "copyCode"}, op.pc = "place" => FreeDest(dest[Dest(op.key)])
        PROVE  Dest(op.key) \in Slugs /\ Dest(op.key) # g
    <3>1. op.key \in Keys /\ Dest(op.key) \in Slugs
      BY <2>2, KeyParts
    <3>2. QED BY <2>2, <3>1, InstallerAssumption DEF FreeDest, EmptyDest, Complete
  <2>3. QED BY <2>1, <2>2
<1>4. CASE ~(ApprovePlace \/ ApproveCopyCode \/ Restart)
  BY <1>4 DEF Next, ScanBegin, ScanEnd, ScanSource, ApproveBegin, ApproveTrust,
              ApproveRecheck, ApproveFinish, Reject, UnblockBegin, SaveReject, UnblockItem,
              Edit, ExecutorStart, vars
<1>5. QED BY <1>1, <1>2, <1>3, <1>4

\* Installed items come from the other copy of the index or from the last step of
\* an approval.
LEMMA NewlyInstalled ==
  ASSUME TypeOK, [Next]_vars, NEW k \in Keys,
         "installed" \in {index'[k].status, indexFile'[k].status}
  PROVE  \/ "installed" \in {index[k].status, indexFile[k].status}
         \/ op.pc = "finish" /\ k = op.key
<1> DEFINE Old(i) == i \in {index[k], indexFile[k]} \/ i.status # "installed"
<1> SUFFICES ASSUME op.pc # "finish" \/ k # op.key
             PROVE  Old(index'[k]) /\ Old(indexFile'[k])
  OBVIOUS
<1> USE DEF TypeOK
<1>1. \A j \in Keys, st \in Status \ {"blocked", "installed"} :
        index' = [index EXCEPT ![j].status = st] => Old(index'[k])
  BY StatusChange
<1>2. {"pending", "failed", "rejected"} \subseteq Status \ {"blocked", "installed"}
  BY DEF Status
<1>3. \A j \in Keys : MarkFailed(j) \/ MarkFailedAfterFault(j)
         => Old(index'[k]) /\ indexFile' \in {index', indexFile}
  BY <1>1, <1>2 DEF MarkFailed, MarkFailedAfterFault, ItemFails, SaveIndex, IndexSaved
<1>4. CASE ScanBegin \/ ScanEnd \/ \E s \in Sources : ScanSource(s)
  <2>1. indexFile' \in {index', indexFile}
    BY <1>4 DEF ScanBegin, ScanEnd, ScanSource, ScanError, ScanSkip, ScanRepend, MayReturn, ScanNew,
                SaveIndex, IndexSaved, requests
  <2>2. \/ index' = index
        \/ \E j \in Keys : \/ index' = [index EXCEPT ![j].status = "pending"]
                           \/ index' = [index EXCEPT ![j] = NewItem]
    BY <1>4 DEF ScanBegin, ScanEnd, ScanSource, ScanError, ScanSkip, ScanRepend, MayReturn, ScanNew,
                requests, Keys
  <2>3. ASSUME NEW j \in Keys, index' = [index EXCEPT ![j] = NewItem] PROVE Old(index'[k])
    BY <2>3 DEF NewItem
  <2>4. Old(index'[k])
    BY <2>2, <2>3, <1>1, <1>2
  <2>5. QED BY <2>1, <2>4
<1>5. ASSUME NEW j \in Keys, ApproveBegin(j) PROVE Old(index'[k]) /\ Old(indexFile'[k])
  BY <1>3, <1>5 DEF ApproveBegin, requests
<1>6. CASE ApproveTrust \/ ApproveRecheck \/ ApprovePlace \/ ApproveCopyCode
  <2>1. op.key \in Keys
    BY <1>6 DEF ApproveTrust, ApproveRecheck, ApprovePlace, ApproveCopyCode
  <2>2. UNCHANGED requests \/ MarkFailed(op.key) \/ MarkFailedAfterFault(op.key)
    BY <1>6 DEF ApproveTrust, ApproveRecheck, ApprovePlace, ApproveCopyCode
  <2>3. QED BY <1>3, <2>1, <2>2 DEF requests
<1>7. CASE ApproveFinish
  <2>1. op.key \in Keys /\ k # op.key
    BY <1>7 DEF ApproveFinish
  <2>2. "installed" \in Status \ {"blocked"}
    BY DEF Status
  <2>3. index'[k] = index[k]
    BY <1>7, <2>1, <2>2, StatusChange DEF ApproveFinish
  <2>4. QED BY <1>7, <2>3 DEF ApproveFinish, SaveIndex, IndexSaved
<1>8. ASSUME NEW j \in Keys, Reject(j) PROVE Old(index'[k]) /\ Old(indexFile'[k])
  BY <1>8 DEF Reject
<1>9. CASE UnblockItem
  <2>1. op.key \in Keys
    BY <1>9 DEF UnblockItem
  <2>2. index' = index \/ index' = [index EXCEPT ![op.key].status = "rejected"]
    BY <1>9 DEF UnblockItem
  <2>3. Old(index'[k])
    BY <2>1, <2>2, <1>1, <1>2
  <2>4. QED BY <1>9, <2>3 DEF UnblockItem, SaveIndex, IndexSaved
<1>10. CASE SaveReject \/ Restart
  BY <1>10 DEF SaveReject, Restart, IndexSaved
<1>11. CASE (\E j \in Keys : UnblockBegin(j)) \/ (\E s \in Sources : Edit(s))
              \/ ExecutorStart \/ UNCHANGED vars
  BY <1>11 DEF UnblockBegin, Edit, ExecutorStart, requests, vars
<1>12. QED BY <1>4, <1>5, <1>6, <1>7, <1>8, <1>9, <1>10, <1>11 DEF Next

LEMMA NextCopy == CopyInv /\ [Next]_vars => CopyInv'
<1> SUFFICES ASSUME CopyInv, [Next]_vars PROVE CopyInv'
  OBVIOUS
<1>1. TypeOK'
  BY ScanTyped, ApproveTyped, RejectTyped, SurroundingsTyped DEF CopyInv, Next
<1>2. InstalledIsComplete'
  <2> SUFFICES ASSUME NEW k \in Keys,
                      "installed" \in {index'[k].status, indexFile'[k].status}
               PROVE  Complete(dest'[Dest(k)])
    BY DEF InstalledIsComplete, Complete
  <2>1. Complete(dest[Dest(k)])
    BY NewlyInstalled DEF CopyInv, InstalledIsComplete, Complete
  <2>2. QED BY <2>1, DestKept, KeyParts
<1>3. (op'.pc = "finish" => Complete(dest'[Dest(op'.key)]))
       /\ (op'.pc = "copyCode" => dest'[Dest(op'.key)].json \in Contents
                                   /\ dest'[Dest(op'.key)].code = None)
  <2> USE DEF CopyInv, TypeOK
  <2>1. CASE ApprovePlace
    <3> DEFINE k == op.key
    <3>1. k \in Keys /\ Dest(k) \in Slugs /\ source[Source(k)] \in Contents \cup {None}
             /\ Content(k) \in Contents
      BY <2>1, KeyParts DEF ApprovePlace
    <3>2. \/ op' = Idle
          \/ op' = On("finish", k) /\ dest' = dest /\ SameHandler(dest[Dest(k)], k)
          \/ /\ op' = On("copyCode", k) /\ source[Source(k)] # None
             /\ dest[Dest(k)] = EmptyDest
             /\ dest' = [dest EXCEPT ![Dest(k)].json = source[Source(k)]]
      BY <2>1 DEF ApprovePlace, MarkFailed, MarkFailedAfterFault, ItemFails, FreeDest
    <3>3. CASE op' = Idle
      BY <3>3, OpParts
    <3>4. CASE op' = On("finish", k) /\ dest' = dest /\ SameHandler(dest[Dest(k)], k)
      BY <3>1, <3>4 DEF On, SameHandler, Complete
    <3>5. CASE /\ op' = On("copyCode", k) /\ source[Source(k)] # None
               /\ dest[Dest(k)] = EmptyDest
               /\ dest' = [dest EXCEPT ![Dest(k)].json = source[Source(k)]]
      BY <3>1, <3>5 DEF On, EmptyDest
    <3>6. QED BY <3>2, <3>3, <3>4, <3>5
  <2>2. CASE ApproveCopyCode
    <3> DEFINE k == op.key
    <3>1. k \in Keys /\ Dest(k) \in Slugs /\ source[Source(k)] \in Contents \cup {None}
      BY <2>2, KeyParts DEF ApproveCopyCode
    <3>2. \/ op' = Idle
          \/ /\ op' = On("finish", k) /\ source[Source(k)] # None
             /\ dest[Dest(k)].json \in Contents
             /\ dest' = [dest EXCEPT ![Dest(k)].code = source[Source(k)]]
      BY <2>2 DEF ApproveCopyCode, MarkFailed, MarkFailedAfterFault, ItemFails
    <3>3. QED BY <3>1, <3>2, OpParts DEF On, Complete
  <2>3. CASE op' = op /\ dest' = dest
    BY <2>3
  <2>4. CASE op'.pc \notin {"finish", "copyCode"}
    BY <2>4
  <2>5. ASSUME ~ApprovePlace, ~ApproveCopyCode
        PROVE  (op' = op /\ dest' = dest) \/ op'.pc \notin {"finish", "copyCode"}
    <3>1. CASE (\E s \in Sources : Edit(s)) \/ ExecutorStart \/ UNCHANGED vars
      BY <3>1 DEF Edit, ExecutorStart, vars
    <3>2. CASE ~((\E s \in Sources : Edit(s)) \/ ExecutorStart \/ UNCHANGED vars)
      <4>1. \/ op' = Idle \/ \E todo, created : op' = Scanning(todo, created)
            \/ \E k, pc : pc \notin {"finish", "copyCode"} /\ op' = On(pc, k)
        BY <2>5, <3>2 DEF Next, ScanBegin, ScanEnd, ScanSource, ScanError, ScanSkip,
           ScanRepend, MayReturn, ScanNew, ApproveBegin, ApproveTrust, ApproveRecheck, ApproveFinish,
           Reject, UnblockBegin, SaveReject, UnblockItem, Restart, MarkFailed,
           MarkFailedAfterFault, ItemFails
      <4>2. QED BY <4>1, OpParts DEF Scanning, On
    <3>3. QED BY <3>1, <3>2
  <2>6. QED BY <2>1, <2>2, <2>3, <2>4, <2>5
<1>4. QED BY <1>1, <1>2, <1>3 DEF CopyInv

LEMMA CopyInvariance == Spec => []CopyInv
BY InitCopy, NextCopy, PTL DEF Spec

\* An installed candidate is there in full, whatever failed before.
THEOREM InstalledIsCompleteAlways == Spec => []InstalledIsComplete
<1>1. CopyInv => InstalledIsComplete
  BY DEF CopyInv
<1>2. QED BY <1>1, CopyInvariance, PTL

\* What was copied in full is never written again.
THEOREM NeverOverwrittenAlways == Spec => NeverOverwritten
<1> DEFINE Step == \A g \in Slugs :
       dest[g].json \in Contents /\ dest[g].code \in Contents => dest'[g] = dest[g]
<1>1. CopyInv /\ [Next]_vars => [Step]_vars
  BY DestKept DEF Complete
<1>2. QED BY <1>1, CopyInvariance, PTL DEF Spec, NeverOverwritten

-----------------------------------------------------------------------------
(* Blocking.                                                               *)

\* No candidate being approved is blocked; one that reject has put on the block
\* list is in blocked.json before the index is saved; unblock takes back what was
\* told.
BlockInv ==
  /\ TypeOK
  /\ BlockedStaysBlocked
  /\ op.pc \in Approving => index[op.key].status # "blocked"
  /\ op.pc = "saveReject" /\ index[op.key].status = "blocked"
       => op.key \in blocked \cap blockedFile
  /\ op.pc = "unblockItem" => op.key \notin told

LEMMA InitBlock == Init => BlockInv
BY InitTyped, OpParts DEF Init, BlockInv, BlockedStaysBlocked, Approving

\* A step that changes no item the operator was told about, and takes no such key
\* from the block list.
Harmless ==
  /\ told' \subseteq told
  /\ \A k \in told' : /\ index'[k] \in {index[k], indexFile[k]}
                      /\ indexFile'[k] \in {index'[k], indexFile[k]}
                      /\ k \in blocked' \cap blockedFile'

LEMMA HarmlessKeeps == BlockedStaysBlocked /\ Harmless => BlockedStaysBlocked'
BY DEF BlockedStaysBlocked, Harmless

\* One item changes its status, and it is not a blocked one.
LEMMA ItemChange ==
  ASSUME TypeOK, BlockedStaysBlocked, NEW k \in Keys, k \notin told, NEW st \in Status \ {"blocked"},
         index' = [index EXCEPT ![k].status = st], indexFile' \in {index', indexFile},
         UNCHANGED <<blocked, blockedFile, told>>
  PROVE  Harmless
<1>1. \A j \in told : j \in Keys /\ index'[j] = index[j]
  BY StatusChange DEF TypeOK
<1>2. QED BY <1>1 DEF Harmless, BlockedStaysBlocked

LEMMA NotTold ==
  ASSUME BlockedStaysBlocked, NEW k, index[k].status # "blocked" PROVE k \notin told
BY DEF BlockedStaysBlocked

LEMMA FailHarmless ==
  ASSUME TypeOK, BlockedStaysBlocked, NEW k \in Keys, index[k].status # "blocked", told' = told,
         MarkFailed(k) \/ MarkFailedAfterFault(k)
  PROVE  Harmless
<1>1. "failed" \in Status \ {"blocked"}
  BY DEF Status
<1>2. /\ index' = [index EXCEPT ![k].status = "failed"] /\ indexFile' \in {index', indexFile}
      /\ UNCHANGED <<blocked, blockedFile>>
  BY DEF MarkFailed, MarkFailedAfterFault, ItemFails, SaveIndex, IndexSaved
<1>3. QED BY <1>1, <1>2, NotTold, ItemChange

LEMMA ScanBlock ==
  ASSUME BlockInv, ScanBegin \/ ScanEnd \/ \E s \in Sources : ScanSource(s)
  PROVE  Harmless /\ op'.pc \in {"idle", "scan"}
<1> USE DEF BlockInv
<1>1. op'.pc \in {"idle", "scan"}
  <2>1. op' = Idle \/ \E todo, created : op' = Scanning(todo, created)
    BY DEF ScanBegin, ScanEnd, ScanSource, ScanError, ScanSkip, ScanRepend, MayReturn, ScanNew
  <2>2. QED BY <2>1, OpParts DEF Scanning
<1>2. /\ indexFile' \in {index', indexFile}
      /\ UNCHANGED <<blocked, blockedFile, told>>
  BY DEF ScanBegin, ScanEnd, ScanSource, ScanError, ScanSkip, ScanRepend, MayReturn, ScanNew,
         SaveIndex, IndexSaved, requests, history
<1>3. \/ index' = index
      \/ \E j \in Keys : /\ index[j].status \in {"none", "rejected"}
                         /\ \/ index' = [index EXCEPT ![j].status = "pending"]
                            \/ index' = [index EXCEPT ![j] = NewItem]
  BY DEF ScanBegin, ScanEnd, ScanSource, ScanError, ScanSkip, ScanRepend, MayReturn, ScanNew,
         requests, Keys
<1>4. ASSUME index' = index PROVE Harmless
  BY <1>2, <1>4 DEF Harmless, BlockedStaysBlocked
<1>5. ASSUME NEW j \in Keys, index[j].status \in {"none", "rejected"},
             index' = [index EXCEPT ![j].status = "pending"]
      PROVE  Harmless
  <2>1. "pending" \in Status \ {"blocked"}
    BY DEF Status
  <2>2. QED BY <1>2, <1>5, <2>1, NotTold, ItemChange
<1>6. ASSUME NEW j \in Keys, index[j].status \in {"none", "rejected"},
             index' = [index EXCEPT ![j] = NewItem]
      PROVE  Harmless
  <2>1. j \notin told
    BY <1>6, NotTold
  <2>2. \A k \in told : index'[k] = index[k]
    BY <1>6, <2>1 DEF TypeOK
  <2>3. QED BY <1>2, <2>2 DEF Harmless, BlockedStaysBlocked
<1>7. ASSUME NEW j \in Keys, index[j].status \in {"none", "rejected"},
             \/ index' = [index EXCEPT ![j].status = "pending"]
             \/ index' = [index EXCEPT ![j] = NewItem]
      PROVE  Harmless
  <2>1. CASE index' = [index EXCEPT ![j].status = "pending"]
    BY <1>5, <1>7, <2>1
  <2>2. CASE index' = [index EXCEPT ![j] = NewItem]
    BY <1>6, <1>7, <2>2
  <2>3. QED BY <1>7, <2>1, <2>2
<1>8. Harmless
  BY <1>3, <1>4, <1>7
<1>9. QED BY <1>1, <1>8

LEMMA ApproveBlock ==
  ASSUME BlockInv,
         \/ \E k \in Keys : ApproveBegin(k)
         \/ ApproveTrust \/ ApproveRecheck \/ ApprovePlace \/ ApproveCopyCode \/ ApproveFinish
  PROVE  /\ Harmless
         /\ \/ op' = Idle
            \/ /\ op'.pc \in Approving /\ index' = index
               /\ index[op'.key].status # "blocked"
<1> USE DEF BlockInv
<1>1. ASSUME NEW k \in Keys, index[k].status # "blocked", told' = told,
             \/ MarkFailed(k) \/ MarkFailedAfterFault(k)
             \/ UNCHANGED requests /\ \E pc \in Approving : op' = On(pc, k)
      PROVE  /\ Harmless
             /\ \/ op' = Idle
                \/ /\ op'.pc \in Approving /\ index' = index
                   /\ index[op'.key].status # "blocked"
  <2>1. CASE MarkFailed(k) \/ MarkFailedAfterFault(k)
    BY <1>1, <2>1, FailHarmless DEF MarkFailed, MarkFailedAfterFault, ItemFails
  <2>2. CASE UNCHANGED requests /\ \E pc \in Approving : op' = On(pc, k)
    BY <1>1, <2>2 DEF requests, Harmless, BlockedStaysBlocked, On
  <2>3. QED BY <1>1, <2>1, <2>2
<1>2. ASSUME NEW k \in Keys, ApproveBegin(k)
      PROVE  /\ index[k].status # "blocked" /\ told' = told
             /\ \/ MarkFailed(k)
                \/ UNCHANGED requests /\ \E pc \in Approving : op' = On(pc, k)
  BY <1>2 DEF ApproveBegin, Approving
<1>3. CASE ApproveTrust \/ ApproveRecheck \/ ApprovePlace \/ ApproveCopyCode
  <2>1. op.key \in Keys /\ index[op.key].status # "blocked"
    BY <1>3 DEF TypeOK, ApproveTrust, ApproveRecheck, ApprovePlace, ApproveCopyCode, Approving
  <2>2. /\ told' = told
        /\ \/ MarkFailed(op.key) \/ MarkFailedAfterFault(op.key)
           \/ UNCHANGED requests /\ \E pc \in Approving : op' = On(pc, op.key)
    BY <1>3 DEF ApproveTrust, ApproveRecheck, ApprovePlace, ApproveCopyCode, Approving, history
  <2>3. QED BY <1>1, <2>1, <2>2
<1>4. CASE ApproveFinish
  <2>1. op.key \in Keys /\ index[op.key].status # "blocked"
    BY <1>4 DEF TypeOK, ApproveFinish, Approving
  <2>2. "installed" \in Status \ {"blocked"}
    BY DEF Status
  <2>3. /\ index' = [index EXCEPT ![op.key].status = "installed"]
        /\ indexFile' \in {index', indexFile}
        /\ UNCHANGED <<blocked, blockedFile, told>> /\ op' = Idle
    BY <1>4 DEF ApproveFinish, SaveIndex, IndexSaved, history
  <2>4. QED BY <2>1, <2>2, <2>3, NotTold, ItemChange
<1>5. QED BY <1>1, <1>2, <1>3, <1>4

LEMMA RejectBlock ==
  ASSUME BlockInv, NEW k \in Keys, Reject(k)
  PROVE  BlockInv'
<1> USE DEF BlockInv
<1>1. TypeOK'
  BY RejectTyped
<1>2. k \notin told /\ told' = told
  BY NotTold DEF Reject, history
<1>3. \A j \in Keys : j # k => index'[j] = index[j]
  BY DEF Reject, TypeOK
<1>4. /\ indexFile' = indexFile
      /\ blocked \subseteq blocked'
      /\ blockedFile' \in {blocked', blockedFile}
  BY DEF Reject, BlockedSaved
<1>5. Harmless
  BY <1>2, <1>3, <1>4 DEF Harmless, BlockedStaysBlocked, TypeOK
<1>6. op' = Idle \/ (op' = On("saveReject", k)
                      /\ (index'[k].status = "blocked" => k \in blocked' \cap blockedFile'))
  BY DEF Reject, BlockedSaved, TypeOK
<1>7. CASE op' = Idle
  BY <1>1, <1>5, <1>7, HarmlessKeeps, OpParts DEF Approving
<1>8. CASE op' = On("saveReject", k)
             /\ (index'[k].status = "blocked" => k \in blocked' \cap blockedFile')
  BY <1>1, <1>5, <1>8, HarmlessKeeps DEF On, Approving
<1>9. QED BY <1>6, <1>7, <1>8

LEMMA UnblockBlock ==
  ASSUME BlockInv, NEW k \in Keys, UnblockBegin(k)
  PROVE  BlockInv'
<1> USE DEF BlockInv
<1>1. TypeOK'
  BY RejectTyped
<1>2. /\ told' = told \ {k} /\ index' = index /\ indexFile' = indexFile
      /\ blocked' = blocked \ {k} /\ blockedFile' \in {blocked', blockedFile}
  BY DEF UnblockBegin, BlockedSaved
<1>3. Harmless
  BY <1>2 DEF Harmless, BlockedStaysBlocked
<1>4. op' = Idle \/ op' = On("unblockItem", k)
  BY DEF UnblockBegin
<1>5. QED BY <1>1, <1>2, <1>3, <1>4, HarmlessKeeps, OpParts DEF On, Approving

LEMMA NextBlock == BlockInv /\ [Next]_vars => BlockInv'
<1> SUFFICES ASSUME BlockInv, [Next]_vars PROVE BlockInv'
  OBVIOUS
<1> USE DEF BlockInv
<1>1. TypeOK'
  BY ScanTyped, ApproveTyped, RejectTyped, SurroundingsTyped DEF Next
<1>2. CASE ScanBegin \/ ScanEnd \/ \E s \in Sources : ScanSource(s)
  BY <1>1, <1>2, ScanBlock, HarmlessKeeps DEF Approving
<1>3. CASE \/ \E k \in Keys : ApproveBegin(k)
           \/ ApproveTrust \/ ApproveRecheck \/ ApprovePlace \/ ApproveCopyCode
           \/ ApproveFinish
  BY <1>1, <1>3, ApproveBlock, HarmlessKeeps, OpParts DEF Approving
<1>4. CASE \E k \in Keys : Reject(k) \/ UnblockBegin(k)
  BY <1>4, RejectBlock, UnblockBlock
<1>5. CASE SaveReject
  <2>1. op' = Idle /\ index' = index /\ UNCHANGED <<blocked, blockedFile>>
    BY <1>5 DEF SaveReject
  <2>2. \/ indexFile' = indexFile /\ told' = told
        \/ indexFile' = index' /\ told' \subseteq told \cup {op.key}
             /\ (told' # told => index[op.key].status = "blocked")
    BY <1>5 DEF SaveReject, IndexSaved
  <2>3. index[op.key].status = "blocked" => op.key \in blocked \cap blockedFile
    BY <1>5 DEF SaveReject
  <2>4. BlockedStaysBlocked'
    BY <2>1, <2>2, <2>3 DEF BlockedStaysBlocked
  <2>5. QED BY <1>1, <2>1, <2>4, OpParts DEF Approving
<1>6. CASE UnblockItem
  <2>1. op.key \in Keys /\ op.key \notin told
    BY <1>6 DEF UnblockItem, TypeOK
  <2>2. "rejected" \in Status \ {"blocked"}
    BY DEF Status
  <2>3. /\ op' = Idle /\ UNCHANGED <<blocked, blockedFile, told>>
        /\ indexFile' \in {index', indexFile}
        /\ index' = index \/ index' = [index EXCEPT ![op.key].status = "rejected"]
    BY <1>6 DEF UnblockItem, SaveIndex, IndexSaved, history
  <2>4. CASE index' = index
    BY <1>1, <2>3, <2>4, HarmlessKeeps, OpParts DEF Harmless, BlockedStaysBlocked, Approving
  <2>5. CASE index' = [index EXCEPT ![op.key].status = "rejected"]
    <3>1. Harmless
      BY <2>1, <2>2, <2>3, <2>5, ItemChange
    <3>2. QED BY <1>1, <2>3, <3>1, HarmlessKeeps, OpParts DEF Approving
  <2>6. QED BY <2>3, <2>4, <2>5
<1>7. CASE (\E s \in Sources : Edit(s)) \/ ExecutorStart \/ UNCHANGED vars
  <2>1. UNCHANGED <<index, indexFile, blocked, blockedFile, told, op>>
    BY <1>7 DEF Edit, ExecutorStart, requests, history, vars
  <2>2. QED BY <1>1, <2>1 DEF BlockedStaysBlocked
<1>8. CASE Restart
  <2>1. /\ op' = Idle /\ index' = indexFile /\ indexFile' = indexFile
        /\ blocked' = blockedFile /\ blockedFile' = blockedFile /\ told' = told
    BY <1>8 DEF Restart, history
  <2>2. Harmless
    BY <2>1 DEF Harmless, BlockedStaysBlocked
  <2>3. QED BY <1>1, <2>1, <2>2, HarmlessKeeps, OpParts DEF Approving
<1>9. QED BY <1>2, <1>3, <1>4, <1>5, <1>6, <1>7, <1>8 DEF Next

\* A candidate whose blocking was reported stays blocked until it is unblocked,
\* in memory and on disk, across failing saves and restarts.
THEOREM BlockedStaysBlockedAlways == Spec => []BlockedStaysBlocked
<1>1. BlockInv => BlockedStaysBlocked
  BY DEF BlockInv
<1>2. QED BY <1>1, InitBlock, NextBlock, PTL DEF Spec

-----------------------------------------------------------------------------
(* The promise.                                                            *)

\* The candidate being approved awaits a decision until the approval ends.
LifeInv ==
  /\ TypeOK
  /\ op.pc \in Approving => index[op.key].status \in {"pending", "rejected", "failed"}

\* The abstract state, as functions of the detailed one.
StatusOf(items) == [k \in Keys |-> items[k].status]
Approved(o) == IF o.pc \in Approving THEN o.key ELSE None

\* A change of one item's status, and of no other, is one in the abstract state.
LEMMA ItemBecomes ==
  ASSUME NEW k \in Keys, NEW st, index'[k].status = st,
         \A j \in Keys : j # k => index'[j].status = index[j].status,
         indexFile' \in {index', indexFile}
  PROVE  /\ StatusOf(index') = [StatusOf(index) EXCEPT ![k] = st]
         /\ StatusOf(indexFile') \in {StatusOf(index'), StatusOf(indexFile)}
<1>1. StatusOf(index') = [StatusOf(index) EXCEPT ![k] = st]
  BY DEF StatusOf
<1>2. QED BY <1>1

\* The same for an update of the status alone.
LEMMA StatusBecomes ==
  ASSUME TypeOK, NEW k \in Keys, NEW st \in Status \ {"blocked"},
         index' = [index EXCEPT ![k].status = st], indexFile' \in {index', indexFile}
  PROVE  /\ StatusOf(index') = [StatusOf(index) EXCEPT ![k] = st]
         /\ StatusOf(indexFile') \in {StatusOf(index'), StatusOf(indexFile)}
<1>1. index'[k].status = st /\ \A j \in Keys : j # k => index'[j] = index[j]
  BY StatusChange DEF TypeOK
<1>2. QED BY <1>1, ItemBecomes

LEMMA ApprovedOf ==
  /\ Approved(Idle) = None
  /\ \A k \in Keys : /\ Approved(On("saveReject", k)) = None
                     /\ Approved(On("unblockItem", k)) = None
                     /\ \A pc \in Approving : Approved(On(pc, k)) = k
  /\ \A todo \in SUBSET Sources, created \in BOOLEAN : Approved(Scanning(todo, created)) = None
BY DEF Approved, Approving, Idle, On, Scanning

\* A change of one item is a change of one candidate.
LEMMA BecomeMoves ==
  ASSUME NEW k \in Keys, NEW st,
         StatusOf(index') = [StatusOf(index) EXCEPT ![k] = st],
         StatusOf(indexFile') \in {StatusOf(index'), StatusOf(indexFile)}
  PROVE  Lifecycle!Become(k, st)
BY DEF Lifecycle!Become, StatusOf

\* A step that moves no item, and begins or ends no approval, is hidden.
LEMMA HiddenStep ==
  ASSUME UNCHANGED <<index, indexFile>>, Approved(op') = Approved(op)
  PROVE  UNCHANGED Lifecycle!vars
BY DEF Lifecycle!vars, Approved

LEMMA SaveStep ==
  ASSUME UNCHANGED index, indexFile' \in {index', indexFile}, Approved(op') = Approved(op)
  PROVE  Lifecycle!Save \/ UNCHANGED Lifecycle!vars
BY DEF Lifecycle!Save, Lifecycle!vars, Approved

LEMMA ScanPromised ==
  ASSUME LifeInv, ScanBegin \/ ScanEnd \/ \E s \in Sources : ScanSource(s)
  PROVE  [Lifecycle!Next]_Lifecycle!vars /\ op'.pc \notin Approving
<1> USE DEF LifeInv
<1>1. op.pc \notin Approving /\ op'.pc \notin Approving
  <2>1. op.pc \in {"idle", "scan"}
    BY DEF ScanBegin, ScanEnd, ScanSource
  <2>2. op' = Idle \/ \E todo, created : op' = Scanning(todo, created)
    BY DEF ScanBegin, ScanEnd, ScanSource, ScanError, ScanSkip, ScanRepend, ScanNew
  <2>3. QED BY <2>1, <2>2, OpParts DEF Scanning, Approving
<1>2. Approved(op) = None /\ Approved(op') = None
  BY <1>1 DEF Approved
<1>3. indexFile' \in {index', indexFile}
  BY DEF ScanBegin, ScanEnd, ScanSource, ScanError, ScanSkip, ScanRepend, ScanNew,
         SaveIndex, IndexSaved, requests
<1>4. \/ index' = index
      \/ \E k \in Keys : /\ index[k].status \in {"none", "rejected"}
                         /\ \/ index' = [index EXCEPT ![k].status = "pending"]
                            \/ index' = [index EXCEPT ![k] = NewItem]
  BY DEF ScanBegin, ScanEnd, ScanSource, ScanError, ScanSkip, ScanRepend, MayReturn, ScanNew,
         requests, Keys
<1>5. ASSUME index' = index PROVE [Lifecycle!Next]_Lifecycle!vars
  BY <1>2, <1>3, <1>5, SaveStep DEF Lifecycle!Next
<1>6. ASSUME NEW k \in Keys, index[k].status \in {"none", "rejected"},
             \/ index' = [index EXCEPT ![k].status = "pending"]
             \/ index' = [index EXCEPT ![k] = NewItem]
      PROVE  Lifecycle!Notify(k)
  <2>1. index'[k].status = "pending" /\ \A j \in Keys : j # k => index'[j] = index[j]
    <3>1. CASE index' = [index EXCEPT ![k].status = "pending"]
      <4>1. "pending" \in Status \ {"blocked"}
        BY DEF Status
      <4>2. QED BY <3>1, <4>1, StatusChange DEF TypeOK
    <3>2. CASE index' = [index EXCEPT ![k] = NewItem]
      BY <3>2 DEF TypeOK, NewItem
    <3>3. QED BY <1>6, <3>1, <3>2
  <2>2. Lifecycle!Become(k, "pending")
    BY <1>3, <2>1, ItemBecomes, BecomeMoves
  <2>3. QED BY <1>2, <1>6, <2>2 DEF Lifecycle!Notify, Approved
<1>7. [Lifecycle!Next]_Lifecycle!vars
  BY <1>4, <1>5, <1>6 DEF Lifecycle!Next
<1>8. QED BY <1>1, <1>7

\* An approval that fails, at its first check or later.
LEMMA FailPromised ==
  ASSUME TypeOK, NEW k \in Keys, index[k].status \in {"pending", "rejected", "failed"},
         Approved(op) \in {None, k}, MarkFailed(k) \/ MarkFailedAfterFault(k)
  PROVE  Lifecycle!Fail(k) /\ op'.pc \notin Approving
<1>1. "failed" \in Status \ {"blocked"}
  BY DEF Status
<1>2. /\ index' = [index EXCEPT ![k].status = "failed"] /\ indexFile' \in {index', indexFile}
      /\ op' = Idle
  BY DEF MarkFailed, MarkFailedAfterFault, ItemFails, SaveIndex, IndexSaved
<1>3. Lifecycle!Become(k, "failed")
  BY <1>1, <1>2, StatusBecomes, BecomeMoves
<1>4. Approved(op') = None /\ op'.pc \notin Approving
  BY <1>2, ApprovedOf, OpParts DEF Approving
<1>5. QED BY <1>3, <1>4 DEF Lifecycle!Fail, Lifecycle!Open, Approved

LEMMA ApprovePromised ==
  ASSUME LifeInv,
         \/ \E k \in Keys : ApproveBegin(k)
         \/ ApproveTrust \/ ApproveRecheck \/ ApprovePlace \/ ApproveCopyCode \/ ApproveFinish
  PROVE  /\ [Lifecycle!Next]_Lifecycle!vars
         /\ op'.pc \in Approving =>
              index'[op'.key].status \in {"pending", "rejected", "failed"}
<1> USE DEF LifeInv
<1> DEFINE Awaits(k) == index[k].status \in {"pending", "rejected", "failed"}
<1>1. ASSUME NEW k \in Keys, ApproveBegin(k)
      PROVE  /\ [Lifecycle!Next]_Lifecycle!vars
             /\ op'.pc \in Approving => index' = index /\ op'.key = k
      <2>1. Awaits(k) /\ Approved(op) = None
        BY <1>1 DEF ApproveBegin, Approved, Approving
      <2>2. CASE op' = On("trust", k) /\ UNCHANGED requests
        <3>1. Approved(op') = k /\ op'.key = k /\ UNCHANGED <<index, indexFile>>
          BY <2>2, ApprovedOf, OpParts DEF Approving, PC, requests
        <3>2. Lifecycle!Approve(k)
          BY <2>1, <3>1 DEF Lifecycle!Approve, Lifecycle!Open, Approved
        <3>3. QED BY <3>1, <3>2 DEF Lifecycle!Next
      <2>3. CASE MarkFailed(k)
        BY <2>1, <2>3, FailPromised DEF Lifecycle!Next
      <2>4. QED BY <1>1, <2>2, <2>3 DEF ApproveBegin
<1>2. CASE \E k \in Keys : ApproveBegin(k)
  <2>1. PICK k \in Keys : ApproveBegin(k)
    BY <1>2
  <2>2. Awaits(k)
    BY <2>1 DEF ApproveBegin
  <2>3. QED BY <1>1, <2>1, <2>2
<1>3. CASE ApproveTrust \/ ApproveRecheck \/ ApprovePlace \/ ApproveCopyCode
  <2>1. /\ op.key \in Keys /\ op.pc \in Approving /\ Awaits(op.key)
    BY <1>3 DEF ApproveTrust, ApproveRecheck, ApprovePlace, ApproveCopyCode, Approving, TypeOK
  <2>2. Approved(op) = op.key
    BY <2>1 DEF Approved
  <2>3. \/ MarkFailed(op.key) \/ MarkFailedAfterFault(op.key)
        \/ /\ UNCHANGED requests
           /\ \E pc \in {"recheck", "place", "copyCode", "finish"} : op' = On(pc, op.key)
    BY <1>3 DEF ApproveTrust, ApproveRecheck, ApprovePlace, ApproveCopyCode
  <2>4. CASE MarkFailed(op.key) \/ MarkFailedAfterFault(op.key)
    BY <2>1, <2>2, <2>4, FailPromised DEF Lifecycle!Next
  <2>5. CASE /\ UNCHANGED requests
             /\ \E pc \in {"recheck", "place", "copyCode", "finish"} : op' = On(pc, op.key)
    <3>1. Approved(op') = op.key /\ op'.key = op.key /\ UNCHANGED <<index, indexFile>>
      BY <2>1, <2>5, ApprovedOf, OpParts DEF Approving, PC, requests
    <3>2. QED BY <2>1, <2>2, <3>1, HiddenStep
  <2>6. QED BY <2>3, <2>4, <2>5
<1>4. CASE ApproveFinish
  <2>1. /\ op.key \in Keys /\ op.pc \in Approving
    BY <1>4 DEF ApproveFinish, Approving, TypeOK
  <2>2. PICK k \in Keys : op.key = k
    BY <2>1
  <2>3. Approved(op) = k /\ Awaits(k)
    BY <2>1, <2>2 DEF Approved
  <2>4. /\ index' = [index EXCEPT ![k].status = "installed"]
        /\ indexFile' \in {index', indexFile} /\ op' = Idle
    BY <1>4, <2>2 DEF ApproveFinish, SaveIndex, IndexSaved
  <2>5. "installed" \in Status \ {"blocked"}
    BY DEF Status
  <2>6. Lifecycle!Become(k, "installed")
    BY <2>4, <2>5, StatusBecomes, BecomeMoves
  <2>7. Approved(op') = None /\ op'.pc \notin Approving
    BY <2>4, ApprovedOf, OpParts DEF Approving
  <2>8. Lifecycle!Install(k)
    BY <2>3, <2>6, <2>7 DEF Lifecycle!Install, Lifecycle!Open, Approved
  <2>9. QED BY <2>7, <2>8 DEF Lifecycle!Next
<1>5. QED BY <1>2, <1>3, <1>4

LEMMA DecisionPromised ==
  ASSUME LifeInv, \/ \E k \in Keys : Reject(k) \/ UnblockBegin(k)
                  \/ SaveReject \/ UnblockItem
  PROVE  [Lifecycle!Next]_Lifecycle!vars /\ op'.pc \notin Approving
<1> USE DEF LifeInv
<1>1. ASSUME NEW k \in Keys, Reject(k)
      PROVE  [Lifecycle!Next]_Lifecycle!vars /\ op'.pc \notin Approving
  <2> DEFINE n == Capped(index[k].rejects + 1)
  <2>1. /\ index[k].status \in {"pending", "rejected", "failed"} /\ Approved(op) = None
        /\ indexFile' = indexFile /\ op' \in {Idle, On("saveReject", k)}
        /\ \E st \in {"blocked", "rejected"} :
             index' = [index EXCEPT ![k] = [status |-> st, rejects |-> n]]
    BY <1>1 DEF Reject, Approved, Approving
  <2>2. PICK st \in {"blocked", "rejected"} :
          index' = [index EXCEPT ![k] = [status |-> st, rejects |-> n]]
    BY <2>1
  <2>3. index'[k].status = st /\ \A j \in Keys : j # k => index'[j] = index[j]
    BY <2>2 DEF TypeOK
  <2>4. Lifecycle!Become(k, st)
    BY <2>1, <2>3, ItemBecomes, BecomeMoves
  <2>5. Approved(op') = None /\ op'.pc \notin Approving
    BY <2>1, ApprovedOf, OpParts DEF Approving, PC
  <2>6. Lifecycle!Reject(k)
    BY <2>1, <2>2, <2>4, <2>5 DEF Lifecycle!Reject, Lifecycle!Open, Approved
  <2>7. QED BY <2>5, <2>6 DEF Lifecycle!Next
<1>2. ASSUME NEW k \in Keys, UnblockBegin(k)
      PROVE  [Lifecycle!Next]_Lifecycle!vars /\ op'.pc \notin Approving
  <2>1. /\ Approved(op) = None /\ UNCHANGED <<index, indexFile>>
        /\ op' \in {Idle, On("unblockItem", k)}
    BY <1>2 DEF UnblockBegin, Approved, Approving
  <2>2. Approved(op') = None /\ op'.pc \notin Approving
    BY <2>1, ApprovedOf, OpParts DEF Approving, PC
  <2>3. QED BY <2>1, <2>2, HiddenStep
<1>3. CASE SaveReject
  <2>1. /\ Approved(op) = None /\ index' = index /\ indexFile' \in {index', indexFile}
        /\ op' = Idle
    BY <1>3 DEF SaveReject, IndexSaved, Approved, Approving
  <2>2. Approved(op') = None /\ op'.pc \notin Approving
    BY <2>1, ApprovedOf, OpParts DEF Approving
  <2>3. QED BY <2>1, <2>2, SaveStep DEF Lifecycle!Next
<1>4. CASE UnblockItem
  <2>1. /\ Approved(op) = None /\ op' = Idle /\ op.key \in Keys
    BY <1>4 DEF UnblockItem, Approved, Approving, TypeOK
  <2>2. Approved(op') = None /\ op'.pc \notin Approving
    BY <2>1, ApprovedOf, OpParts DEF Approving
  <2>3. PICK k \in Keys : op.key = k
    BY <2>1
  <2>4. \/ UNCHANGED <<index, indexFile>>
        \/ /\ index[k].status # "none"
           /\ index' = [index EXCEPT ![k].status = "rejected"]
           /\ indexFile' \in {index', indexFile}
    BY <1>4, <2>3 DEF UnblockItem, SaveIndex, IndexSaved
  <2>5. CASE UNCHANGED <<index, indexFile>>
    BY <2>1, <2>2, <2>5, HiddenStep
  <2>6. CASE /\ index[k].status # "none"
             /\ index' = [index EXCEPT ![k].status = "rejected"]
             /\ indexFile' \in {index', indexFile}
    <3>1. "rejected" \in Status \ {"blocked"}
      BY DEF Status
    <3>2. Lifecycle!Become(k, "rejected")
      BY <2>6, <3>1, StatusBecomes, BecomeMoves
    <3>3. Lifecycle!Unblock(k)
      BY <2>1, <2>2, <2>6, <3>2 DEF Lifecycle!Unblock, Approved
    <3>4. QED BY <2>2, <3>3 DEF Lifecycle!Next
  <2>7. QED BY <2>4, <2>5, <2>6
<1>5. QED BY <1>1, <1>2, <1>3, <1>4

LEMMA SurroundingsPromised ==
  ASSUME LifeInv, \/ (\E s \in Sources : Edit(s)) \/ ExecutorStart
                  \/ Restart \/ UNCHANGED vars
  PROVE  /\ [Lifecycle!Next]_Lifecycle!vars
         /\ op'.pc \in Approving =>
              index'[op'.key].status \in {"pending", "rejected", "failed"}
<1> USE DEF LifeInv
<1>1. CASE (\E s \in Sources : Edit(s)) \/ ExecutorStart \/ UNCHANGED vars
  <2>1. UNCHANGED <<index, indexFile, op>>
    BY <1>1 DEF Edit, ExecutorStart, requests, vars
  <2>2. QED BY <2>1, HiddenStep
<1>2. CASE Restart
  <2>1. index' = indexFile /\ indexFile' = indexFile /\ op' = Idle
    BY <1>2 DEF Restart
  <2>2. Approved(op') = None /\ op'.pc \notin Approving
    BY <2>1, ApprovedOf, OpParts DEF Approving
  <2>3. Lifecycle!Crash
    BY <2>1, <2>2 DEF Lifecycle!Crash, Approved
  <2>4. QED BY <2>2, <2>3 DEF Lifecycle!Next
<1>3. QED BY <1>1, <1>2

\* The installer keeps the promise: every step of it is a step of
\* CandidateLifecycle or hidden.
THEOREM InstallerKeepsPromise == Spec => MovesAsPromised
<1>1. Init => LifeInv /\ Lifecycle!Init
  <2> SUFFICES ASSUME Init PROVE LifeInv /\ Lifecycle!Init
    OBVIOUS
  <2>1. op.pc \notin Approving
    BY OpParts DEF Init, Approving
  <2>2. \A k \in Keys : index[k].status = "none" /\ indexFile[k].status = "none"
    BY DEF Init, NoItem
  <2>3. QED BY <2>1, <2>2, InitTyped DEF LifeInv, Lifecycle!Init
<1>2. LifeInv /\ [Next]_vars => LifeInv' /\ [Lifecycle!Next]_Lifecycle!vars
  <2> SUFFICES ASSUME LifeInv, [Next]_vars
               PROVE  LifeInv' /\ [Lifecycle!Next]_Lifecycle!vars
    OBVIOUS
  <2>1. TypeOK'
    BY ScanTyped, ApproveTyped, RejectTyped, SurroundingsTyped DEF Next, LifeInv
  <2>2. CASE ScanBegin \/ ScanEnd \/ \E s \in Sources : ScanSource(s)
    BY <2>1, <2>2, ScanPromised DEF LifeInv
  <2>3. CASE \/ \E k \in Keys : ApproveBegin(k)
             \/ ApproveTrust \/ ApproveRecheck \/ ApprovePlace \/ ApproveCopyCode
             \/ ApproveFinish
    BY <2>1, <2>3, ApprovePromised DEF LifeInv
  <2>4. CASE (\E k \in Keys : Reject(k) \/ UnblockBegin(k)) \/ SaveReject \/ UnblockItem
    BY <2>1, <2>4, DecisionPromised DEF LifeInv
  <2>5. CASE (\E s \in Sources : Edit(s)) \/ ExecutorStart \/ Restart \/ UNCHANGED vars
    BY <2>1, <2>5, SurroundingsPromised DEF LifeInv
  <2>6. QED BY <2>2, <2>3, <2>4, <2>5 DEF Next
<1>3. QED BY <1>1, <1>2, PTL DEF Spec, MovesAsPromised, Lifecycle!Spec
=============================================================================
