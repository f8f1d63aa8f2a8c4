------------------------- MODULE PackApprovalProofs -------------------------
(***************************************************************************)
(* Proofs of the invariants of PackApproval, for any packs, trees and      *)
(* threads: first IInv, which gives the types and the backing of approvals,*)
(* by one lemma per action; then, with IInv, the backing of rule approvals,*)
(* the grant files and the verifications, by the kinds of step there are.  *)
(***************************************************************************)
EXTENDS PackApproval, TLAPS

\* A scan that is reading a record.
ReadPC == {"scanFields", "scanStatus"}

\* A thread inside a call knows its pack, and the hash maps it works with; a scan
\* that is reading a record has one to read.
CallsWellFormed ==
  \A t \in Threads :
    /\ call[t].pc \notin {"idle", "scan"} => call[t].pack \in Packs
    /\ call[t].pc \in {"rollback", "commit"} => call[t].stored \in Contents
    /\ call[t].pc = "fill" => call[t].seen \in Contents
    /\ call[t].pc \in ScanPC => snapshot[t] \in Record
    /\ call[t].pc \in ReadPC => approvals[call[t].pack] # None

\* A pack directory, the cache and the threads hold only trees that the
\* directory held at some time, and so does everything that was recorded.
TreesBacked ==
  /\ \A p \in Packs : /\ content[p] # None => content[p] \in onDisk[p]
                      /\ hashCache[p] # None => hashCache[p] \in onDisk[p]
                      /\ sanctioned[p] \subseteq onDisk[p]
  /\ \A t \in Threads :
       /\ call[t].pc = "fill" => call[t].seen \in onDisk[call[t].pack]
       /\ call[t].pc = "commit" => call[t].stored \in onDisk[call[t].pack]

\* No record says "approved" unless a decision recorded a tree of the pack.
Decided(p, rec) == rec \in Record /\ rec.status = "approved" => sanctioned[p] # {}

DecisionsTaken ==
  /\ \A p \in Packs : Decided(p, approvals[p]) /\ Decided(p, grantFile[p])
  /\ \A t \in Threads : call[t].pc = "scanWrite" => Decided(call[t].pack, snapshot[t])

IInv == TypeOK /\ CallsWellFormed /\ TreesBacked /\ ApprovedHashesBacked /\ DecisionsTaken

-----------------------------------------------------------------------------
\* The four special values are told apart, and no special value is a record.
LEMMA Distinct ==
  /\ None \notin Contents /\ None \notin Packs /\ None \notin Record
  /\ Unreadable \notin Record /\ Tampered \notin Record
  /\ Unreadable # None /\ Tampered # None /\ Unreadable # Tampered
BY PackAssumption, FileAssumption

\* What a restart loads from a grant file is a record or nothing, and a loaded
\* record is backed if the file is.
LEMMA LoadBacked ==
  ASSUME NEW p \in Packs, NEW f \in GrantFile, ApprovalBacked(p, f), Decided(p, f)
  PROVE  Load(f) \in Record \cup {None} /\ ApprovalBacked(p, Load(f)) /\ Decided(p, Load(f))
<1>1. CASE f = Tampered
  <2>1. Load(f) = NewRecord("modified")
    BY <1>1, Distinct DEF Load
  <2>2. NewRecord("modified") \in Record /\ NewRecord("modified").status = "modified"
    BY DEF NewRecord, Record, Status
  <2>3. QED BY <2>1, <2>2 DEF ApprovalBacked, Decided
<1>2. CASE f = Unreadable
  BY <1>2, Distinct DEF Load, ApprovalBacked, Decided
<1>3. CASE f \in Record \cup {None}
  BY <1>3, Distinct DEF Load
<1>4. QED BY <1>1, <1>2, <1>3 DEF GrantFile

-----------------------------------------------------------------------------
\* A record backed by what is sanctioned and on disk after the step.
NewlyBacked(p, rec) ==
  rec \in Record /\ rec.status = "approved" =>
    /\ sanctioned'[p] # {}
    /\ rec.mixed \/ rec.hashes \in sanctioned'[p] \cap onDisk'[p]

\* A call value that keeps the invariant when a thread moves to it.
GoodCall(c) ==
  /\ c \in Call
  /\ c.pc \notin {"idle", "scan"} => c.pack \in Packs
  /\ c.pc \in {"rollback", "commit"} => c.stored \in Contents
  /\ c.pc = "fill" => c.seen \in Contents /\ c.seen \in onDisk[c.pack]
  /\ c.pc = "commit" => c.stored \in onDisk[c.pack]

\* What a step does to calls and scans: each thread stands where it stood or
\* moves to a good call, a scan that begins to read has a record to read, and a
\* snapshot about to be written is backed.
CallsMove ==
  /\ call' \in [Threads -> Call]
  /\ \A t \in Threads : call'[t] = call[t] \/ GoodCall(call'[t])

ScansMove ==
  /\ pending' \in [Threads -> SUBSET Packs]
  /\ snapshot' \in [Threads -> Record \cup {None}]
  /\ \A t \in Threads : call'[t].pc \in ScanPC =>
       \/ call'[t] = call[t] /\ snapshot'[t] = snapshot[t]
       \/ /\ snapshot'[t] \in Record
          /\ call'[t].pc = "scanWrite" => NewlyBacked(call'[t].pack, snapshot'[t])
          /\ call'[t].pc # "scanWrite" => approvals[call'[t].pack] # None

\* What a step does to records and files: both stay typed, what is new in them is
\* backed, and no scan goes on reading a record that is removed.
RecordsMove ==
  /\ approvals' \in [Packs -> Record \cup {None}]
  /\ grantFile' \in [Packs -> GrantFile]
  /\ lagging' \in SUBSET Packs
  /\ \A p \in Packs : /\ approvals'[p] = approvals[p] \/ NewlyBacked(p, approvals'[p])
                      /\ grantFile'[p] = grantFile[p] \/ NewlyBacked(p, grantFile'[p])
                      /\ \/ Known(p) => approvals'[p] # None
                         \/ \A t \in Threads : call'[t].pc \in ReadPC => call'[t].pack # p

\* What a step does to the trees: the directory and the cache show trees that
\* were on disk, and the two histories only grow.
TreesMove ==
  /\ content' \in [Packs -> Contents \cup {None}]
  /\ hashCache' \in [Packs -> Contents \cup {None}]
  /\ onDisk' \in [Packs -> SUBSET Contents]
  /\ sanctioned' \in [Packs -> SUBSET Contents]
  /\ \A p \in Packs : /\ onDisk[p] \subseteq onDisk'[p]
                      /\ sanctioned[p] \subseteq sanctioned'[p]
                      /\ sanctioned'[p] \subseteq onDisk'[p]
                      /\ content'[p] # None => content'[p] \in onDisk'[p]
                      /\ hashCache'[p] # None => hashCache'[p] \in onDisk'[p]

LEMMA IdleGood == GoodCall(Idle)
BY DEF GoodCall, Idle, Call, PC, Mode

\* A step made of such moves preserves the invariant.
LEMMA MovesPreserve ==
  ASSUME IInv, CallsMove, ScansMove, RecordsMove, TreesMove
  PROVE  IInv'
<1>1. TypeOK'
  BY DEF IInv, TypeOK, CallsMove, ScansMove, RecordsMove, TreesMove
<1>2. CallsWellFormed'
  <2>1. ASSUME NEW t \in Threads
        PROVE  /\ call'[t].pc \notin {"idle", "scan"} => call'[t].pack \in Packs
               /\ call'[t].pc \in {"rollback", "commit"} => call'[t].stored \in Contents
               /\ call'[t].pc = "fill" => call'[t].seen \in Contents
    BY DEF IInv, CallsWellFormed, CallsMove, GoodCall
  <2>2. ASSUME NEW t \in Threads, call'[t].pc \in ScanPC
        PROVE  snapshot'[t] \in Record
    BY <2>2 DEF IInv, CallsWellFormed, ScansMove
  <2>3. ASSUME NEW t \in Threads, call'[t].pc \in ReadPC
        PROVE  approvals'[call'[t].pack] # None
    <3>1. call'[t].pack \in Packs
      BY <2>1, <2>3 DEF ReadPC
    <3>2. Known(call'[t].pack)
      BY <2>3 DEF IInv, CallsWellFormed, ScansMove, ScanPC, ReadPC, Known
    <3>3. QED BY <2>3, <3>1, <3>2 DEF RecordsMove
  <2>4. QED BY <2>1, <2>2, <2>3 DEF CallsWellFormed
<1>3. TreesBacked'
  <2>1. \A p \in Packs : /\ content'[p] # None => content'[p] \in onDisk'[p]
                         /\ hashCache'[p] # None => hashCache'[p] \in onDisk'[p]
                         /\ sanctioned'[p] \subseteq onDisk'[p]
    BY DEF TreesMove
  <2>2. ASSUME NEW t \in Threads
        PROVE  /\ call'[t].pc = "fill" => call'[t].seen \in onDisk'[call'[t].pack]
               /\ call'[t].pc = "commit" => call'[t].stored \in onDisk'[call'[t].pack]
    <3>1. CASE call'[t] = call[t]
      <4>1. call[t].pc \in {"fill", "commit"} => call[t].pack \in Packs
        BY DEF IInv, CallsWellFormed
      <4>2. QED BY <3>1, <4>1 DEF IInv, TreesBacked, TreesMove
    <3>2. CASE GoodCall(call'[t])
      BY <3>2 DEF GoodCall, TreesMove
    <3>3. QED BY <3>1, <3>2 DEF CallsMove
  <2>3. QED BY <2>1, <2>2 DEF TreesBacked
<1>4. ApprovedHashesBacked' /\ DecisionsTaken'
  <2>1. \A p \in Packs : \A rec : ApprovalBacked(p, rec) /\ Decided(p, rec) => NewlyBacked(p, rec)
    BY DEF ApprovalBacked, Decided, NewlyBacked, TreesMove
  <2>2. \A p \in Packs : NewlyBacked(p, approvals'[p]) /\ NewlyBacked(p, grantFile'[p])
    BY <2>1 DEF RecordsMove, IInv, ApprovedHashesBacked, DecisionsTaken
  <2>3. ASSUME NEW t \in Threads, call'[t].pc = "scanWrite"
        PROVE  NewlyBacked(call'[t].pack, snapshot'[t])
    <3>1. CASE call'[t] = call[t] /\ snapshot'[t] = snapshot[t]
      <4>1. call[t].pack \in Packs /\ call[t].pc = "scanWrite"
        BY <2>3, <3>1 DEF IInv, CallsWellFormed
      <4>2. QED BY <2>1, <3>1, <4>1 DEF IInv, ApprovedHashesBacked, DecisionsTaken
    <3>2. QED BY <2>3, <3>1 DEF ScansMove, ScanPC
  <2>4. QED
    BY <2>2, <2>3 DEF ApprovedHashesBacked, ApprovalBacked, DecisionsTaken, Decided, NewlyBacked
<1>5. QED BY <1>1, <1>2, <1>3, <1>4 DEF IInv

-----------------------------------------------------------------------------
\* The moves that most actions are made of.

LEMMA UpdateMoves ==
  ASSUME IInv, NEW p \in Packs, NEW rec \in Record, NEW ok \in BOOLEAN,
         NewlyBacked(p, rec), Update(p, rec, ok)
  PROVE  RecordsMove
<1>1. approvals' = [approvals EXCEPT ![p] = rec]
  BY DEF Update
<1>2. PICK f \in {rec, grantFile[p], Unreadable} : grantFile' = [grantFile EXCEPT ![p] = f]
  BY DEF Update, SaveGrant
<1>3. f \in GrantFile /\ (f = grantFile[p] \/ NewlyBacked(p, f))
  BY <1>2, Distinct DEF GrantFile, NewlyBacked, IInv, TypeOK
<1>4. lagging' \in SUBSET Packs
  BY DEF Update, SaveGrant, IInv, TypeOK
<1>5. rec # None
  BY Distinct
<1>6. QED BY <1>1, <1>2, <1>3, <1>4, <1>5 DEF RecordsMove, Known, IInv, TypeOK

LEMMA RecordsStay ==
  ASSUME IInv, UNCHANGED <<approvals, grantFile, lagging>>
  PROVE  RecordsMove
BY DEF RecordsMove, Known, IInv, TypeOK

LEMMA TreesStay ==
  ASSUME IInv, UNCHANGED <<files, sanctioned>>,
         hashCache' \in [Packs -> Contents \cup {None}],
         \A p \in Packs : hashCache'[p] # None => hashCache'[p] \in onDisk[p]
  PROVE  TreesMove
BY DEF TreesMove, IInv, TypeOK, TreesBacked, files

LEMMA CacheStays ==
  ASSUME IInv, UNCHANGED hashCache
  PROVE  /\ hashCache' \in [Packs -> Contents \cup {None}]
         /\ \A p \in Packs : hashCache'[p] # None => hashCache'[p] \in onDisk[p]
BY DEF IInv, TypeOK, TreesBacked

LEMMA CacheCleared ==
  ASSUME IInv, NEW p \in Packs, NEW ok \in BOOLEAN, Invalidate(p, ok)
  PROVE  /\ hashCache' \in [Packs -> Contents \cup {None}]
         /\ \A q \in Packs : hashCache'[q] # None => hashCache'[q] \in onDisk[q]
BY DEF IInv, TypeOK, TreesBacked, Invalidate

LEMMA CallsStay ==
  ASSUME IInv, UNCHANGED <<scans, call>>
  PROVE  CallsMove /\ ScansMove
BY DEF IInv, TypeOK, CallsMove, ScansMove, scans

LEMMA ThreadMoves ==
  ASSUME IInv, NEW t \in Threads, NEW c, GoodCall(c), c.pc \notin ScanPC,
         call' = [call EXCEPT ![t] = c], UNCHANGED scans
  PROVE  CallsMove /\ ScansMove
BY DEF IInv, TypeOK, CallsMove, ScansMove, GoodCall, scans

LEMMA ThreadReturns ==
  ASSUME IInv, NEW t \in Threads, Return(t), UNCHANGED scans
  PROVE  CallsMove /\ ScansMove
<1>1. GoodCall(Idle) /\ Idle.pc \notin ScanPC
  BY IdleGood DEF Idle, ScanPC
<1>2. QED BY <1>1, ThreadMoves DEF Return

\* A thread inside a call may go to any place of the call that asks nothing new.
LEMMA ThreadGoes ==
  ASSUME IInv, NEW t \in Threads, NEW pc \in PC, Goto(t, pc), UNCHANGED scans,
         pc \notin {"scan", "rollback", "commit", "fill"}, pc \notin ScanPC,
         call[t].pack \in Packs
  PROVE  CallsMove /\ ScansMove
<1> DEFINE c == [call[t] EXCEPT !.pc = pc]
<1>1. call[t] \in Call
  BY DEF IInv, TypeOK
<1>2. c \in Call /\ c.pc = pc /\ c.pack = call[t].pack
  BY <1>1 DEF Call
<1>3. GoodCall(c)
  BY <1>2 DEF GoodCall
<1>4. call' = [call EXCEPT ![t] = c]
  BY DEF Goto
<1> HIDE DEF c
<1>5. QED BY <1>2, <1>3, <1>4, ThreadMoves

\* Handlers change single fields of a record that is there.
LEMMA RecordFields ==
  ASSUME IInv, NEW p \in Packs, Known(p)
  PROVE  /\ approvals[p] \in Record
         /\ approvals[p].status = "approved" =>
              /\ sanctioned[p] # {}
              /\ approvals[p].mixed \/ approvals[p].hashes \in sanctioned[p] \cap onDisk[p]
BY Distinct DEF IInv, TypeOK, Known, ApprovedHashesBacked, ApprovalBacked, DecisionsTaken, Decided

-----------------------------------------------------------------------------
\* The operator's calls.

LEMMA ApproveMoves ==
  ASSUME IInv, NEW p \in Packs, NEW ok \in BOOLEAN, Approve(p, ok), UNCHANGED files
  PROVE  RecordsMove /\ TreesMove
<1> DEFINE h == CachedHashes(p)
           rec == [approvals[p] EXCEPT !.status = "approved", !.hashes = h,
                                       !.versions = @ \cup {h}, !.mixed = FALSE]
<1>1. h \in Contents /\ h \in onDisk[p]
  BY Distinct DEF Approve, CachedHashes, IInv, TypeOK, TreesBacked
<1>2. rec \in Record /\ rec.hashes = h
  BY <1>1, RecordFields DEF Record, Status, Approve
<1>3. sanctioned' = [sanctioned EXCEPT ![p] = @ \cup {h}] /\ UNCHANGED onDisk
  BY DEF Approve, files
<1>4. h \in sanctioned'[p] \cap onDisk'[p]
  BY <1>1, <1>3 DEF IInv, TypeOK
<1>5. NewlyBacked(p, rec)
  BY <1>2, <1>4 DEF NewlyBacked
<1>6. Update(p, rec, ok)
  BY DEF Approve
<1>7. hashCache' = [hashCache EXCEPT ![p] = IF ok THEN None ELSE h]
  BY DEF Approve
<1> HIDE DEF rec, h
<1>8. RecordsMove
  BY <1>2, <1>5, <1>6, UpdateMoves
<1>9. TreesMove
  BY <1>1, <1>3, <1>7 DEF TreesMove, IInv, TypeOK, TreesBacked, files
<1>10. QED BY <1>8, <1>9

LEMMA ApiApproveStep ==
  ASSUME IInv, NEW p \in Packs, NEW ok \in BOOLEAN, ApiApprove(p, ok)
  PROVE  IInv'
BY ApproveMoves, CallsStay, MovesPreserve DEF ApiApprove

\* A handler that leaves the sanctioned trees alone keeps a record backed when
\* it keeps status, hashes and what is known of them, or when it leaves a status
\* other than approved.
LEMMA KeepsBacked ==
  ASSUME IInv, NEW p \in Packs, Known(p), NEW rec \in Record, UNCHANGED <<sanctioned, onDisk>>,
         rec.status = "approved" => /\ approvals[p].status = "approved"
                                    /\ rec.hashes = approvals[p].hashes
                                    /\ rec.mixed = approvals[p].mixed
  PROVE  NewlyBacked(p, rec)
BY RecordFields DEF NewlyBacked

LEMMA ApproveRuleStep ==
  ASSUME IInv, NEW p \in Packs, NEW ok \in BOOLEAN, ApproveRule(p, ok)
  PROVE  IInv'
<1> DEFINE h == approvals[p].hashes
           rec == [approvals[p] EXCEPT !.ruleApproved = TRUE,
                                       !.versions = @ \cup ({h} \ {None})]
<1>1. Known(p) /\ approvals[p].status = "approved"
  BY DEF ApproveRule, HasStatus
<1>2. {h} \ {None} \subseteq Contents
  BY <1>1, RecordFields DEF Record
<1>3. rec \in Record /\ rec.hashes = h /\ rec.mixed = approvals[p].mixed
  BY <1>1, <1>2, RecordFields DEF Record
<1>4. Update(p, rec, ok)
  BY DEF ApproveRule, Ruling
<1>5. UNCHANGED <<files, scans, call, hashCache, sanctioned>>
  BY DEF ApproveRule, Ruling
<1> HIDE DEF rec, h
<1>6. NewlyBacked(p, rec)
  BY <1>1, <1>3, <1>5, KeepsBacked DEF files, h
<1>7. QED
  BY <1>3, <1>4, <1>5, <1>6, UpdateMoves, CacheStays, TreesStay, CallsStay, MovesPreserve

LEMMA RejectStep ==
  ASSUME IInv, NEW p \in Packs, NEW ok \in BOOLEAN, Reject(p, ok)
  PROVE  IInv'
<1> DEFINE rec == [approvals[p] EXCEPT !.status = "blocked"]
<1>1. rec \in Record /\ rec.status = "blocked"
  BY RecordFields DEF Record, Status, Reject
<1>2. Update(p, rec, ok) /\ Invalidate(p, ok) /\ UNCHANGED <<files, scans, call, sanctioned>>
  BY DEF Reject
<1> HIDE DEF rec
<1>3. NewlyBacked(p, rec)
  BY <1>1 DEF NewlyBacked
<1>4. QED
  BY <1>1, <1>2, <1>3, UpdateMoves, CacheCleared, TreesStay, CallsStay, MovesPreserve

\* What a scan has after reading more of a record is a record, and one that says
\* "approved" is backed.
LEMMA SerialisedRecord ==
  ASSUME IInv, NEW t \in Threads, call[t].pc \in ReadPC
  PROVE  /\ call[t].pack \in Packs /\ Known(call[t].pack)
         /\ snapshot[t] \in Record /\ approvals[call[t].pack] \in Record
         /\ WithFields(t, call[t].pack) \in Record
<1>1. call[t].pack \in Packs /\ Known(call[t].pack) /\ snapshot[t] \in Record
  BY DEF IInv, CallsWellFormed, ReadPC, ScanPC, Known
<1>2. approvals[call[t].pack] \in Record
  BY <1>1, RecordFields
<1>3. QED BY <1>1, <1>2 DEF WithFields, Record

LEMMA StatusRead ==
  ASSUME IInv, NEW p \in Packs, Known(p), NEW rec \in Record, UNCHANGED <<sanctioned, onDisk>>
  PROVE  WithStatus(rec, p) \in Record /\ NewlyBacked(p, WithStatus(rec, p))
<1>1. approvals[p] \in Record /\ (approvals[p].status = "approved" => sanctioned[p] # {})
  BY RecordFields
<1>2. sanctioned[p] \subseteq onDisk[p]
  BY DEF IInv, TreesBacked
<1>3. /\ WithStatus(rec, p) \in Record
      /\ WithStatus(rec, p).status = approvals[p].status
      /\ WithStatus(rec, p).hashes = rec.hashes
      /\ WithStatus(rec, p).mixed =
           (approvals[p].status = "approved" /\ rec.hashes \notin sanctioned[p])
  BY <1>1 DEF WithStatus, Record
<1>4. QED BY <1>1, <1>2, <1>3 DEF NewlyBacked

\* A removal ends the reading of the record by scans: they have it.
LEMMA RemoveMoves ==
  ASSUME IInv, NEW p \in Packs, Remove(p), NEW t \in Threads
  PROVE  \/ /\ call[t].pc \in ReadPC /\ call[t].pack = p
            /\ call'[t] = [call[t] EXCEPT !.pc = "scanWrite"]
            /\ GoodCall(call'[t]) /\ call'[t].pc = "scanWrite" /\ call'[t].pack = p
            /\ snapshot'[t] \in Record /\ NewlyBacked(p, snapshot'[t])
            /\ snapshot'[t].ruleApproved \in {snapshot[t].ruleApproved, approvals[p].ruleApproved}
         \/ /\ ~(call[t].pc \in ReadPC /\ call[t].pack = p)
            /\ call'[t] = call[t] /\ snapshot'[t] = snapshot[t]
<1> DEFINE c == [call[t] EXCEPT !.pc = "scanWrite"]
<1>1. Serialising(t, p) <=> call[t].pc \in ReadPC /\ call[t].pack = p
  BY DEF Serialising, ReadPC
<1>2. CASE ~Serialising(t, p)
  <2>1. call'[t] = call[t] /\ snapshot'[t] = snapshot[t]
    BY <1>2 DEF Remove
  <2>2. QED BY <1>1, <1>2, <2>1
<1>3. CASE Serialising(t, p)
  <2>1. Known(p) /\ snapshot[t] \in Record /\ WithFields(t, p) \in Record /\ call[t] \in Call
    BY <1>1, <1>3, SerialisedRecord DEF IInv, TypeOK
  <2>2. UNCHANGED <<sanctioned, onDisk>>
    BY DEF Remove, files
  <2>3. PICK rec \in {snapshot[t], WithFields(t, p)} : snapshot'[t] = WithStatus(rec, p)
    BY <1>3 DEF Remove
  <2>4. snapshot'[t] \in Record /\ NewlyBacked(p, snapshot'[t])
    BY <2>1, <2>2, <2>3, StatusRead
  <2>5. rec.ruleApproved \in {snapshot[t].ruleApproved, approvals[p].ruleApproved}
    BY <2>1, <2>3 DEF WithFields, Record
  <2>6. WithStatus(rec, p).ruleApproved = rec.ruleApproved
    BY <2>1, <2>3 DEF WithStatus, Record
  <2>7. call'[t] = c
    BY <1>3 DEF Remove
  <2>8. GoodCall(c) /\ c.pc = "scanWrite" /\ c.pack = p
    BY <1>1, <1>3, <2>1 DEF GoodCall, Call, PC
  <2>9. QED BY <1>1, <1>3, <2>3, <2>4, <2>5, <2>6, <2>7, <2>8
<1>4. QED BY <1>2, <1>3

LEMMA RemoveStep ==
  ASSUME IInv, NEW p \in Packs, Remove(p)
  PROVE  IInv'
<1>1. RecordsMove
  <2>1. \A t \in Threads : call'[t].pc \in ReadPC => call'[t].pack # p
    BY RemoveMoves DEF ReadPC
  <2>2. /\ approvals' = [approvals EXCEPT ![p] = None]
        /\ grantFile' = [grantFile EXCEPT ![p] = None]
        /\ lagging' = lagging \ {p}
    BY DEF Remove
  <2>3. QED
    BY <2>1, <2>2, Distinct DEF RecordsMove, NewlyBacked, Known, IInv, TypeOK, GrantFile
<1>2. \A t \in Threads : call[t] \in Call /\ snapshot[t] \in Record \cup {None}
  BY DEF IInv, TypeOK
<1>3. CallsMove /\ ScansMove
  <2>1. call' \in [Threads -> Call]
    <3>1. \A t \in Threads : call'[t] \in Call
      BY <1>2, RemoveMoves DEF GoodCall
    <3>2. QED BY <3>1 DEF Remove
  <2>2. snapshot' \in [Threads -> Record \cup {None}]
    <3>1. \A t \in Threads : snapshot'[t] \in Record \cup {None}
      BY <1>2, RemoveMoves
    <3>2. QED BY <3>1 DEF Remove
  <2>3. pending' \in [Threads -> SUBSET Packs]
    BY DEF Remove, IInv, TypeOK
  <2>4. CallsMove
    BY <2>1, RemoveMoves DEF CallsMove
  <2>5. ScansMove
    BY <2>2, <2>3, RemoveMoves DEF ScansMove
  <2>6. QED BY <2>4, <2>5
<1>4. QED BY <1>1, <1>3, CacheStays, TreesStay, MovesPreserve DEF Remove

LEMMA ApplyUpdateStep ==
  ASSUME IInv, NEW p \in Packs, NEW h \in Contents, NEW ok \in BOOLEAN, ApplyUpdate(p, h, ok)
  PROVE  IInv'
<1> DEFINE rec == [approvals[p] EXCEPT !.status = "modified", !.hashes = h,
                                       !.versions = @ \cup {h}, !.mixed = FALSE]
<1>1. TreesMove
  BY CacheCleared, TreesStay DEF ApplyUpdate
<1>2. UNCHANGED scans
  BY DEF ApplyUpdate
<1>3. CASE UNCHANGED <<approvals, grantFile, lagging, call>>
  BY <1>1, <1>2, <1>3, RecordsStay, CallsStay, MovesPreserve
<1>4. CASE Update(p, rec, ok) /\ call' = Overtaken(p)
  <2>1. rec \in Record /\ rec.status = "modified"
    BY RecordFields DEF Record, Status, ApplyUpdate
  <2> HIDE DEF rec
  <2>2. NewlyBacked(p, rec)
    BY <2>1 DEF NewlyBacked
  <2>3. CallsMove /\ ScansMove
    <3>1. \A t \in Threads : call[t] \in Call
      BY DEF IInv, TypeOK
    <3>2. ASSUME NEW t \in Threads, call[t].pc = "stored", call[t].pack = p
          PROVE  GoodCall(call'[t]) /\ call'[t].pc = "stored"
      <4>1. call'[t] = [call[t] EXCEPT !.updated = TRUE]
        BY <1>4, <3>2 DEF Overtaken
      <4>2. QED BY <3>1, <3>2, <4>1 DEF Call, GoodCall
    <3>3. ASSUME NEW t \in Threads, ~(call[t].pc = "stored" /\ call[t].pack = p)
          PROVE  call'[t] = call[t]
      BY <1>4, <3>3 DEF Overtaken
    <3>4. \A t \in Threads : call'[t] \in Call
      BY <3>1, <3>2, <3>3 DEF GoodCall
    <3>5. call' \in [Threads -> Call]
      BY <1>4, <3>4 DEF Overtaken
    <3>6. CallsMove
      BY <3>2, <3>3, <3>5 DEF CallsMove
    <3>7. "stored" \notin ScanPC
      BY DEF ScanPC
    <3>8. ScansMove
      BY <1>2, <3>2, <3>3, <3>7 DEF ScansMove, scans, IInv, TypeOK
    <3>9. QED BY <3>6, <3>8
  <2>4. QED BY <1>1, <1>4, <2>1, <2>2, <2>3, UpdateMoves, MovesPreserve
<1>5. QED BY <1>3, <1>4 DEF ApplyUpdate

-----------------------------------------------------------------------------
\* Rollbacks.

LEMMA RollbackBeginStep ==
  ASSUME IInv, NEW p \in Packs, NEW h \in Contents, RollbackBegin(p, h)
  PROVE  IInv'
<1> DEFINE c == [Idle EXCEPT !.pc = "rollback", !.pack = p, !.stored = h]
<1>1. GoodCall(c) /\ c.pc \notin ScanPC
  BY DEF GoodCall, Call, Idle, PC, Mode, ScanPC
<1>2. call' = [call EXCEPT ![ApiThread] = c] /\ ApiThread \in Threads /\ UNCHANGED scans
  BY DEF RollbackBegin, Threads
<1> HIDE DEF c
<1>3. CallsMove /\ ScansMove
  BY <1>1, <1>2, ThreadMoves
<1>4. QED
  BY <1>3, RecordsStay, CacheStays, TreesStay, MovesPreserve DEF RollbackBegin

LEMMA RollbackCompareStep ==
  ASSUME IInv, NEW t \in Threads, RollbackCompare(t)
  PROVE  IInv'
<1> DEFINE c == [call[t] EXCEPT !.pc = "commit"]
<1>1. UNCHANGED scans /\ call[t].pc = "rollback"
  BY DEF RollbackCompare
<1>2. CASE Return(t)
  BY <1>1, <1>2, ThreadReturns, RecordsStay, CacheStays, TreesStay, MovesPreserve
     DEF RollbackCompare
<1>3. CASE content[call[t].pack] = call[t].stored /\ Goto(t, "commit")
  <2>1. call[t] \in Call /\ call[t].pack \in Packs /\ call[t].stored \in Contents
    BY <1>1 DEF IInv, TypeOK, CallsWellFormed
  <2>2. call[t].stored \in onDisk[call[t].pack]
    BY <1>3, <2>1, Distinct DEF IInv, TreesBacked
  <2>3. GoodCall(c) /\ c.pc \notin ScanPC
    BY <2>1, <2>2 DEF GoodCall, Call, PC, ScanPC
  <2>4. call' = [call EXCEPT ![t] = c]
    BY <1>3 DEF Goto
  <2> HIDE DEF c
  <2>5. CallsMove /\ ScansMove
    BY <1>1, <2>3, <2>4, ThreadMoves
  <2>6. QED
    BY <2>5, RecordsStay, CacheStays, TreesStay, MovesPreserve DEF RollbackCompare
<1>4. QED BY <1>2, <1>3 DEF RollbackCompare

LEMMA RollbackCommitStep ==
  ASSUME IInv, NEW t \in Threads, NEW ok \in BOOLEAN, RollbackCommit(t, ok)
  PROVE  IInv'
<1> DEFINE p == call[t].pack
           h == call[t].stored
           rec == [approvals[p] EXCEPT !.status = "approved", !.hashes = h,
                                       !.versions = @ \cup {h}, !.mixed = FALSE]
<1>1. p \in Packs /\ h \in Contents /\ h \in onDisk[p]
  BY DEF RollbackCommit, IInv, CallsWellFormed, TreesBacked
<1>2. CallsMove /\ ScansMove
  BY ThreadReturns DEF RollbackCommit
<1>3. CASE UNCHANGED <<approvals, grantFile, hashCache, lagging, sanctioned>>
  BY <1>2, <1>3, RecordsStay, CacheStays, TreesStay, MovesPreserve DEF RollbackCommit
<1>4. CASE /\ Known(p)
           /\ Update(p, rec, ok)
           /\ Invalidate(p, ok)
           /\ sanctioned' = [sanctioned EXCEPT ![p] = @ \cup {h}]
  <2>1. rec \in Record /\ rec.hashes = h
    BY <1>1, <1>4, RecordFields DEF Record, Status
  <2>2. UNCHANGED files
    BY DEF RollbackCommit
  <2> HIDE DEF p, h, rec
  <2>3. h \in sanctioned'[p] \cap onDisk'[p]
    BY <1>1, <1>4, <2>2 DEF IInv, TypeOK, files
  <2>4. RecordsMove
    BY <1>1, <1>4, <2>1, <2>3, UpdateMoves DEF NewlyBacked
  <2>5. TreesMove
    BY <1>1, <1>4, <2>2, CacheCleared DEF TreesMove, IInv, TypeOK, TreesBacked, files
  <2>6. QED BY <1>2, <2>4, <2>5, MovesPreserve
<1>5. QED BY <1>3, <1>4 DEF RollbackCommit

-----------------------------------------------------------------------------
\* Scans.

LEMMA ScanBeginStep ==
  ASSUME IInv, NEW t \in Threads, ScanBegin(t)
  PROVE  IInv'
<1> DEFINE new == {p \in Packs : content[p] # None /\ ~Known(p)}
           c == [call[t] EXCEPT !.pc = "scan"]
<1>1. NewRecord("installed") \in Record /\ NewRecord("installed").status = "installed"
  BY DEF NewRecord, Record, Status
<1>2. RecordsMove
  <2>1. approvals' = [p \in Packs |-> IF p \in new THEN NewRecord("installed") ELSE approvals[p]]
    BY DEF ScanBegin
  <2>2. UNCHANGED <<grantFile, lagging>>
    BY DEF ScanBegin
  <2> HIDE DEF new
  <2>3. QED BY <1>1, <2>1, <2>2, Distinct DEF RecordsMove, NewlyBacked, Known, IInv, TypeOK
<1>3. GoodCall(c) /\ c.pc = "scan" /\ call' = [call EXCEPT ![t] = c]
  BY DEF ScanBegin, Goto, GoodCall, Call, PC, IInv, TypeOK
<1> HIDE DEF c
<1>4. CallsMove
  BY <1>3 DEF CallsMove, IInv, TypeOK, GoodCall
<1>5. ScansMove
  <2>1. pending' = [pending EXCEPT ![t] = new] /\ UNCHANGED snapshot
    BY DEF ScanBegin
  <2>2. new \in SUBSET Packs
    OBVIOUS
  <2> HIDE DEF new
  <2>3. QED BY <1>3, <2>1, <2>2 DEF ScansMove, ScanPC, IInv, TypeOK
<1>6. QED BY <1>2, <1>4, <1>5, CacheStays, TreesStay, MovesPreserve DEF ScanBegin

\* A scan moves on to read or to write a record.
LEMMA ScanMoves ==
  ASSUME IInv, NEW t \in Threads, NEW c, GoodCall(c), NEW rec \in Record,
         call' = [call EXCEPT ![t] = c], snapshot' = [snapshot EXCEPT ![t] = rec],
         pending' \in [Threads -> SUBSET Packs],
         c.pc = "scanWrite" => NewlyBacked(c.pack, rec),
         c.pc # "scanWrite" => approvals[c.pack] # None
  PROVE  CallsMove /\ ScansMove
<1>1. call'[t] = c /\ \A u \in Threads \ {t} : call'[u] = call[u]
  BY DEF IInv, TypeOK
<1>2. snapshot'[t] = rec /\ \A u \in Threads \ {t} : snapshot'[u] = snapshot[u]
  BY DEF IInv, TypeOK
<1>3. CallsMove
  BY <1>1 DEF CallsMove, GoodCall, IInv, TypeOK
<1>4. snapshot' \in [Threads -> Record \cup {None}]
  BY DEF IInv, TypeOK
<1>5. ScansMove
  BY <1>1, <1>2, <1>4 DEF ScansMove
<1>6. QED BY <1>3, <1>5

LEMMA ScanReadStep ==
  ASSUME IInv, NEW t \in Threads, NEW p \in Packs, ScanRead(t, p)
  PROVE  IInv'
<1> DEFINE c == [call[t] EXCEPT !.pc = "scanFields", !.pack = p]
           rec == [NewRecord("installed") EXCEPT !.hashes = approvals[p].hashes]
<1>1. /\ pending' = [pending EXCEPT ![t] = pending[t] \ {p}]
      /\ UNCHANGED <<approvals, grantFile, files, hashCache, lagging, sanctioned>>
      /\ call[t].pc = "scan"
  BY DEF ScanRead
<1>2. pending' \in [Threads -> SUBSET Packs]
  BY <1>1 DEF IInv, TypeOK
<1>3. CallsMove /\ ScansMove
  <2>1. CASE Known(p) /\ call' = [call EXCEPT ![t] = c] /\ snapshot' = [snapshot EXCEPT ![t] = rec]
    <3>1. GoodCall(c) /\ c.pack = p /\ c.pc = "scanFields"
      BY DEF GoodCall, Call, PC, IInv, TypeOK
    <3>2. rec \in Record
      BY <2>1, RecordFields DEF NewRecord, Record, Status
    <3> HIDE DEF c, rec
    <3>3. QED BY <1>2, <2>1, <3>1, <3>2, ScanMoves DEF Known
  <2>2. CASE ~Known(p) /\ (Return(t) \/ UNCHANGED call) /\ UNCHANGED snapshot
    <3>1. CASE Return(t)
      <4>1. call' = [call EXCEPT ![t] = Idle] /\ GoodCall(Idle) /\ Idle.pc \notin ScanPC
        BY <3>1, IdleGood DEF Return, Idle, ScanPC
      <4>2. QED BY <1>2, <2>2, <4>1 DEF CallsMove, ScansMove, GoodCall, IInv, TypeOK
    <3>2. CASE UNCHANGED call
      BY <1>2, <2>2, <3>2 DEF CallsMove, ScansMove, IInv, TypeOK
    <3>3. QED BY <2>2, <3>1, <3>2
  <2>3. QED BY <2>1, <2>2 DEF ScanRead
<1>4. QED BY <1>1, <1>3, RecordsStay, CacheStays, TreesStay, MovesPreserve

LEMMA ScanFieldsStep ==
  ASSUME IInv, NEW t \in Threads, ScanFields(t)
  PROVE  IInv'
<1> DEFINE c == [call[t] EXCEPT !.pc = "scanStatus"]
           rec == WithFields(t, call[t].pack)
<1>1. call[t].pc \in ReadPC /\ call[t] \in Call
  BY DEF ScanFields, ReadPC, IInv, TypeOK
<1>2. call[t].pack \in Packs /\ Known(call[t].pack) /\ rec \in Record
  BY <1>1, SerialisedRecord
<1>3. call' = [call EXCEPT ![t] = c] /\ snapshot' = [snapshot EXCEPT ![t] = rec]
  BY DEF ScanFields, Goto
<1>4. GoodCall(c) /\ c.pc = "scanStatus" /\ c.pack = call[t].pack
  BY <1>1, <1>2 DEF GoodCall, Call, PC
<1>5. pending' \in [Threads -> SUBSET Packs]
  BY DEF ScanFields, IInv, TypeOK
<1> HIDE DEF c, rec
<1>6. CallsMove /\ ScansMove
  BY <1>2, <1>3, <1>4, <1>5, ScanMoves DEF Known
<1>7. QED BY <1>6, RecordsStay, CacheStays, TreesStay, MovesPreserve DEF ScanFields

LEMMA ScanStatusStep ==
  ASSUME IInv, NEW t \in Threads, ScanStatus(t)
  PROVE  IInv'
<1> DEFINE c == [call[t] EXCEPT !.pc = "scanWrite"]
           rec == WithStatus(snapshot[t], call[t].pack)
<1>1. call[t].pc \in ReadPC /\ call[t] \in Call /\ UNCHANGED <<sanctioned, onDisk>>
  BY DEF ScanStatus, ReadPC, IInv, TypeOK, files
<1>2. call[t].pack \in Packs /\ rec \in Record /\ NewlyBacked(call[t].pack, rec)
  BY <1>1, SerialisedRecord, StatusRead
<1>3. call' = [call EXCEPT ![t] = c] /\ snapshot' = [snapshot EXCEPT ![t] = rec]
  BY DEF ScanStatus, Goto
<1>4. GoodCall(c) /\ c.pc = "scanWrite" /\ c.pack = call[t].pack
  BY <1>1, <1>2 DEF GoodCall, Call, PC
<1>5. pending' \in [Threads -> SUBSET Packs]
  BY DEF ScanStatus, IInv, TypeOK
<1> HIDE DEF c, rec
<1>6. CallsMove /\ ScansMove
  BY <1>2, <1>3, <1>4, <1>5, ScanMoves
<1>7. QED BY <1>6, RecordsStay, CacheStays, TreesStay, MovesPreserve DEF ScanStatus

LEMMA ScanWriteStep ==
  ASSUME IInv, NEW t \in Threads, NEW ok \in BOOLEAN, ScanWrite(t, ok)
  PROVE  IInv'
<1> DEFINE p == call[t].pack
           c == [call[t] EXCEPT !.pc = "scan", !.pack = None]
<1>1. /\ p \in Packs
      /\ snapshot[t] \in Record
      /\ ApprovalBacked(p, snapshot[t]) /\ Decided(p, snapshot[t])
  BY DEF ScanWrite, IInv, CallsWellFormed, ApprovedHashesBacked, DecisionsTaken, ScanPC
<1>2. /\ snapshot' = [snapshot EXCEPT ![t] = None]
      /\ UNCHANGED <<approvals, files, hashCache, sanctioned>>
  BY DEF ScanWrite
<1>3. lagging' \in SUBSET Packs /\ pending' \in [Threads -> SUBSET Packs]
  BY <1>1 DEF ScanWrite, IInv, TypeOK
<1>4. RecordsMove
  <2>1. PICK f \in {snapshot[t], grantFile[p], Unreadable} :
               grantFile' = [grantFile EXCEPT ![p] = f]
    BY DEF ScanWrite
  <2>2. f \in GrantFile /\ (f = grantFile[p] \/ NewlyBacked(p, f))
    BY <1>1, <1>2, <2>1, Distinct
       DEF GrantFile, NewlyBacked, ApprovalBacked, Decided, IInv, TypeOK, files
  <2>3. QED BY <1>1, <1>2, <1>3, <2>1, <2>2 DEF RecordsMove, Known, IInv, TypeOK
<1>5. CallsMove /\ ScansMove
  <2>1. GoodCall(c) /\ c.pc = "scan"
    BY DEF GoodCall, Call, PC, IInv, TypeOK
  <2>2. PICK d \in {c, Idle} : call' = [call EXCEPT ![t] = d]
    BY DEF ScanWrite, Return
  <2> HIDE DEF c, p
  <2>3. GoodCall(d) /\ d.pc \notin ScanPC
    <3>1. GoodCall(Idle) /\ Idle.pc = "idle"
      BY IdleGood DEF Idle
    <3>2. QED BY <2>1, <2>2, <3>1 DEF ScanPC
  <2>4. QED BY <1>2, <1>3, <2>2, <2>3 DEF CallsMove, ScansMove, GoodCall, IInv, TypeOK
<1>6. QED BY <1>2, <1>4, <1>5, CacheStays, TreesStay, MovesPreserve

-----------------------------------------------------------------------------
\* Verifications.

\* A verification that ends in refusal marks the pack or just returns.
LEMMA RefuseMoves ==
  ASSUME IInv, NEW t \in Threads, call[t].pack \in Packs, Refuse(t), UNCHANGED scans
  PROVE  CallsMove /\ ScansMove
<1> DEFINE c == [Idle EXCEPT !.pc = "mark", !.pack = call[t].pack]
<1>1. GoodCall(c) /\ c.pc \notin ScanPC
  BY DEF GoodCall, Call, Idle, PC, Mode, ScanPC
<1> HIDE DEF c
<1>2. CASE call' = [call EXCEPT ![t] = c]
  BY <1>1, <1>2, ThreadMoves
<1>3. CASE Return(t)
  BY <1>3, ThreadReturns
<1>4. QED BY <1>2, <1>3 DEF Refuse, c

\* Concluding with a tree the directory held moves the thread well.
LEMMA ConcludeMoves ==
  ASSUME IInv, NEW t \in Threads, call[t].pack \in Packs, NEW h \in Contents, Conclude(t, h),
         UNCHANGED scans
  PROVE  CallsMove /\ ScansMove
<1> DEFINE m == AfterMatch(call[t].mode)
           c == [call[t] EXCEPT !.pc = m, !.seen = h]
<1>1. m \in {"run", "rule", "idle"}
  BY DEF AfterMatch
<1>2. CASE Refuse(t)
  BY <1>2, RefuseMoves
<1>3. CASE Return(t)
  BY <1>3, ThreadReturns
<1>4. CASE call' = [call EXCEPT ![t] = c]
  <2>1. call[t] \in Call
    BY DEF IInv, TypeOK
  <2> HIDE DEF m
  <2>2. c \in Call /\ c.pc = m /\ c.pack = call[t].pack
    BY <1>1, <2>1 DEF Call, PC
  <2> HIDE DEF c
  <2>3. GoodCall(c) /\ c.pc \notin ScanPC
    BY <1>1, <2>2 DEF GoodCall, ScanPC
  <2>4. QED BY <1>4, <2>3, ThreadMoves
<1>5. QED BY <1>2, <1>3, <1>4 DEF Conclude

LEMMA VerifyBeginStep ==
  ASSUME IInv, NEW t \in Threads, NEW p \in Packs, NEW m \in Mode, VerifyBegin(t, p, m)
  PROVE  IInv'
<1>1. PICK next \in {"stored", "autoApprove"} :
        call' = [call EXCEPT ![t] = [Idle EXCEPT !.pc = next, !.pack = p, !.mode = m]]
  BY DEF VerifyBegin
<1> DEFINE c == [Idle EXCEPT !.pc = next, !.pack = p, !.mode = m]
<1>2. GoodCall(c) /\ c.pc \notin ScanPC
  BY DEF GoodCall, Call, Idle, PC, Mode, ScanPC
<1> HIDE DEF c
<1>3. CallsMove /\ ScansMove
  BY <1>1, <1>2, ThreadMoves DEF VerifyBegin, c
<1>4. QED BY <1>3, RecordsStay, CacheStays, TreesStay, MovesPreserve DEF VerifyBegin

LEMMA AutoApproveStep ==
  ASSUME IInv, NEW t \in Threads, NEW ok \in BOOLEAN, AutoApprove(t, ok)
  PROVE  IInv'
<1>1. call[t].pack \in Packs /\ UNCHANGED <<files, scans>>
  BY DEF AutoApprove, IInv, CallsWellFormed
<1>2. CallsMove /\ ScansMove
  <2>1. CASE Goto(t, "stored")
    BY <1>1, <2>1, ThreadGoes DEF PC, ScanPC
  <2>2. CASE Return(t)
    BY <1>1, <2>2, ThreadReturns
  <2>3. QED BY <2>1, <2>2 DEF AutoApprove
<1>3. CASE Approve(call[t].pack, ok)
  BY <1>1, <1>2, <1>3, ApproveMoves, MovesPreserve
<1>4. CASE UNCHANGED <<approvals, grantFile, hashCache, lagging, sanctioned>>
  BY <1>1, <1>2, <1>4, RecordsStay, CacheStays, TreesStay, MovesPreserve
<1>5. QED BY <1>3, <1>4 DEF AutoApprove

LEMMA TakeStoredStep ==
  ASSUME IInv, NEW t \in Threads, TakeStored(t)
  PROVE  IInv'
<1> DEFINE p == call[t].pack
           c == [call[t] EXCEPT !.pc = "compute", !.stored = approvals[p].hashes,
                                !.updated = @ \/ approvals[p].mixed]
<1>1. p \in Packs /\ UNCHANGED scans
  BY DEF TakeStored, IInv, CallsWellFormed
<1>2. CASE Refuse(t)
  BY <1>1, <1>2, RefuseMoves, RecordsStay, CacheStays, TreesStay, MovesPreserve DEF TakeStored
<1>3. CASE Known(p) /\ call' = [call EXCEPT ![t] = c]
  <2>1. approvals[p] \in Record /\ call[t] \in Call
    BY <1>1, <1>3, RecordFields DEF IInv, TypeOK
  <2>2. c \in Call /\ c.pc = "compute" /\ c.pack = p
    BY <2>1 DEF Call, PC, Record
  <2> HIDE DEF c, p
  <2>3. GoodCall(c) /\ c.pc \notin ScanPC
    BY <1>1, <2>2 DEF GoodCall, ScanPC
  <2>4. CallsMove /\ ScansMove
    BY <1>1, <1>3, <2>3, ThreadMoves
  <2>5. QED BY <2>4, RecordsStay, CacheStays, TreesStay, MovesPreserve DEF TakeStored
<1>4. QED BY <1>2, <1>3 DEF TakeStored

LEMMA ComputeStep ==
  ASSUME IInv, NEW t \in Threads, Compute(t)
  PROVE  IInv'
<1> DEFINE p == call[t].pack
           c == [call[t] EXCEPT !.pc = "fill", !.seen = content[p]]
<1>1. p \in Packs /\ UNCHANGED scans
  BY DEF Compute, IInv, CallsWellFormed
<1>2. CallsMove /\ ScansMove
  <2>1. CASE Refuse(t)
    BY <1>1, <2>1, RefuseMoves
  <2>2. ASSUME NEW h \in Contents, Conclude(t, h)
        PROVE  CallsMove /\ ScansMove
    BY <1>1, <2>2, ConcludeMoves
  <2>3. CASE content[p] # None /\ call' = [call EXCEPT ![t] = c]
    <3>1. content[p] \in Contents /\ content[p] \in onDisk[p] /\ call[t] \in Call
      BY <1>1, <2>3 DEF IInv, TypeOK, TreesBacked
    <3>2. c \in Call /\ c.pc = "fill" /\ c.pack = p /\ c.seen = content[p]
      BY <3>1 DEF Call, PC
    <3> HIDE DEF c, p
    <3>3. GoodCall(c) /\ c.pc \notin ScanPC
      BY <1>1, <3>1, <3>2 DEF GoodCall, ScanPC
    <3>4. QED BY <1>1, <2>3, <3>3, ThreadMoves
  <2>4. content[p] # None => content[p] \in Contents
    BY <1>1 DEF IInv, TypeOK
  <2>5. hashCache[p] # None => hashCache[p] \in Contents
    BY <1>1 DEF IInv, TypeOK
  <2>6. QED BY <2>1, <2>2, <2>3, <2>4, <2>5 DEF Compute
<1>3. QED BY <1>2, RecordsStay, CacheStays, TreesStay, MovesPreserve DEF Compute

LEMMA FillStep ==
  ASSUME IInv, NEW t \in Threads, Fill(t)
  PROVE  IInv'
<1>1. /\ call[t].pack \in Packs
      /\ call[t].seen \in Contents
      /\ call[t].seen \in onDisk[call[t].pack]
  BY DEF Fill, IInv, CallsWellFormed, TreesBacked
<1>2. CallsMove /\ ScansMove
  BY <1>1, ConcludeMoves DEF Fill
<1>3. hashCache' = [hashCache EXCEPT ![call[t].pack] = call[t].seen]
  BY DEF Fill
<1>4. /\ hashCache' \in [Packs -> Contents \cup {None}]
      /\ \A p \in Packs : hashCache'[p] # None => hashCache'[p] \in onDisk[p]
  BY <1>1, <1>3 DEF IInv, TypeOK, TreesBacked
<1>5. QED BY <1>2, <1>4, RecordsStay, TreesStay, MovesPreserve DEF Fill

LEMMA RuleCheckStep ==
  ASSUME IInv, NEW t \in Threads, RuleCheck(t)
  PROVE  IInv'
<1>1. call[t].pack \in Packs /\ UNCHANGED scans
  BY DEF RuleCheck, IInv, CallsWellFormed
<1>2. CallsMove /\ ScansMove
  BY <1>1, ThreadGoes, ThreadReturns DEF RuleCheck, PC, ScanPC
<1>3. QED BY <1>2, RecordsStay, CacheStays, TreesStay, MovesPreserve DEF RuleCheck

LEMMA RunStep ==
  ASSUME IInv, NEW t \in Threads, Run(t)
  PROVE  IInv'
BY ThreadReturns, RecordsStay, CacheStays, TreesStay, MovesPreserve DEF Run

LEMMA MarkStep ==
  ASSUME IInv, NEW t \in Threads, NEW ok \in BOOLEAN, Mark(t, ok)
  PROVE  IInv'
<1> DEFINE p == call[t].pack
           rec == [approvals[p] EXCEPT !.status = "modified"]
<1>1. p \in Packs /\ UNCHANGED <<files, scans, hashCache, sanctioned>> /\ Return(t)
  BY DEF Mark, IInv, CallsWellFormed
<1>2. CallsMove /\ ScansMove /\ TreesMove
  BY <1>1, ThreadReturns, CacheStays, TreesStay
<1>3. CASE Known(p) /\ Update(p, rec, ok)
  <2>1. rec \in Record /\ rec.status = "modified"
    BY <1>1, <1>3, RecordFields DEF Record, Status
  <2> HIDE DEF rec, p
  <2>2. NewlyBacked(p, rec)
    BY <2>1 DEF NewlyBacked
  <2>3. QED BY <1>1, <1>2, <1>3, <2>1, <2>2, UpdateMoves, MovesPreserve
<1>4. CASE UNCHANGED <<approvals, grantFile, lagging>>
  BY <1>2, <1>4, RecordsStay, MovesPreserve
<1>5. QED BY <1>3, <1>4 DEF Mark

-----------------------------------------------------------------------------
\* The pack directory, the files and restarts.

LEMMA SetContentMoves ==
  ASSUME IInv, NEW p \in Packs, NEW c \in Contents \cup {None}, SetContent(p, c),
         UNCHANGED <<hashCache, sanctioned>>
  PROVE  TreesMove
<1>1. /\ content' = [content EXCEPT ![p] = c]
      /\ onDisk' = [onDisk EXCEPT ![p] = @ \cup ({c} \ {None})]
  BY DEF SetContent
<1>2. {c} \ {None} \subseteq Contents
  OBVIOUS
<1>3. onDisk' \in [Packs -> SUBSET Contents]
  BY <1>1, <1>2 DEF IInv, TypeOK
<1>4. \A q \in Packs : onDisk[q] \subseteq onDisk'[q]
  BY <1>1 DEF IInv, TypeOK
<1>5. \A q \in Packs : content'[q] # None => content'[q] \in onDisk'[q]
  BY <1>1, <1>4 DEF IInv, TypeOK, TreesBacked
<1>6. QED BY <1>1, <1>3, <1>4, <1>5 DEF TreesMove, IInv, TypeOK, TreesBacked

LEMMA ApplyRemoveStep ==
  ASSUME IInv, NEW p \in Packs, ApplyRemove(p)
  PROVE  IInv'
<1> DEFINE c == [Idle EXCEPT !.pc = "applyCopy", !.pack = p]
<1>1. GoodCall(c) /\ c.pc \notin ScanPC
  BY DEF GoodCall, Call, Idle, PC, Mode, ScanPC
<1>2. call' = [call EXCEPT ![ApiThread] = c] /\ ApiThread \in Threads /\ UNCHANGED scans
  BY DEF ApplyRemove, Threads
<1> HIDE DEF c
<1>3. CallsMove /\ ScansMove
  BY <1>1, <1>2, ThreadMoves
<1>4. QED BY <1>3, RecordsStay, SetContentMoves, MovesPreserve DEF ApplyRemove

LEMMA ApplyCopyStep ==
  ASSUME IInv, NEW t \in Threads, NEW c \in Contents \cup {None}, NEW ok \in BOOLEAN,
         ApplyCopy(t, c, ok)
  PROVE  IInv'
<1>1. call[t].pack \in Packs /\ UNCHANGED scans
  BY DEF ApplyCopy, IInv, CallsWellFormed
<1>2. CallsMove /\ ScansMove
  BY <1>1, ThreadGoes, ThreadReturns DEF ApplyCopy, PC, ScanPC
<1>3. QED BY <1>1, <1>2, RecordsStay, SetContentMoves, MovesPreserve DEF ApplyCopy

LEMMA EditPackStep ==
  ASSUME IInv, NEW p \in Packs, NEW c \in Contents \cup {None}, EditPack(p, c)
  PROVE  IInv'
BY CallsStay, RecordsStay, SetContentMoves, MovesPreserve DEF EditPack

LEMMA CacheExpireStep ==
  ASSUME IInv, NEW p \in Packs, CacheExpire(p)
  PROVE  IInv'
<1>1. /\ hashCache' \in [Packs -> Contents \cup {None}]
      /\ \A q \in Packs : hashCache'[q] # None => hashCache'[q] \in onDisk[q]
  BY DEF CacheExpire, IInv, TypeOK, TreesBacked
<1>2. QED BY <1>1, CallsStay, RecordsStay, TreesStay, MovesPreserve DEF CacheExpire

LEMMA TamperStep ==
  ASSUME IInv, NEW p \in Packs, Tamper(p)
  PROVE  IInv'
<1>1. grantFile' = [grantFile EXCEPT ![p] = Tampered] /\ lagging' = lagging \cup {p}
  BY DEF Tamper
<1>2. RecordsMove
  BY <1>1, Distinct DEF Tamper, RecordsMove, NewlyBacked, Known, GrantFile, IInv, TypeOK
<1>3. QED BY <1>2, CallsStay, CacheStays, TreesStay, MovesPreserve DEF Tamper

LEMMA RestartStep ==
  ASSUME IInv, Restart
  PROVE  IInv'
<1>1. \A p \in Packs : Load(grantFile[p]) \in Record \cup {None}
                       /\ ApprovalBacked(p, Load(grantFile[p])) /\ Decided(p, Load(grantFile[p]))
  BY LoadBacked DEF IInv, TypeOK, ApprovedHashesBacked, DecisionsTaken
<1>2. approvals' = [p \in Packs |-> Load(grantFile[p])] /\ UNCHANGED <<sanctioned, onDisk>>
  BY DEF Restart, files
<1>3. \A t \in Threads : call'[t] = Idle /\ call'[t].pc = "idle"
  BY DEF Restart, Idle
<1>4. RecordsMove
  BY <1>1, <1>2, <1>3
     DEF Restart, RecordsMove, NewlyBacked, ApprovalBacked, Decided, ReadPC, IInv, TypeOK
<1>5. CallsMove /\ ScansMove
  <2>1. call' \in [Threads -> Call]
    BY IdleGood DEF Restart, GoodCall
  <2>2. QED BY <1>3, <2>1, IdleGood DEF Restart, CallsMove, ScansMove, ScanPC
<1>6. TreesMove
  BY TreesStay DEF Restart
<1>7. QED BY <1>4, <1>5, <1>6, MovesPreserve

-----------------------------------------------------------------------------
\* The invariant holds initially: there are no records, and the trees seen are
\* those in place.
LEMMA InitIInv == Init => IInv
<1> SUFFICES ASSUME Init PROVE IInv
  OBVIOUS
<1>1. TypeOK
  <2>1. call \in [Threads -> Call]
    BY IdleGood DEF Init, GoodCall
  <2>2. QED BY <2>1 DEF Init, TypeOK, GrantFile
<1>2. \A t \in Threads : call[t].pc = "idle"
  BY DEF Init, Idle
<1>3. CallsWellFormed
  BY <1>2 DEF CallsWellFormed, ScanPC, ReadPC
<1>4. TreesBacked
  BY <1>2 DEF Init, TreesBacked
<1>5. ApprovedHashesBacked /\ DecisionsTaken
  BY <1>2, Distinct DEF Init, ApprovedHashesBacked, ApprovalBacked, DecisionsTaken, Decided
<1>6. QED BY <1>1, <1>3, <1>4, <1>5 DEF IInv

\* Every step of the manager, of its callers and of the environment preserves
\* the invariant.
LEMMA NextIInv == IInv /\ [Next]_vars => IInv'
<1> SUFFICES ASSUME IInv, [Next]_vars PROVE IInv'
  OBVIOUS
<1>1. CASE UNCHANGED vars
  BY <1>1, CallsStay, RecordsStay, CacheStays, TreesStay, MovesPreserve DEF vars, files, scans
<1>2. ASSUME NEW p \in Packs, Operator(p) PROVE IInv'
  BY <1>2, ApiApproveStep, ApproveRuleStep, RejectStep, RemoveStep, RollbackBeginStep,
     ApplyUpdateStep, ApplyRemoveStep DEF Operator
<1>3. ASSUME NEW p \in Packs, Environment(p) PROVE IInv'
  BY <1>3, EditPackStep, CacheExpireStep, TamperStep DEF Environment
<1>4. ASSUME NEW t \in Threads, Thread(t) PROVE IInv'
  BY <1>4, ScanBeginStep, ScanReadStep, ScanFieldsStep, ScanStatusStep, ScanWriteStep,
     VerifyBeginStep, AutoApproveStep, RollbackCompareStep, RollbackCommitStep, MarkStep, ApplyCopyStep, TakeStoredStep,
     ComputeStep, FillStep, RuleCheckStep, RunStep DEF Thread
<1>5. CASE Restart
  BY <1>5, RestartStep
<1>6. QED BY <1>1, <1>2, <1>3, <1>4, <1>5 DEF Next

THEOREM Invariance == Spec => []IInv
BY InitIInv, NextIInv, PTL DEF Spec

\* The variables of the manager and its callers stay within their types.
THEOREM TypeCorrect == Spec => []TypeOK
<1>1. IInv => TypeOK
  BY DEF IInv
<1>2. QED BY <1>1, Invariance, PTL

\* Whatever the interleaving of scans, verifications, operator calls, failed
\* saves and restarts, an approved record carries the hashes of a tree that was
\* in the pack directory and that an approve or a rollback recorded, unless a scan
\* read its hashes before a decision and its status after it: such a record is
\* told by mixed, which only the reading of a status sets.
THEOREM ApprovalsBacked == Spec => []ApprovedHashesBacked
<1>1. IInv => ApprovedHashesBacked
  BY DEF IInv
<1>2. QED BY <1>1, Invariance, PTL

-----------------------------------------------------------------------------
(***************************************************************************)
(* The other invariants tell apart only few kinds of step: one that leaves *)
(* records and files alone, one that changes fields of a record and saves  *)
(* it, and the steps of removals, scans, damage and restarts.              *)
(***************************************************************************)
Scanning == {"scan", "scanFields", "scanStatus", "scanWrite"}

\* Approvals are only added to, and no thread enters, leaves or moves in a scan.
OutsideScans ==
  /\ UNCHANGED scans
  /\ \A t \in Threads : call'[t] = call[t] \/ (call[t].pc \notin Scanning /\ call'[t].pc \notin Scanning)
  /\ \A p \in Packs : sanctioned[p] \subseteq sanctioned'[p]

Quiet == UNCHANGED <<approvals, grantFile, lagging>> /\ OutsideScans

\* What a handler may change in a record: the rule approval only when the
\* status is approved; the hashes to sanctioned ones, or an apply_update
\* replaces them and the verifications under way are told.
KeepsRule(p, rec) ==
  \/ rec.ruleApproved = approvals[p].ruleApproved
  \/ approvals[p].status = "approved"

KeepsHashes(p, rec) ==
  \/ rec.hashes = approvals[p].hashes /\ rec.mixed = approvals[p].mixed
  \/ rec.hashes \in sanctioned'[p]
  \/ call' = Overtaken(p)

Saves(p, rec, ok) ==
  /\ Known(p)
  /\ Update(p, rec, ok)
  /\ KeepsRule(p, rec)
  /\ KeepsHashes(p, rec)
  /\ OutsideScans

Kinds ==
  \/ Quiet
  \/ \E p \in Packs, rec \in Record, ok \in BOOLEAN : Saves(p, rec, ok)
  \/ \E p \in Packs : Remove(p) \/ Tamper(p)
  \/ \E t \in Threads : \/ ScanBegin(t)
                        \/ \E p \in Packs : ScanRead(t, p)
                        \/ ScanFields(t) \/ ScanStatus(t)
                        \/ \E ok \in BOOLEAN : ScanWrite(t, ok)
  \/ Restart

\* One thread moves, outside scans.
LEMMA OneMoves ==
  ASSUME IInv, NEW t \in Threads, NEW c, call[t].pc \notin Scanning, c.pc \notin Scanning,
         call' = [call EXCEPT ![t] = c], UNCHANGED scans,
         \A p \in Packs : sanctioned[p] \subseteq sanctioned'[p]
  PROVE  OutsideScans
BY DEF OutsideScans, IInv, TypeOK

LEMMA NoneMoves ==
  ASSUME UNCHANGED <<call, scans>>, \A p \in Packs : sanctioned[p] \subseteq sanctioned'[p]
  PROVE  OutsideScans
BY DEF OutsideScans

LEMMA GotoMoves ==
  ASSUME IInv, NEW t \in Threads, NEW pc, call[t].pc \notin Scanning, pc \notin Scanning,
         Goto(t, pc), UNCHANGED scans,
         \A p \in Packs : sanctioned[p] \subseteq sanctioned'[p]
  PROVE  OutsideScans
<1> DEFINE c == [call[t] EXCEPT !.pc = pc]
<1>1. c.pc = pc /\ call' = [call EXCEPT ![t] = c]
  BY DEF Goto, IInv, TypeOK, Call
<1> HIDE DEF c
<1>2. QED BY <1>1, OneMoves

LEMMA ReturnMoves ==
  ASSUME IInv, NEW t \in Threads, call[t].pc \notin Scanning, Return(t), UNCHANGED scans,
         \A p \in Packs : sanctioned[p] \subseteq sanctioned'[p]
  PROVE  OutsideScans
<1>1. Idle.pc \notin Scanning
  BY DEF Idle, Scanning
<1>2. QED BY <1>1, OneMoves DEF Return

LEMMA RefuseQuiet ==
  ASSUME IInv, NEW t \in Threads, call[t].pc \notin Scanning, Refuse(t), UNCHANGED scans,
         \A p \in Packs : sanctioned[p] \subseteq sanctioned'[p]
  PROVE  OutsideScans
<1> DEFINE c == [Idle EXCEPT !.pc = "mark", !.pack = call[t].pack]
<1>1. c.pc \notin Scanning
  BY DEF Idle, Scanning
<1> HIDE DEF c
<1>2. QED BY <1>1, OneMoves, ReturnMoves DEF Refuse, c

LEMMA ConcludeQuiet ==
  ASSUME IInv, NEW t \in Threads, NEW h, call[t].pc \notin Scanning, Conclude(t, h),
         UNCHANGED scans, \A p \in Packs : sanctioned[p] \subseteq sanctioned'[p]
  PROVE  OutsideScans
<1> DEFINE m == AfterMatch(call[t].mode)
           c == [call[t] EXCEPT !.pc = m, !.seen = h]
<1>1. m \notin Scanning
  BY DEF AfterMatch, Scanning
<1>2. c.pc = m
  BY DEF IInv, TypeOK, Call
<1>3. \/ Refuse(t) \/ Return(t)
      \/ call' = [call EXCEPT ![t] = c]
  BY DEF Conclude
<1> HIDE DEF c, m
<1>4. QED BY <1>1, <1>2, <1>3, OneMoves, ReturnMoves, RefuseQuiet

\* approve() as a save.
LEMMA ApproveSaves ==
  ASSUME IInv, NEW p \in Packs, NEW ok \in BOOLEAN, Approve(p, ok), OutsideScans
  PROVE  \E rec \in Record : Saves(p, rec, ok)
<1> DEFINE h == CachedHashes(p)
           rec == [approvals[p] EXCEPT !.status = "approved", !.hashes = h,
                                       !.versions = @ \cup {h}, !.mixed = FALSE]
<1>1. h \in Contents
  BY Distinct DEF Approve, CachedHashes, IInv, TypeOK
<1>2. approvals[p] \in Record
  BY RecordFields DEF Approve
<1>3. /\ rec \in Record /\ rec.hashes = h
      /\ rec.ruleApproved = approvals[p].ruleApproved
  BY <1>1, <1>2 DEF Record, Status
<1>4. Known(p) /\ Update(p, rec, ok)
  BY DEF Approve
<1>5. h \in sanctioned'[p]
  BY DEF Approve, IInv, TypeOK
<1> HIDE DEF rec, h
<1>6. QED BY <1>3, <1>4, <1>5 DEF Saves, KeepsRule, KeepsHashes

LEMMA OperatorKinds ==
  ASSUME IInv, NEW p \in Packs, Operator(p)
  PROVE  Kinds
<1> USE DEF Kinds
<1>1. ApiThread \in Threads /\ (ApiIdle => call[ApiThread].pc \notin Scanning)
  BY DEF Threads, ApiIdle, Idle, Scanning
<1>2. ASSUME NEW ok \in BOOLEAN, ApiApprove(p, ok) PROVE Kinds
  <2>1. OutsideScans
    BY <1>2, NoneMoves DEF ApiApprove, Approve, IInv, TypeOK
  <2>2. QED BY <1>2, <2>1, ApproveSaves DEF ApiApprove
<1>3. ASSUME NEW ok \in BOOLEAN, ApproveRule(p, ok) PROVE Kinds
  <2> DEFINE h == approvals[p].hashes
             rec == [approvals[p] EXCEPT !.ruleApproved = TRUE,
                                         !.versions = @ \cup ({h} \ {None})]
  <2>1. Known(p) /\ approvals[p].status = "approved" /\ Update(p, rec, ok)
    BY <1>3 DEF ApproveRule, Ruling, HasStatus
  <2>2. approvals[p] \in Record /\ {h} \ {None} \subseteq Contents
    BY <2>1, RecordFields DEF Record
  <2>3. rec \in Record /\ rec.hashes = h /\ rec.mixed = approvals[p].mixed
    BY <2>2 DEF Record
  <2>4. OutsideScans
    BY <1>3, NoneMoves DEF ApproveRule, Ruling
  <2> HIDE DEF rec
  <2>5. Saves(p, rec, ok)
    BY <2>1, <2>3, <2>4 DEF Saves, KeepsRule, KeepsHashes
  <2>6. QED BY <2>3, <2>5
<1>4. ASSUME NEW ok \in BOOLEAN, Reject(p, ok) PROVE Kinds
  <2> DEFINE rec == [approvals[p] EXCEPT !.status = "blocked"]
  <2>1. Known(p) /\ Update(p, rec, ok)
    BY <1>4 DEF Reject
  <2>2. /\ rec \in Record /\ rec.hashes = approvals[p].hashes
        /\ rec.ruleApproved = approvals[p].ruleApproved
        /\ rec.mixed = approvals[p].mixed
    BY <2>1, RecordFields DEF Record, Status
  <2>3. OutsideScans
    BY <1>4, NoneMoves DEF Reject
  <2> HIDE DEF rec
  <2>4. Saves(p, rec, ok)
    BY <2>1, <2>2, <2>3 DEF Saves, KeepsRule, KeepsHashes
  <2>5. QED BY <2>2, <2>4
<1>5. ASSUME NEW h \in Contents, RollbackBegin(p, h) PROVE Kinds
  <2> DEFINE c == [Idle EXCEPT !.pc = "rollback", !.pack = p, !.stored = h]
  <2>1. c.pc \notin Scanning
    BY DEF Idle, Scanning
  <2> HIDE DEF c
  <2>2. OutsideScans
    BY <1>1, <1>5, <2>1, OneMoves DEF RollbackBegin, c
  <2>3. QED BY <1>5, <2>2 DEF RollbackBegin, Quiet
<1>6. ASSUME NEW h \in Contents, NEW ok \in BOOLEAN, ApplyUpdate(p, h, ok) PROVE Kinds
  <2> DEFINE rec == [approvals[p] EXCEPT !.status = "modified", !.hashes = h,
                                         !.versions = @ \cup {h}, !.mixed = FALSE]
  <2>1. UNCHANGED <<scans, sanctioned>> /\ Known(p)
    BY <1>6 DEF ApplyUpdate
  <2>2. CASE UNCHANGED <<approvals, grantFile, lagging, call>>
    BY <2>1, <2>2, NoneMoves DEF Quiet
  <2>3. CASE Update(p, rec, ok) /\ call' = Overtaken(p)
    <3>1. rec \in Record /\ rec.ruleApproved = approvals[p].ruleApproved
      BY <2>1, RecordFields DEF Record, Status
    <3>2. \A t \in Threads : call[t] \in Call
      BY DEF IInv, TypeOK
    <3>3. ASSUME NEW t \in Threads
          PROVE  call'[t] = call[t] \/ (call[t].pc \notin Scanning /\ call'[t].pc \notin Scanning)
      BY <2>3, <3>2 DEF Overtaken, Call, Scanning
    <3>4. OutsideScans
      BY <2>1, <3>3 DEF OutsideScans
    <3> HIDE DEF rec
    <3>5. Saves(p, rec, ok)
      BY <2>1, <2>3, <3>1, <3>4 DEF Saves, KeepsRule, KeepsHashes
    <3>6. QED BY <3>1, <3>5
  <2>4. QED BY <1>6, <2>2, <2>3 DEF ApplyUpdate
<1>7. CASE ApplyRemove(p)
  <2> DEFINE c == [Idle EXCEPT !.pc = "applyCopy", !.pack = p]
  <2>1. c.pc \notin Scanning
    BY DEF Idle, Scanning
  <2> HIDE DEF c
  <2>2. OutsideScans
    BY <1>1, <1>7, <2>1, OneMoves DEF ApplyRemove, c
  <2>3. QED BY <1>7, <2>2 DEF ApplyRemove, Quiet
<1>8. QED BY <1>2, <1>3, <1>4, <1>5, <1>6, <1>7 DEF Operator

LEMMA EnvironmentKinds ==
  ASSUME NEW p \in Packs, Environment(p)
  PROVE  Kinds
<1>1. ASSUME NEW c \in Contents \cup {None}, EditPack(p, c) PROVE Quiet
  BY <1>1, NoneMoves DEF EditPack, Quiet
<1>2. CASE CacheExpire(p)
  <2>1. Quiet
    BY <1>2, NoneMoves DEF CacheExpire, Quiet
  <2>2. QED BY <2>1 DEF Kinds
<1>3. QED BY <1>1, <1>2 DEF Environment, Kinds

LEMMA ThreadKinds ==
  ASSUME IInv, NEW t \in Threads, Thread(t)
  PROVE  Kinds
<1> USE DEF Kinds
<1> DEFINE p == call[t].pack
           Same == UNCHANGED <<approvals, grantFile, scans, lagging, sanctioned>>
<1>1. Same /\ OutsideScans => Quiet
  BY DEF Quiet
<1>2. ASSUME Same, call[t].pc \notin Scanning, \/ Return(t) \/ Refuse(t)
                                               \/ \E h : Conclude(t, h)
                                               \/ \E pc : pc \notin Scanning /\ Goto(t, pc)
      PROVE  OutsideScans
  BY <1>2, ReturnMoves, RefuseQuiet, ConcludeQuiet, GotoMoves
<1>3. ASSUME NEW q \in Packs, NEW m \in Mode, VerifyBegin(t, q, m) PROVE Kinds
  <2>1. PICK next \in {"stored", "autoApprove"} :
          call' = [call EXCEPT ![t] = [Idle EXCEPT !.pc = next, !.pack = q, !.mode = m]]
    BY <1>3 DEF VerifyBegin
  <2> DEFINE c == [Idle EXCEPT !.pc = next, !.pack = q, !.mode = m]
  <2>2. c.pc \notin Scanning /\ call[t].pc \notin Scanning
    BY <1>3 DEF VerifyBegin, Idle, Scanning
  <2> HIDE DEF c
  <2>3. OutsideScans
    BY <1>3, <2>1, <2>2, OneMoves DEF VerifyBegin, c
  <2>4. QED BY <1>1, <1>3, <2>3 DEF VerifyBegin
<1>4. ASSUME NEW ok \in BOOLEAN, AutoApprove(t, ok) PROVE Kinds
  <2>1. /\ p \in Packs /\ UNCHANGED scans /\ call[t].pc \notin Scanning
        /\ \A q \in Packs : sanctioned[q] \subseteq sanctioned'[q]
    BY <1>4 DEF AutoApprove, Approve, IInv, TypeOK, CallsWellFormed, Scanning
  <2>2. OutsideScans
    <3>1. Goto(t, "stored") \/ Return(t)
      BY <1>4 DEF AutoApprove
    <3>2. "stored" \notin Scanning
      BY DEF Scanning
    <3>3. QED BY <2>1, <3>1, <3>2, GotoMoves, ReturnMoves
  <2>3. QED BY <1>4, <2>1, <2>2, ApproveSaves DEF AutoApprove, Quiet
<1>5. ASSUME NEW ok \in BOOLEAN, RollbackCommit(t, ok) PROVE Kinds
  <2> DEFINE h == call[t].stored
             rec == [approvals[p] EXCEPT !.status = "approved", !.hashes = h,
                                         !.versions = @ \cup {h}, !.mixed = FALSE]
  <2>1. p \in Packs /\ h \in Contents /\ UNCHANGED scans /\ call[t].pc \notin Scanning /\ Return(t)
    BY <1>5 DEF RollbackCommit, IInv, CallsWellFormed, Scanning
  <2>2. \A q \in Packs : sanctioned[q] \subseteq sanctioned'[q]
    BY <1>5 DEF RollbackCommit, IInv, TypeOK
  <2>3. OutsideScans
    BY <2>1, <2>2, ReturnMoves
  <2>4. CASE UNCHANGED <<approvals, grantFile, hashCache, lagging, sanctioned>>
    BY <2>3, <2>4 DEF Quiet
  <2>5. CASE Known(p) /\ Update(p, rec, ok) /\ sanctioned' = [sanctioned EXCEPT ![p] = @ \cup {h}]
    <3>1. rec \in Record /\ rec.hashes = h /\ rec.ruleApproved = approvals[p].ruleApproved
      BY <2>1, <2>5, RecordFields DEF Record, Status
    <3>2. h \in sanctioned'[p]
      BY <2>1, <2>5 DEF IInv, TypeOK
    <3> HIDE DEF rec, h, p
    <3>3. Saves(p, rec, ok)
      BY <2>3, <2>5, <3>1, <3>2 DEF Saves, KeepsRule, KeepsHashes
    <3>4. QED BY <2>1, <3>1, <3>3
  <2>6. QED BY <1>5, <2>4, <2>5 DEF RollbackCommit
<1>6. ASSUME NEW ok \in BOOLEAN, Mark(t, ok) PROVE Kinds
  <2> DEFINE rec == [approvals[p] EXCEPT !.status = "modified"]
  <2>1. p \in Packs /\ UNCHANGED <<scans, sanctioned>> /\ call[t].pc \notin Scanning /\ Return(t)
    BY <1>6 DEF Mark, IInv, CallsWellFormed, Scanning
  <2>2. OutsideScans
    BY <2>1, ReturnMoves
  <2>3. CASE UNCHANGED <<approvals, grantFile, lagging>>
    BY <2>2, <2>3 DEF Quiet
  <2>4. CASE Known(p) /\ Update(p, rec, ok)
    <3>1. /\ rec \in Record /\ rec.hashes = approvals[p].hashes
          /\ rec.ruleApproved = approvals[p].ruleApproved
          /\ rec.mixed = approvals[p].mixed
      BY <2>1, <2>4, RecordFields DEF Record, Status
    <3> HIDE DEF rec, p
    <3>2. Saves(p, rec, ok)
      BY <2>2, <2>4, <3>1 DEF Saves, KeepsRule, KeepsHashes
    <3>3. QED BY <2>1, <3>1, <3>2
  <2>5. QED BY <1>6, <2>3, <2>4 DEF Mark
<1>7. ASSUME NEW c \in Contents \cup {None}, NEW ok \in BOOLEAN, ApplyCopy(t, c, ok) PROVE Kinds
  <2>1. Same /\ call[t].pc \notin Scanning /\ (Goto(t, "mark") \/ Return(t)) /\ "mark" \notin Scanning
    BY <1>7 DEF ApplyCopy, Scanning
  <2>2. QED BY <1>1, <1>2, <2>1
<1>8. CASE RollbackCompare(t)
  <2>1. Same /\ call[t].pc \notin Scanning /\ (Goto(t, "commit") \/ Return(t)) /\ "commit" \notin Scanning
    BY <1>8 DEF RollbackCompare, Scanning
  <2>2. QED BY <1>1, <1>2, <2>1
<1>9. CASE TakeStored(t)
  <2> DEFINE c == [call[t] EXCEPT !.pc = "compute", !.stored = approvals[p].hashes,
                                  !.updated = @ \/ approvals[p].mixed]
  <2>1. Same /\ call[t].pc \notin Scanning /\ (Refuse(t) \/ call' = [call EXCEPT ![t] = c])
    BY <1>9 DEF TakeStored, Scanning
  <2>2. c.pc \notin Scanning
    BY DEF Scanning, IInv, TypeOK, Call
  <2> HIDE DEF c
  <2>3. CASE call' = [call EXCEPT ![t] = c]
    BY <1>1, <2>1, <2>2, <2>3, OneMoves
  <2>4. QED BY <1>1, <1>2, <2>1, <2>3
<1>10. CASE Compute(t)
  <2> DEFINE c == [call[t] EXCEPT !.pc = "fill", !.seen = content[p]]
  <2>1. Same /\ call[t].pc \notin Scanning
    BY <1>10 DEF Compute, Scanning
  <2>2. Refuse(t) \/ (\E h : Conclude(t, h)) \/ call' = [call EXCEPT ![t] = c]
    BY <1>10 DEF Compute
  <2>3. c.pc \notin Scanning
    BY DEF Scanning, IInv, TypeOK, Call
  <2> HIDE DEF c
  <2>4. CASE call' = [call EXCEPT ![t] = c]
    BY <1>1, <2>1, <2>3, <2>4, OneMoves
  <2>5. QED BY <1>1, <1>2, <2>1, <2>2, <2>4
<1>11. CASE Fill(t)
  <2>1. Same /\ call[t].pc \notin Scanning /\ \E h : Conclude(t, h)
    BY <1>11 DEF Fill, Scanning
  <2>2. QED BY <1>1, <1>2, <2>1
<1>12. CASE RuleCheck(t)
  <2>1. Same /\ call[t].pc \notin Scanning /\ (Goto(t, "run") \/ Return(t)) /\ "run" \notin Scanning
    BY <1>12 DEF RuleCheck, Scanning
  <2>2. QED BY <1>1, <1>2, <2>1
<1>13. CASE Run(t)
  <2>1. Same /\ call[t].pc \notin Scanning /\ Return(t)
    BY <1>13 DEF Run, Scanning
  <2>2. QED BY <1>1, <1>2, <2>1
<1>14. QED
  BY <1>3, <1>4, <1>5, <1>6, <1>7, <1>8, <1>9, <1>10, <1>11, <1>12, <1>13 DEF Thread

\* Every step is of one of these kinds.
LEMMA StepKinds ==
  ASSUME IInv, [Next]_vars
  PROVE  Kinds
<1>1. CASE UNCHANGED vars
  BY <1>1, NoneMoves DEF vars, scans, Quiet, Kinds
<1>2. CASE Next
  BY <1>2, OperatorKinds, EnvironmentKinds, ThreadKinds DEF Next, Kinds
<1>3. QED BY <1>1, <1>2

-----------------------------------------------------------------------------
(***************************************************************************)
(* Rule approvals.  The invariant is inductive as it stands, given IInv:   *)
(* what is sanctioned was on disk, so only the decisions matter.           *)
(***************************************************************************)
\* A rule approval backed by a decision known after the step.
NewlyRuleBacked(p, rec) == rec \in Record /\ rec.ruleApproved => sanctioned'[p] # {}

LEMMA RuleKept ==
  ASSUME IInv, NEW p \in Packs, NEW rec, RuleBacked(p, rec), sanctioned[p] \subseteq sanctioned'[p]
  PROVE  NewlyRuleBacked(p, rec)
BY DEF RuleBacked, NewlyRuleBacked

\* A fresh record and what is no record ask for nothing.
LEMMA RuleFree ==
  ASSUME NEW p \in Packs
  PROVE  /\ \A s : NewlyRuleBacked(p, NewRecord(s)) /\ RuleBacked(p, NewRecord(s))
         /\ \A f \in {None, Unreadable, Tampered} : NewlyRuleBacked(p, f) /\ RuleBacked(p, f)
BY Distinct DEF RuleBacked, NewlyRuleBacked, NewRecord

LEMMA RuleStep ==
  ASSUME IInv, IInv', RuleApprovalBacked, [Next]_vars
  PROVE  RuleApprovalBacked'
<1> DEFINE Grows == \A p \in Packs : sanctioned[p] \subseteq sanctioned'[p]
           Scans == \A t \in Threads : call'[t].pc \in ScanPC =>
                      call'[t] = call[t] /\ snapshot'[t] = snapshot[t]
           Records == \A p \in Packs : /\ NewlyRuleBacked(p, approvals'[p])
                                       /\ NewlyRuleBacked(p, grantFile'[p])
           Snapshots == \A t \in Threads : call'[t].pc \in ScanPC =>
                          NewlyRuleBacked(call'[t].pack, snapshot'[t])
<1>0. SUFFICES Records /\ Snapshots
  <2>1. \A p \in Packs : sanctioned'[p] \subseteq onDisk'[p]
    BY DEF IInv, TreesBacked
  <2>2. \A p \in Packs : \A rec : NewlyRuleBacked(p, rec) => RuleBacked(p, rec)'
    BY <2>1 DEF NewlyRuleBacked, RuleBacked
  <2>3. \A t \in Threads : call'[t].pc \in ScanPC => call'[t].pack \in Packs
    BY DEF IInv, CallsWellFormed, ScanPC
  <2>4. ASSUME Records, Snapshots PROVE RuleApprovalBacked'
    BY <2>2, <2>3, <2>4 DEF RuleApprovalBacked
  <2>5. QED BY <2>4
<1>1. \A t \in Threads : call[t].pc \in ScanPC => call[t].pack \in Packs
  BY DEF IInv, CallsWellFormed, ScanPC
<1>2. Grows => /\ \A p \in Packs : NewlyRuleBacked(p, approvals[p]) /\ NewlyRuleBacked(p, grantFile[p])
               /\ \A t \in Threads : call[t].pc \in ScanPC => NewlyRuleBacked(call[t].pack, snapshot[t])
  BY <1>1, RuleKept DEF RuleApprovalBacked
<1>3. Grows /\ Scans => Snapshots
  BY <1>2
<1>4. OutsideScans => Grows /\ Scans
  BY DEF OutsideScans, scans, Scanning, ScanPC
<1>5. CASE Quiet
  BY <1>2, <1>3, <1>4, <1>5 DEF Quiet
<1>6. ASSUME NEW p \in Packs, NEW rec \in Record, NEW ok \in BOOLEAN, Saves(p, rec, ok)
      PROVE  Records /\ Snapshots
  <2>1. NewlyRuleBacked(p, rec)
    <3>1. approvals[p] \in Record
      BY <1>6, RecordFields DEF Saves
    <3>2. CASE rec.ruleApproved = approvals[p].ruleApproved
      BY <1>2, <1>4, <1>6, <3>1, <3>2 DEF Saves, NewlyRuleBacked
    <3>3. CASE approvals[p].status = "approved"
      <4>1. sanctioned[p] # {}
        BY <1>6, <3>3, RecordFields DEF Saves
      <4>2. QED BY <1>4, <1>6, <4>1 DEF Saves, NewlyRuleBacked
    <3>4. QED BY <1>6, <3>2, <3>3 DEF Saves, KeepsRule
  <2>2. approvals' = [approvals EXCEPT ![p] = rec]
    BY <1>6 DEF Saves, Update
  <2>3. PICK f \in {rec, grantFile[p], Unreadable} : grantFile' = [grantFile EXCEPT ![p] = f]
    BY <1>6 DEF Saves, Update, SaveGrant
  <2>4. NewlyRuleBacked(p, f)
    BY <1>2, <1>4, <1>6, <2>1, <2>3, RuleFree DEF Saves
  <2>5. QED BY <1>2, <1>3, <1>4, <1>6, <2>1, <2>2, <2>3, <2>4 DEF Saves, IInv, TypeOK
<1>7. ASSUME NEW p \in Packs, Remove(p) \/ Tamper(p)
      PROVE  Records /\ Snapshots
  <2>1. Grows
    BY <1>7 DEF Remove, Tamper
  <2>2. \A q \in Packs : /\ approvals'[q] = approvals[q] \/ approvals'[q] = None
                         /\ grantFile'[q] \in {grantFile[q], None, Tampered}
    BY <1>7 DEF Remove, Tamper, IInv, TypeOK
  <2>3. Records
    BY <1>2, <2>1, <2>2, RuleFree
  <2>4. CASE Tamper(p)
    BY <1>3, <2>1, <2>3, <2>4 DEF Tamper, scans
  <2>5. CASE Remove(p)
    <3>1. ASSUME NEW t \in Threads, call'[t].pc \in ScanPC
          PROVE  NewlyRuleBacked(call'[t].pack, snapshot'[t])
      <4>1. CASE call'[t] = call[t] /\ snapshot'[t] = snapshot[t]
        BY <1>2, <2>1, <3>1, <4>1
      <4>2. CASE /\ call[t].pc \in ReadPC /\ call[t].pack = p /\ call'[t].pack = p
                 /\ snapshot'[t].ruleApproved \in {snapshot[t].ruleApproved, approvals[p].ruleApproved}
        <5>1. snapshot[t] \in Record /\ approvals[p] \in Record
          BY <4>2, SerialisedRecord
        <5>2. NewlyRuleBacked(p, snapshot[t]) /\ NewlyRuleBacked(p, approvals[p])
          BY <1>2, <2>1, <4>2 DEF ReadPC, ScanPC
        <5>3. QED BY <4>2, <5>1, <5>2 DEF NewlyRuleBacked
      <4>3. QED BY <2>5, <4>1, <4>2, RemoveMoves
    <3>2. QED BY <2>3, <3>1
  <2>6. QED BY <1>7, <2>4, <2>5
<1>8. ASSUME NEW t \in Threads, ScanBegin(t)
      PROVE  Records /\ Snapshots
  <2>1. Grows
    BY <1>8 DEF ScanBegin
  <2>2. Scans
    BY <1>8 DEF ScanBegin, Goto, ScanPC, IInv, TypeOK, Call
  <2>3. \A q \in Packs : approvals'[q] = approvals[q] \/ approvals'[q] = NewRecord("installed")
    BY <1>8 DEF ScanBegin
  <2>4. Records
    BY <1>2, <1>8, <2>1, <2>3, RuleFree DEF ScanBegin
  <2>5. QED BY <1>3, <2>1, <2>2, <2>4
<1>9. ASSUME NEW t \in Threads, \/ \E p \in Packs : ScanRead(t, p)
                                \/ ScanFields(t) \/ ScanStatus(t)
      PROVE  Records /\ Snapshots
  <2>1. Grows /\ Records
    BY <1>2, <1>9 DEF ScanRead, ScanFields, ScanStatus
  <2>2. \A u \in Threads \ {t} : snapshot'[u] = snapshot[u] /\ call'[u] = call[u]
    BY <1>9 DEF ScanRead, ScanFields, ScanStatus, Goto, Return, IInv, TypeOK
  <2>3. ASSUME NEW p \in Packs, ScanRead(t, p), call'[t].pc \in ScanPC
        PROVE  NewlyRuleBacked(call'[t].pack, snapshot'[t])
    <3>1. snapshot'[t] = [NewRecord("installed") EXCEPT !.hashes = approvals[p].hashes]
      BY <2>3 DEF ScanRead, Return, Idle, ScanPC, IInv, TypeOK
    <3>2. ~snapshot'[t].ruleApproved
      BY <3>1 DEF NewRecord
    <3>3. QED BY <3>2 DEF NewlyRuleBacked
  <2>4. ASSUME call[t].pc \in ReadPC, call'[t].pack = call[t].pack,
               snapshot'[t].ruleApproved \in {snapshot[t].ruleApproved,
                                              approvals[call[t].pack].ruleApproved}
        PROVE  NewlyRuleBacked(call'[t].pack, snapshot'[t])
    <3>1. /\ call[t].pack \in Packs
          /\ snapshot[t] \in Record /\ approvals[call[t].pack] \in Record
      BY <2>4, SerialisedRecord
    <3>2. NewlyRuleBacked(call[t].pack, snapshot[t]) /\ NewlyRuleBacked(call[t].pack, approvals[call[t].pack])
      BY <1>2, <2>1, <2>4, <3>1 DEF ReadPC, ScanPC
    <3>3. QED BY <2>4, <3>1, <3>2 DEF NewlyRuleBacked
  <2>5. ASSUME ScanFields(t) \/ ScanStatus(t)
        PROVE  NewlyRuleBacked(call'[t].pack, snapshot'[t])
    <3>1. call[t].pc \in ReadPC /\ call'[t].pack = call[t].pack
      BY <2>5 DEF ScanFields, ScanStatus, ReadPC, Goto, IInv, TypeOK, Call
    <3>2. snapshot[t] \in Record /\ WithFields(t, call[t].pack) \in Record
      BY <3>1, SerialisedRecord
    <3>3. CASE ScanFields(t)
      <4>1. snapshot'[t] = WithFields(t, call[t].pack)
        BY <3>3 DEF ScanFields, IInv, TypeOK
      <4>2. snapshot'[t].ruleApproved = approvals[call[t].pack].ruleApproved
        BY <3>2, <4>1 DEF WithFields, Record
      <4>3. QED BY <2>4, <3>1, <4>2
    <3>4. CASE ScanStatus(t)
      <4>1. snapshot'[t] = WithStatus(snapshot[t], call[t].pack)
        BY <3>4 DEF ScanStatus, IInv, TypeOK
      <4>2. snapshot'[t].ruleApproved = snapshot[t].ruleApproved
        BY <3>2, <4>1 DEF WithStatus, Record
      <4>3. QED BY <2>4, <3>1, <4>2
    <3>5. QED BY <2>5, <3>3, <3>4
  <2>6. QED BY <1>2, <1>9, <2>1, <2>2, <2>3, <2>5
<1>10. ASSUME NEW t \in Threads, NEW ok \in BOOLEAN, ScanWrite(t, ok)
       PROVE  Records /\ Snapshots
  <2> DEFINE p == call[t].pack
  <2>1. p \in Packs /\ Grows /\ UNCHANGED approvals
    BY <1>1, <1>10 DEF ScanWrite, ScanPC
  <2>2. PICK f \in {snapshot[t], grantFile[p], Unreadable} : grantFile' = [grantFile EXCEPT ![p] = f]
    BY <1>10 DEF ScanWrite
  <2>3. NewlyRuleBacked(p, f)
    BY <1>2, <1>10, <2>1, <2>2, RuleFree DEF ScanWrite, ScanPC
  <2>4. Scans
    <3>1. call'[t].pc \notin ScanPC /\ \A u \in Threads \ {t} : call'[u] = call[u]
      BY <1>10 DEF ScanWrite, Return, Idle, ScanPC, IInv, TypeOK, Call
    <3>2. \A u \in Threads \ {t} : snapshot'[u] = snapshot[u]
      BY <1>10 DEF ScanWrite, IInv, TypeOK
    <3>3. QED BY <3>1, <3>2
  <2>5. Records
    BY <1>2, <2>1, <2>2, <2>3 DEF IInv, TypeOK
  <2>6. QED BY <1>3, <2>1, <2>4, <2>5
<1>11. CASE Restart
  <2>1. Grows /\ UNCHANGED grantFile /\ approvals' = [p \in Packs |-> Load(grantFile[p])]
    BY <1>11 DEF Restart
  <2>2. \A t \in Threads : call'[t].pc = "idle"
    BY <1>11 DEF Restart, Idle
  <2>3. \A p \in Packs : Load(grantFile[p]) \in {grantFile[p], None, NewRecord("modified")}
    BY DEF Load
  <2>4. QED BY <1>2, <2>1, <2>2, <2>3, RuleFree DEF ScanPC
<1>12. QED BY StepKinds, <1>5, <1>6, <1>7, <1>8, <1>9, <1>10, <1>11 DEF Kinds

\* A rule approval rests on an approve or a rollback that recorded a tree of the
\* pack directory, whatever restarts, removals, failed saves and scans reading a
\* record while it changes came between.
THEOREM RulesBacked == Spec => []RuleApprovalBacked
<1>1. Init => RuleApprovalBacked
  BY RuleFree DEF Init, RuleApprovalBacked, ScanPC, Idle
<1>2. IInv /\ IInv' /\ RuleApprovalBacked /\ [Next]_vars => RuleApprovalBacked'
  BY RuleStep
<1>3. QED BY <1>1, <1>2, Invariance, PTL DEF Spec

-----------------------------------------------------------------------------
(***************************************************************************)
(* Grant files.  GrantFileCurrent is not inductive: a scan may find that   *)
(* the pack it was to save has been removed, and what keeps the file of a  *)
(* pack without a record apart from other packs is that no scan owes it.   *)
(***************************************************************************)
Loaded(p) == approvals[p] = Load(grantFile[p])

FilesFollow ==
  /\ GrantFileCurrent
  /\ \A p \in Packs : p \in lagging \/ Known(p) \/ Loaded(p)
  /\ \A t \in Threads : call[t].pc \notin Scanning => pending[t] = {}

\* A record is loaded as it was saved.
LEMMA LoadRecord == \A rec \in Record : Load(rec) = rec
BY Distinct DEF Load

\* Whoever owes a file still owes it, unless a scan moves.
LEMMA StillUnsaved ==
  ASSUME OutsideScans, NEW p, Unsaved(p)
  PROVE  Unsaved(p)'
<1>1. PICK t \in Threads : p \in pending[t] \/ (call[t].pc \in ScanPC /\ call[t].pack = p)
  BY DEF Unsaved
<1>2. pending' = pending /\ (call[t].pc \in ScanPC => call'[t] = call[t])
  BY DEF OutsideScans, scans, Scanning, ScanPC
<1>3. p \in pending'[t] \/ (call'[t].pc \in ScanPC /\ call'[t].pack = p)
  BY <1>1, <1>2
<1>4. QED BY <1>3 DEF Unsaved

LEMMA FilesStep ==
  ASSUME IInv, FilesFollow, [Next]_vars
  PROVE  FilesFollow'
<1> DEFINE Idles == \A t \in Threads : call'[t].pc \notin Scanning => pending'[t] = {}
           Follows(p) == /\ p \in lagging' \/ Unsaved(p)' \/ Loaded(p)'
                         /\ p \in lagging' \/ Known(p)' \/ Loaded(p)'
<1>1. SUFFICES Idles /\ \A p \in Packs : Follows(p)
  BY DEF FilesFollow, GrantFileCurrent, Loaded
<1>2. \A p \in Packs : /\ p \in lagging \/ Unsaved(p) \/ Loaded(p)
                       /\ p \in lagging \/ Known(p) \/ Loaded(p)
  BY DEF FilesFollow, GrantFileCurrent, Loaded
<1>3. \A t \in Threads : call[t].pc \notin Scanning => pending[t] = {}
  BY DEF FilesFollow
<1>4. ASSUME NEW p, approvals'[p] = approvals[p], grantFile'[p] = grantFile[p]
      PROVE  (Loaded(p) => Loaded(p)') /\ (Known(p) => Known(p)')
  BY <1>4 DEF Loaded, Known
<1>5. OutsideScans => Idles
  BY <1>3 DEF OutsideScans, scans
<1>6. CASE Quiet
  <2>1. ASSUME NEW p \in Packs PROVE Follows(p)
    BY <1>2, <1>4, <1>6, StillUnsaved DEF Quiet
  <2>2. QED BY <1>5, <1>6, <2>1 DEF Quiet
<1>7. ASSUME NEW p \in Packs, NEW rec \in Record, NEW ok \in BOOLEAN, Saves(p, rec, ok)
      PROVE  Idles /\ \A q \in Packs : Follows(q)
  <2>1. /\ approvals' = [approvals EXCEPT ![p] = rec]
        /\ SaveGrant(p, rec, ok)
        /\ OutsideScans
    BY <1>7 DEF Saves, Update
  <2>2. ASSUME NEW q \in Packs, q # p PROVE Follows(q)
    <3>1. approvals'[q] = approvals[q] /\ grantFile'[q] = grantFile[q] /\ (q \in lagging => q \in lagging')
      BY <2>1, <2>2 DEF SaveGrant, IInv, TypeOK
    <3>2. QED BY <1>2, <1>4, <2>1, <3>1, StillUnsaved
  <2>3. Follows(p)
    <3>1. CASE ok
      <4>1. approvals'[p] = rec /\ grantFile'[p] = rec
        BY <2>1, <3>1 DEF SaveGrant, IInv, TypeOK
      <4>2. QED BY <4>1, LoadRecord DEF Loaded
    <3>2. CASE ~ok
      BY <2>1, <3>2 DEF SaveGrant
    <3>3. QED BY <3>1, <3>2
  <2>4. QED BY <1>5, <2>1, <2>2, <2>3
<1>8. ASSUME NEW p \in Packs, Remove(p)
      PROVE  Idles /\ \A q \in Packs : Follows(q)
  <2>1. UNCHANGED pending
    BY <1>8 DEF Remove
  <2>2. ASSUME NEW t \in Threads
        PROVE  /\ call[t].pc \in ScanPC => call'[t].pc \in ScanPC /\ call'[t].pack = call[t].pack
               /\ call'[t].pc \notin Scanning => call[t].pc \notin Scanning
    BY <1>8, RemoveMoves DEF ScanPC, ReadPC, Scanning
  <2>3. Idles
    BY <1>3, <2>1, <2>2
  <2>4. ASSUME NEW q \in Packs, Unsaved(q)
        PROVE  Unsaved(q)'
    BY <2>1, <2>2, <2>4 DEF Unsaved
  <2>5. ASSUME NEW q \in Packs, q # p PROVE Follows(q)
    <3>1. approvals'[q] = approvals[q] /\ grantFile'[q] = grantFile[q] /\ (q \in lagging => q \in lagging')
      BY <1>8, <2>5 DEF Remove, IInv, TypeOK
    <3>2. QED BY <1>2, <1>4, <2>4, <3>1
  <2>6. Loaded(p)'
    <3>1. approvals'[p] = None /\ grantFile'[p] = None
      BY <1>8 DEF Remove, IInv, TypeOK
    <3>2. QED BY <3>1, Distinct DEF Loaded, Load
  <2>7. QED BY <2>3, <2>5, <2>6
<1>9. ASSUME NEW p \in Packs, Tamper(p)
      PROVE  Idles /\ \A q \in Packs : Follows(q)
  <2>1. OutsideScans
    BY <1>9, NoneMoves DEF Tamper
  <2>2. ASSUME NEW q \in Packs, q # p PROVE Follows(q)
    <3>1. approvals'[q] = approvals[q] /\ grantFile'[q] = grantFile[q] /\ (q \in lagging => q \in lagging')
      BY <1>9, <2>2 DEF Tamper, IInv, TypeOK
    <3>2. QED BY <1>2, <1>4, <2>1, <3>1, StillUnsaved
  <2>3. p \in lagging'
    BY <1>9 DEF Tamper
  <2>4. QED BY <1>5, <2>1, <2>2, <2>3
<1>10. ASSUME NEW t \in Threads, ScanBegin(t)
       PROVE  Idles /\ \A q \in Packs : Follows(q)
  <2> DEFINE new == {p \in Packs : content[p] # None /\ ~Known(p)}
  <2>1. /\ pending' = [pending EXCEPT ![t] = new]
        /\ approvals' = [p \in Packs |-> IF p \in new THEN NewRecord("installed") ELSE approvals[p]]
        /\ call' = [call EXCEPT ![t].pc = "scan"]
        /\ call[t].pc = "idle"
        /\ UNCHANGED <<grantFile, lagging>>
    BY <1>10 DEF ScanBegin, Goto, Idle
  <2>2. call'[t].pc = "scan" /\ \A u \in Threads \ {t} : call'[u] = call[u]
    BY <2>1 DEF IInv, TypeOK, Call
  <2>3. pending[t] = {} /\ pending'[t] = new /\ \A u \in Threads \ {t} : pending'[u] = pending[u]
    BY <1>3, <2>1 DEF IInv, TypeOK, Scanning
  <2>4. Idles
    BY <1>3, <2>2, <2>3 DEF Scanning
  <2>5. ASSUME NEW q \in Packs, q \in new PROVE Follows(q)
    <3>1. Unsaved(q)'
      BY <2>3, <2>5 DEF Unsaved
    <3>2. Known(q)'
      <4>1. approvals'[q] = NewRecord("installed")
        BY <2>1, <2>5
      <4>2. NewRecord("installed") \in Record
        BY DEF NewRecord, Record, Status
      <4>3. QED BY <4>1, <4>2, Distinct DEF Known
    <3>3. QED BY <3>1, <3>2
  <2>6. ASSUME NEW q \in Packs, q \notin new PROVE Follows(q)
    <3>1. approvals'[q] = approvals[q] /\ grantFile'[q] = grantFile[q] /\ lagging' = lagging
      BY <2>1, <2>6
    <3>2. Unsaved(q) => Unsaved(q)'
      <4>1. ASSUME NEW u \in Threads, q \in pending[u] \/ (call[u].pc \in ScanPC /\ call[u].pack = q)
            PROVE  q \in pending'[u] \/ (call'[u].pc \in ScanPC /\ call'[u].pack = q)
        BY <2>1, <2>2, <2>3, <4>1 DEF ScanPC
      <4>2. QED BY <4>1 DEF Unsaved
    <3>3. QED BY <1>2, <1>4, <3>1, <3>2
  <2>7. QED BY <2>4, <2>5, <2>6
<1>11. ASSUME NEW t \in Threads, NEW p \in Packs, ScanRead(t, p)
       PROVE  Idles /\ \A q \in Packs : Follows(q)
  <2>1. /\ pending' = [pending EXCEPT ![t] = pending[t] \ {p}]
        /\ UNCHANGED <<approvals, grantFile, lagging>>
        /\ call[t].pc = "scan"
    BY <1>11 DEF ScanRead
  <2>2. /\ pending'[t] = pending[t] \ {p}
        /\ \A u \in Threads \ {t} : pending'[u] = pending[u] /\ call'[u] = call[u]
    BY <1>11, <2>1 DEF ScanRead, Return, IInv, TypeOK
  <2>3. CASE Known(p) /\ call'[t].pc = "scanFields" /\ call'[t].pack = p
    <3>1. ASSUME NEW q \in Packs, Unsaved(q) PROVE Unsaved(q)'
      <4>1. PICK u \in Threads : q \in pending[u] \/ (call[u].pc \in ScanPC /\ call[u].pack = q)
        BY <3>1 DEF Unsaved
      <4>2. \/ q \in pending'[u] \/ (call'[u].pc \in ScanPC /\ call'[u].pack = q)
        BY <2>1, <2>2, <2>3, <4>1 DEF ScanPC
      <4>3. QED BY <4>2 DEF Unsaved
    <3>2. \A q \in Packs : Follows(q)
      BY <1>2, <1>4, <2>1, <3>1
    <3>3. Idles
      BY <1>3, <2>2, <2>3 DEF Scanning
    <3>4. QED BY <3>2, <3>3
  <2>4. CASE ~Known(p)
    <3>1. ASSUME NEW q \in Packs, q # p, Unsaved(q) PROVE Unsaved(q)'
      <4>1. PICK u \in Threads : q \in pending[u] \/ (call[u].pc \in ScanPC /\ call[u].pack = q)
        BY <3>1 DEF Unsaved
      <4>2. \/ q \in pending'[u] \/ (call'[u].pc \in ScanPC /\ call'[u].pack = q)
        BY <2>1, <2>2, <3>1, <4>1 DEF ScanPC
      <4>3. QED BY <4>2 DEF Unsaved
    <3>2. \A q \in Packs : Follows(q)
      BY <1>2, <1>4, <2>1, <2>4, <3>1
    <3>3. call'[t].pc \notin Scanning => pending'[t] = {}
      BY <1>11, <2>1, <2>2, <2>4 DEF ScanRead, Scanning
    <3>4. QED BY <1>3, <2>2, <3>2, <3>3
  <2>5. Known(p) => call'[t].pc = "scanFields" /\ call'[t].pack = p
    BY <1>11 DEF ScanRead, IInv, TypeOK, Call
  <2>6. QED BY <2>3, <2>4, <2>5
<1>12. ASSUME NEW t \in Threads, ScanFields(t) \/ ScanStatus(t)
       PROVE  Idles /\ \A q \in Packs : Follows(q)
  <2>1. UNCHANGED <<approvals, grantFile, lagging, pending>>
    BY <1>12 DEF ScanFields, ScanStatus
  <2>2. /\ call'[t].pack = call[t].pack /\ call'[t].pc \in ScanPC /\ call[t].pc \in ScanPC
        /\ \A u \in Threads \ {t} : call'[u] = call[u]
    BY <1>12 DEF ScanFields, ScanStatus, Goto, ScanPC, IInv, TypeOK, Call
  <2>3. Idles
    BY <1>3, <2>1, <2>2 DEF ScanPC, Scanning
  <2>4. ASSUME NEW q \in Packs, Unsaved(q)
        PROVE  Unsaved(q)'
    BY <2>1, <2>2, <2>4 DEF Unsaved
  <2>5. ASSUME NEW q \in Packs PROVE Follows(q)
    BY <1>2, <1>4, <2>1, <2>4
  <2>6. QED BY <2>3, <2>5
<1>13. ASSUME NEW t \in Threads, NEW ok \in BOOLEAN, ScanWrite(t, ok)
       PROVE  Idles /\ \A q \in Packs : Follows(q)
  <2>1. PICK p \in Packs : p = call[t].pack
    BY <1>13 DEF ScanWrite, IInv, CallsWellFormed
  <2>2. /\ snapshot[t] \in Record /\ call[t].pc = "scanWrite"
        /\ UNCHANGED approvals
        /\ \A u \in Threads \ {t} : call'[u] = call[u] /\ pending'[u] = pending[u]
    BY <1>13 DEF ScanWrite, Return, ScanPC, IInv, TypeOK, CallsWellFormed
  <2>3. call'[t].pc \in {"idle", "scan"} /\ (call'[t].pc = "idle" => pending'[t] = {})
    BY <1>13 DEF ScanWrite, Return, Idle, IInv, TypeOK, Call
  <2>4. Idles
    BY <1>3, <2>2, <2>3 DEF Scanning
  <2>5. \A q \in Packs \ {p} : grantFile'[q] = grantFile[q] /\ (q \in lagging => q \in lagging')
    BY <1>13, <2>1 DEF ScanWrite, IInv, TypeOK
  <2>6. pending'[t] = pending[t] \/ \A q \in pending[t] : q \in lagging'
    BY <1>13 DEF ScanWrite
  <2>7. ASSUME NEW q \in Packs, q # p PROVE Follows(q)
    <3>1. Unsaved(q) => Unsaved(q)' \/ q \in lagging'
      <4>1. ASSUME NEW u \in Threads, q \in pending[u] \/ (call[u].pc \in ScanPC /\ call[u].pack = q)
            PROVE  \/ q \in pending'[u] \/ (call'[u].pc \in ScanPC /\ call'[u].pack = q)
                   \/ q \in lagging'
        BY <2>1, <2>2, <2>6, <2>7, <4>1
      <4>2. QED BY <4>1 DEF Unsaved
    <3>2. QED BY <1>2, <1>4, <2>2, <2>5, <2>7, <3>1
  <2>8. Follows(p)
    <3>1. CASE ~ok
      BY <1>13, <2>1, <3>1 DEF ScanWrite
    <3>2. CASE ok /\ snapshot[t] # approvals[p]
      BY <1>13, <2>1, <3>2 DEF ScanWrite
    <3>3. CASE ok /\ snapshot[t] = approvals[p]
      <4>1. grantFile'[p] = approvals[p] /\ approvals'[p] = approvals[p] /\ approvals[p] \in Record
        BY <1>13, <2>1, <2>2, <3>3 DEF ScanWrite, IInv, TypeOK
      <4>2. QED BY <4>1, LoadRecord DEF Loaded
    <3>4. QED BY <3>1, <3>2, <3>3
  <2>9. QED BY <2>4, <2>7, <2>8
<1>14. CASE Restart
  <2>1. \A p \in Packs : Loaded(p)'
    BY <1>14 DEF Restart, Loaded
  <2>2. Idles
    BY <1>14 DEF Restart
  <2>3. QED BY <2>1, <2>2
<1>15. QED
  BY StepKinds, <1>6, <1>7, <1>8, <1>9, <1>10, <1>11, <1>12, <1>13, <1>14 DEF Kinds

\* What a restart would load is what the manager holds, except for a pack whose
\* save is still to come, failed, was overtaken or undone from outside.
THEOREM FilesCurrent == Spec => []GrantFileCurrent
<1>1. Init => FilesFollow
  BY Distinct DEF Init, FilesFollow, GrantFileCurrent, Loaded, Load
<1>2. IInv /\ FilesFollow /\ [Next]_vars => FilesFollow'
  BY FilesStep
<1>3. FilesFollow => GrantFileCurrent
  BY DEF FilesFollow
<1>4. QED BY <1>1, <1>2, <1>3, Invariance, PTL DEF Spec

-----------------------------------------------------------------------------
(***************************************************************************)
(* Verifications.  RunBacked speaks of the end of one; on its way a        *)
(* verification holds what the record said when it was read, and between   *)
(* the status and the hashes it relies on the record as it is.             *)
(***************************************************************************)
VerifyPC == {"stored", "compute", "fill", "rule", "run"}

VerificationsBacked ==
  \A t \in Threads :
    /\ call[t].pc = "stored" =>
         \/ call[t].updated
         \/ ~Known(call[t].pack)
         \/ approvals[call[t].pack].mixed
         \/ approvals[call[t].pack].hashes \in sanctioned[call[t].pack] \cup {None}
    /\ call[t].pc \in VerifyPC \ {"stored"} =>
         call[t].updated \/ call[t].stored \in sanctioned[call[t].pack]
    /\ call[t].pc \in {"rule", "run"} => Accepts(call[t].mode, call[t].stored, call[t].seen)

\* The same of a call, after the step.
GoodVerification(c) ==
  /\ c.pc = "stored" =>
       \/ c.updated
       \/ approvals'[c.pack] = None
       \/ approvals'[c.pack].mixed
       \/ approvals'[c.pack].hashes \in sanctioned'[c.pack] \cup {None}
  /\ c.pc \in VerifyPC \ {"stored"} => c.updated \/ c.stored \in sanctioned'[c.pack]
  /\ c.pc \in {"rule", "run"} => Accepts(c.mode, c.stored, c.seen)

\* The record of a pack after a step other than a restart: it is gone, as it
\* was in its hashes, or these are sanctioned or none; or an apply_update told the
\* verifications under way.
LEMMA HashesFollow ==
  ASSUME IInv, Kinds, ~Restart, NEW p \in Packs
  PROVE  \/ approvals'[p] = None
         \/ /\ Known(p) /\ approvals'[p].hashes = approvals[p].hashes
            /\ approvals'[p].mixed = approvals[p].mixed
         \/ approvals'[p].hashes \in sanctioned'[p] \cup {None}
         \/ call' = Overtaken(p)
<1>1. ASSUME NEW q \in Packs, NEW rec \in Record, NEW ok \in BOOLEAN, Saves(q, rec, ok)
      PROVE  \/ approvals'[p] = approvals[p]
             \/ /\ Known(p) /\ approvals'[p].hashes = approvals[p].hashes
                /\ approvals'[p].mixed = approvals[p].mixed
             \/ approvals'[p].hashes \in sanctioned'[p]
             \/ call' = Overtaken(p)
  <2>1. approvals' = [approvals EXCEPT ![q] = rec] /\ Known(q) /\ KeepsHashes(q, rec)
    BY <1>1 DEF Saves, Update
  <2>2. CASE p = q
    <3>1. approvals'[p] = rec
      BY <2>1, <2>2 DEF IInv, TypeOK
    <3>2. QED BY <2>1, <2>2, <3>1 DEF KeepsHashes
  <2>3. CASE p # q
    BY <2>1, <2>3 DEF IInv, TypeOK
  <2>4. QED BY <2>2, <2>3
<1>2. ASSUME NEW q \in Packs, Remove(q) \/ Tamper(q)
      PROVE  approvals'[p] \in {None, approvals[p]}
  BY <1>2 DEF Remove, Tamper, IInv, TypeOK
<1>3. ASSUME NEW t \in Threads, ScanBegin(t)
      PROVE  approvals'[p] = approvals[p] \/ approvals'[p].hashes = None
  BY <1>3 DEF ScanBegin, NewRecord
<1>4. ASSUME NEW t \in Threads, \/ \E q \in Packs : ScanRead(t, q)
                                \/ ScanFields(t) \/ ScanStatus(t)
                                \/ \E ok \in BOOLEAN : ScanWrite(t, ok)
      PROVE  UNCHANGED approvals
  BY <1>4 DEF ScanRead, ScanFields, ScanStatus, ScanWrite
<1>5. QED BY <1>1, <1>2, <1>3, <1>4 DEF Kinds, Quiet, Known

LEMMA SanctionedGrow ==
  ASSUME Kinds, NEW p \in Packs
  PROVE  sanctioned[p] \subseteq sanctioned'[p]
BY DEF Kinds, Quiet, Saves, OutsideScans, Remove, Tamper, ScanBegin, ScanRead, ScanFields,
   ScanStatus, ScanWrite, Restart

\* A call that a step leaves alone, or that an apply_update overtakes.
LEMMA CallKept ==
  ASSUME IInv, VerificationsBacked, Kinds, ~Restart, NEW t \in Threads,
         call'[t] = call[t] \/ \E p \in Packs : call' = Overtaken(p)
  PROVE  GoodVerification(call'[t])
<1> DEFINE c == call[t]
<1>1. c \in Call /\ (c.pc \in VerifyPC => c.pack \in Packs)
  BY DEF IInv, TypeOK, CallsWellFormed, VerifyPC
<1>2. /\ call'[t] = c \/ call'[t] = [c EXCEPT !.updated = TRUE]
      /\ call' = Overtaken(c.pack) /\ c.pc = "stored" => call'[t] = [c EXCEPT !.updated = TRUE]
  BY DEF Overtaken
<1>3. c.pc \in VerifyPC => sanctioned[c.pack] \subseteq sanctioned'[c.pack]
  BY <1>1, SanctionedGrow
<1>4. CASE call'[t] = [c EXCEPT !.updated = TRUE]
  BY <1>1, <1>4 DEF GoodVerification, VerificationsBacked, Call
<1>5. CASE call'[t] = c /\ c.pc # "stored"
  BY <1>3, <1>5 DEF GoodVerification, VerificationsBacked, VerifyPC
<1>6. CASE call'[t] = c /\ c.pc = "stored"
  <2>1. c.pack \in Packs
    BY <1>1, <1>6 DEF VerifyPC
  <2>2. \/ approvals'[c.pack] = None
        \/ /\ Known(c.pack) /\ approvals'[c.pack].hashes = approvals[c.pack].hashes
           /\ approvals'[c.pack].mixed = approvals[c.pack].mixed
        \/ approvals'[c.pack].hashes \in sanctioned'[c.pack] \cup {None}
        \/ call' = Overtaken(c.pack)
    BY <2>1, HashesFollow
  <2>3. CASE call' = Overtaken(c.pack)
    BY <1>2, <1>4, <1>6, <2>3
  <2>4. QED
    BY <1>3, <1>6, <2>2, <2>3 DEF GoodVerification, VerificationsBacked, VerifyPC
<1>7. QED BY <1>2, <1>4, <1>5, <1>6

\* The steps that bring a thread to a place in a verification.
LEMMA CallKinds ==
  ASSUME IInv, Next, NEW t \in Threads
  PROVE  \/ call'[t] = call[t] \/ \E p \in Packs : call' = Overtaken(p)
         \/ call'[t].pc \notin VerifyPC
         \/ \E p \in Packs, m \in Mode : VerifyBegin(t, p, m)
         \/ \E ok \in BOOLEAN : AutoApprove(t, ok)
         \/ TakeStored(t) \/ Compute(t) \/ Fill(t) \/ RuleCheck(t)
<1>1. call \in [Threads -> Call] /\ ApiThread \in Threads
  BY DEF IInv, TypeOK, Threads
<1>2. Idle.pc \notin VerifyPC
  BY DEF Idle, VerifyPC
<1>3. ASSUME NEW p \in Packs, Operator(p)
      PROVE  call'[t] = call[t] \/ call' = Overtaken(p) \/ call'[t].pc \notin VerifyPC
  <2>1. CASE Remove(p)
    BY <2>1, RemoveMoves DEF VerifyPC
  <2>2. CASE Operator(p) /\ ~Remove(p)
    BY <1>1, <2>2 DEF Operator, ApiApprove, ApproveRule, Ruling, Reject, RollbackBegin, ApplyUpdate,
       ApplyRemove, VerifyPC, Idle
  <2>3. QED BY <1>3, <2>1, <2>2
<1>4. ASSUME NEW p \in Packs, Environment(p)
      PROVE  call'[t] = call[t]
  BY <1>4 DEF Environment, EditPack, CacheExpire, Tamper
<1>5. ASSUME NEW u \in Threads, u # t, Thread(u)
      PROVE  call'[t] = call[t]
  <2>1. ASSUME \/ Return(u) \/ Refuse(u)
               \/ \E h : Conclude(u, h)
               \/ \E pc : Goto(u, pc)
               \/ \E c : call' = [call EXCEPT ![u] = c]
               \/ UNCHANGED call
        PROVE  call'[t] = call[t]
    BY <1>1, <1>5, <2>1 DEF Return, Refuse, Conclude, Goto
  <2>2. ASSUME ScanBegin(u) \/ ScanFields(u) \/ ScanStatus(u) \/ \E p \in Packs : ScanRead(u, p)
        PROVE  call'[t] = call[t]
    BY <1>1, <1>5, <2>2 DEF ScanBegin, ScanRead, ScanFields, ScanStatus, Goto, Return
  <2>3. ASSUME NEW p \in Packs, NEW m \in Mode, VerifyBegin(u, p, m) PROVE call'[t] = call[t]
    BY <1>1, <1>5, <2>3 DEF VerifyBegin
  <2>4. ASSUME NEW ok \in BOOLEAN, \/ ScanWrite(u, ok) \/ AutoApprove(u, ok)
                                   \/ RollbackCommit(u, ok) \/ Mark(u, ok)
        PROVE  call'[t] = call[t]
    BY <1>1, <1>5, <2>4 DEF ScanWrite, AutoApprove, RollbackCommit, Mark, Return, Goto
  <2>5. ASSUME NEW c \in Contents \cup {None}, NEW ok \in BOOLEAN, ApplyCopy(u, c, ok)
        PROVE  call'[t] = call[t]
    BY <1>1, <1>5, <2>5 DEF ApplyCopy, Return, Goto
  <2>6. ASSUME RollbackCompare(u) \/ RuleCheck(u) \/ Run(u) PROVE call'[t] = call[t]
    BY <1>1, <1>5, <2>6 DEF RollbackCompare, RuleCheck, Run, Return, Goto
  <2>7. ASSUME TakeStored(u) \/ Compute(u) \/ Fill(u) PROVE call'[t] = call[t]
    BY <1>1, <1>5, <2>1, <2>7 DEF TakeStored, Compute, Fill
  <2>8. QED BY <1>5, <2>2, <2>3, <2>4, <2>5, <2>6, <2>7 DEF Thread
<1>6. ASSUME Thread(t)
      PROVE  \/ call'[t] = call[t] \/ call'[t].pc \notin VerifyPC
             \/ \E p \in Packs, m \in Mode : VerifyBegin(t, p, m)
             \/ \E ok \in BOOLEAN : AutoApprove(t, ok)
             \/ TakeStored(t) \/ Compute(t) \/ Fill(t) \/ RuleCheck(t)
  <2>1. call[t] \in Call
    BY <1>1
  <2>2. ASSUME ScanBegin(t) \/ ScanFields(t) \/ ScanStatus(t) \/ \E p \in Packs : ScanRead(t, p)
        PROVE  call'[t] = call[t] \/ call'[t].pc \notin VerifyPC
    BY <1>1, <1>2, <2>1, <2>2
       DEF ScanBegin, ScanRead, ScanFields, ScanStatus, Goto, Return, VerifyPC, Call
  <2>3. ASSUME NEW ok \in BOOLEAN, ScanWrite(t, ok) \/ RollbackCommit(t, ok) \/ Mark(t, ok)
        PROVE  call'[t].pc \notin VerifyPC
    BY <1>1, <1>2, <2>1, <2>3 DEF ScanWrite, RollbackCommit, Mark, Return, VerifyPC, Call
  <2>4. ASSUME \/ \E c \in Contents \cup {None}, ok \in BOOLEAN : ApplyCopy(t, c, ok)
               \/ RollbackCompare(t) \/ Run(t)
        PROVE  call'[t].pc \notin VerifyPC
    BY <1>1, <1>2, <2>1, <2>4 DEF ApplyCopy, RollbackCompare, Run, Return, Goto, VerifyPC, Call
  <2>5. QED BY <1>6, <2>2, <2>3, <2>4 DEF Thread
<1>7. ASSUME Restart PROVE call'[t].pc \notin VerifyPC
  BY <1>2, <1>7 DEF Restart
<1>8. QED BY <1>3, <1>4, <1>5, <1>6, <1>7 DEF Next

LEMMA RefusedCall ==
  ASSUME IInv, NEW t \in Threads, Refuse(t) \/ Return(t)
  PROVE  call'[t].pc \in {"mark", "idle"}
<1> DEFINE c == [Idle EXCEPT !.pc = "mark", !.pack = call[t].pack]
<1>1. c.pc = "mark" /\ Idle.pc = "idle"
  BY DEF Idle
<1>2. call' = [call EXCEPT ![t] = c] \/ call' = [call EXCEPT ![t] = Idle]
  BY DEF Refuse, Return
<1> HIDE DEF c
<1>3. QED BY <1>1, <1>2 DEF IInv, TypeOK

LEMMA ConcludeVerified ==
  ASSUME IInv, VerificationsBacked, Kinds, NEW t \in Threads, NEW h,
         call[t].pc \in {"compute", "fill"}, Conclude(t, h)
  PROVE  GoodVerification(call'[t])
<1> DEFINE c == call[t]
           m == AfterMatch(c.mode)
           d == [c EXCEPT !.pc = m, !.seen = h]
<1>1. c \in Call /\ c.pack \in Packs
  BY DEF IInv, TypeOK, CallsWellFormed
<1>2. c.updated \/ c.stored \in sanctioned'[c.pack]
  BY <1>1, SanctionedGrow DEF VerificationsBacked, VerifyPC
<1>3. CASE Refuse(t) \/ Return(t)
  <2>1. call'[t].pc \in {"mark", "idle"}
    BY <1>3, RefusedCall
  <2>2. QED BY <2>1 DEF GoodVerification, VerifyPC
<1>4. CASE Accepts(c.mode, c.stored, h) /\ call' = [call EXCEPT ![t] = d]
  <2>1. m \in {"run", "rule", "idle"}
    BY DEF AfterMatch
  <2> HIDE DEF m
  <2>2. d.pc = m /\ d.seen = h /\ d.mode = c.mode /\ d.stored = c.stored /\ d.pack = c.pack
        /\ d.updated = c.updated
    BY <1>1 DEF Call
  <2>3. call'[t] = d
    BY <1>4 DEF IInv, TypeOK
  <2> HIDE DEF d
  <2>4. QED BY <1>2, <1>4, <2>1, <2>2, <2>3 DEF GoodVerification, VerifyPC
<1>5. QED BY <1>3, <1>4 DEF Conclude

LEMMA VerificationStep ==
  ASSUME IInv, VerificationsBacked, [Next]_vars
  PROVE  VerificationsBacked'
<1> SUFFICES ASSUME NEW t \in Threads PROVE GoodVerification(call'[t])
  BY DEF VerificationsBacked, GoodVerification, Known, VerifyPC
<1> DEFINE p == call[t].pack
<1>1. Kinds
  BY StepKinds
<1>2. call \in [Threads -> Call] /\ call[t] \in Call
  BY DEF IInv, TypeOK
<1>3. ASSUME call'[t].pc \notin VerifyPC PROVE GoodVerification(call'[t])
  BY <1>3 DEF GoodVerification, VerifyPC
<1>4. ASSUME Refuse(t) \/ Return(t) PROVE GoodVerification(call'[t])
  <2>1. call'[t].pc \in {"mark", "idle"}
    BY <1>4, RefusedCall
  <2>2. QED BY <1>3, <2>1 DEF VerifyPC
<1>5. CASE Restart
  BY <1>3, <1>5 DEF Restart, Idle, VerifyPC
<1>6. CASE ~Restart /\ (call'[t] = call[t] \/ \E q \in Packs : call' = Overtaken(q))
  BY <1>1, <1>6, CallKept
<1>7. ASSUME NEW q \in Packs, NEW m \in Mode, VerifyBegin(t, q, m) PROVE GoodVerification(call'[t])
  <2>1. PICK next \in {"stored", "autoApprove"} :
          /\ call'[t] = [Idle EXCEPT !.pc = next, !.pack = q, !.mode = m]
          /\ next = "stored" => HasStatus(q, "approved")
    BY <1>2, <1>7 DEF VerifyBegin
  <2>2. call'[t].pc = next /\ call'[t].pack = q
    BY <2>1 DEF Idle
  <2>3. CASE next = "stored"
    <3>1. approvals'[q].mixed \/ approvals'[q].hashes \in sanctioned'[q]
      BY <1>7, <2>1, <2>3, RecordFields DEF VerifyBegin, HasStatus
    <3>2. QED BY <2>2, <2>3, <3>1 DEF GoodVerification, VerifyPC
  <2>4. QED BY <1>3, <2>2, <2>3 DEF VerifyPC
<1>8. ASSUME NEW ok \in BOOLEAN, AutoApprove(t, ok) PROVE GoodVerification(call'[t])
  <2>1. p \in Packs
    BY <1>8 DEF AutoApprove, IInv, CallsWellFormed
  <2>2. CASE Approve(p, ok) /\ Goto(t, "stored")
    <3> DEFINE h == CachedHashes(p)
    <3>1. approvals[p] \in Record
      BY <2>1, <2>2, RecordFields DEF Approve
    <3>2. approvals' = [approvals EXCEPT ![p] = [approvals[p] EXCEPT !.status = "approved",
                          !.hashes = h, !.versions = @ \cup {h}, !.mixed = FALSE]]
      BY <2>2 DEF Approve, Update
    <3>3. approvals'[p].hashes = h
      BY <2>1, <3>1, <3>2 DEF IInv, TypeOK, Record
    <3>4. h \in sanctioned'[p]
      BY <2>1, <2>2 DEF Approve, IInv, TypeOK
    <3>5. call'[t].pc = "stored" /\ call'[t].pack = p
      BY <1>2, <2>2 DEF Goto, Call
    <3>6. QED BY <3>3, <3>4, <3>5 DEF GoodVerification, VerifyPC
  <2>3. QED BY <1>4, <1>8, <2>2 DEF AutoApprove
<1>9. ASSUME TakeStored(t) PROVE GoodVerification(call'[t])
  <2>1. p \in Packs /\ call[t].pc = "stored"
    BY <1>9 DEF TakeStored, IInv, CallsWellFormed
  <2> DEFINE c == [call[t] EXCEPT !.pc = "compute", !.stored = approvals[p].hashes,
                                  !.updated = @ \/ approvals[p].mixed]
  <2>2. CASE Known(p) /\ approvals[p].hashes # None /\ call' = [call EXCEPT ![t] = c]
    <3>1. call'[t] = c /\ c.pc = "compute" /\ c.stored = approvals[p].hashes /\ c.pack = p
          /\ c.updated = (call[t].updated \/ approvals[p].mixed)
      BY <1>2, <2>2 DEF Call
    <3>2. call[t].updated \/ approvals[p].mixed \/ approvals[p].hashes \in sanctioned[p]
      BY <2>1, <2>2 DEF VerificationsBacked
    <3>3. sanctioned[p] \subseteq sanctioned'[p]
      BY <1>1, <2>1, SanctionedGrow
    <3> HIDE DEF c
    <3>4. QED BY <3>1, <3>2, <3>3 DEF GoodVerification, VerifyPC
  <2>3. QED BY <1>4, <1>9, <2>2 DEF TakeStored
<1>10. ASSUME Compute(t) PROVE GoodVerification(call'[t])
  <2>1. p \in Packs /\ call[t].pc = "compute"
    BY <1>10 DEF Compute, IInv, CallsWellFormed
  <2> DEFINE c == [call[t] EXCEPT !.pc = "fill", !.seen = content[p]]
  <2>2. CASE call' = [call EXCEPT ![t] = c]
    <3>1. call'[t] = c /\ c.pc = "fill" /\ c.stored = call[t].stored /\ c.pack = p
          /\ c.updated = call[t].updated
      BY <1>2, <2>2 DEF Call
    <3>2. call[t].updated \/ call[t].stored \in sanctioned'[p]
      BY <1>1, <2>1, SanctionedGrow DEF VerificationsBacked, VerifyPC
    <3> HIDE DEF c
    <3>3. QED BY <3>1, <3>2 DEF GoodVerification, VerifyPC
  <2>3. Refuse(t) \/ (\E h : Conclude(t, h)) \/ call' = [call EXCEPT ![t] = c]
    BY <1>10 DEF Compute
  <2>4. QED BY <1>1, <1>4, <2>1, <2>2, <2>3, ConcludeVerified
<1>11. ASSUME Fill(t) PROVE GoodVerification(call'[t])
  BY <1>1, <1>11, ConcludeVerified DEF Fill
<1>12. ASSUME RuleCheck(t) PROVE GoodVerification(call'[t])
  <2>1. p \in Packs /\ call[t].pc = "rule"
    BY <1>12 DEF RuleCheck, IInv, CallsWellFormed
  <2>2. CASE Goto(t, "run")
    <3>1. /\ call'[t].pc = "run" /\ call'[t].pack = p /\ call'[t].mode = call[t].mode
          /\ call'[t].stored = call[t].stored /\ call'[t].seen = call[t].seen
          /\ call'[t].updated = call[t].updated
      BY <1>2, <2>2 DEF Goto, Call
    <3>2. sanctioned[p] \subseteq sanctioned'[p]
      BY <1>1, <2>1, SanctionedGrow
    <3>3. QED BY <2>1, <3>1, <3>2 DEF GoodVerification, VerificationsBacked, VerifyPC
  <2>3. QED BY <1>4, <1>12, <2>2 DEF RuleCheck
<1>13. CASE UNCHANGED vars
  <2>1. (call' = call /\ ~Restart) \/ Restart
    BY <1>13 DEF vars
  <2>2. QED BY <1>5, <1>6, <2>1
<1>14. QED
  BY <1>3, <1>5, <1>6, <1>7, <1>8, <1>9, <1>10, <1>11, <1>12, <1>13, CallKinds

\* Code that is about to run was accepted against hashes that an approve or a
\* rollback recorded, unless an apply_update overtook its verification or the
\* record is one that a scan mixed up.
THEOREM RunsBacked == Spec => []RunBacked
<1>1. Init => VerificationsBacked
  BY DEF Init, VerificationsBacked, VerifyPC, Idle
<1>2. IInv /\ VerificationsBacked /\ [Next]_vars => VerificationsBacked'
  BY VerificationStep
<1>3. VerificationsBacked => RunBacked
  BY DEF VerificationsBacked, RunBacked, VerifyPC
<1>4. QED BY <1>1, <1>2, <1>3, Invariance, PTL DEF Spec
=============================================================================
