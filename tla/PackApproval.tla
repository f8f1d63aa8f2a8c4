---------------------------- MODULE PackApproval ----------------------------
(***************************************************************************)
(* The approval life cycle of packs: core_runtime/approval_manager.py with *)
(* its callers in the HTTP API, the pack applier, the flow loader and the  *)
(* component phases.                                                       *)
(*                                                                         *)
(* Two kinds of thread use one ApprovalManager.  The HTTP server is        *)
(* single-threaded, so everything an operator asks for runs on ApiThread,  *)
(* one call after the other.  KernelThreads are the kernel's flow and      *)
(* component threads.  The manager's RLock covers single sections of a     *)
(* method, so a method that leaves the lock (a scan's saves, a rollback,   *)
(* a verification, a development-mode approval) is several actions here.   *)
(*                                                                         *)
(* A file tree is one value of Contents, and the hash map computed from a  *)
(* tree is that tree: SHA-256 is taken to be injective.                    *)
(***************************************************************************)
EXTENDS Integers

CONSTANTS
  Packs,          \* pack ids; core packs, always approved, are not among them
  RulePacks,      \* the packs whose ecosystem.json says pack_type "rule"
  Contents,       \* the file trees a pack directory can hold
  BlocksOnly,     \* pairs of trees that differ in no critical path
  KernelThreads,  \* threads of flows and component phases
  ApiThread,      \* the thread of the HTTP API
  DevMode,        \* RUMI_ENVIRONMENT=dev and RUMI_AUTO_APPROVE_LOCAL=true
  None,           \* no record, no file, no tree, no hashes
  Unreadable,     \* a grant file that is not JSON
  Tampered        \* a grant file whose HMAC does not verify

ASSUME PackAssumption ==
  /\ RulePacks \subseteq Packs
  /\ BlocksOnly \subseteq Contents \X Contents
  /\ ApiThread \notin KernelThreads
  /\ DevMode \in BOOLEAN
  /\ None \notin Contents \cup Packs

Threads == KernelThreads \cup {ApiThread}

(***************************************************************************)
(* A record holds what decisions depend on: timestamps, the rejection      *)
(* reason and the order of the history are left out.  rollback_to_version  *)
(* takes any index and uses only the hashes found there, so version_history*)
(* is the set of hash maps it holds.  None among the hashes is the empty   *)
(* map, which no pack directory has.  mixed is history: a scan read the    *)
(* status "approved" and the hashes at different moments, and these hashes *)
(* had not been approved.                                                  *)
(***************************************************************************)
Status == {"installed", "approved", "modified", "blocked"}
Record == [status : Status, hashes : Contents \cup {None}, ruleApproved : BOOLEAN,
           versions : SUBSET Contents, mixed : BOOLEAN]

NewRecord(s) == [status |-> s, hashes |-> None, ruleApproved |-> FALSE, versions |-> {},
                 mixed |-> FALSE]

ASSUME FileAssumption ==
  /\ None \notin Record
  /\ Unreadable \notin Record \cup {None}
  /\ Tampered \notin Record \cup {None, Unreadable}

PC == {"idle", "scan", "scanFields", "scanStatus", "scanWrite", "autoApprove", "stored", "compute", "fill",
       "rule", "run", "mark", "rollback", "commit", "applyCopy"}

\* Who verifies: the flow loaders and the executors, which bypass the hash
\* cache; a component phase; or the scan handler of the startup flow and
\* get_approved_pack_ids, which only look.
Mode == {"none", "fresh", "component", "look"}

Call == [pc : PC, mode : Mode, pack : Packs \cup {None}, stored : Contents \cup {None},
         seen : Contents \cup {None}, updated : BOOLEAN]

Idle == [pc |-> "idle", mode |-> "none", pack |-> None, stored |-> None,
         seen |-> None, updated |-> FALSE]

VARIABLES
  approvals,   \* _approvals: the record of each pack, in memory
  grantFile,   \* <pack_id>.grants.json
  content,     \* the pack directory
  hashCache,   \* _hash_cache: an entry no older than the TTL
  call,        \* what each thread is doing
  pending,     \* pending_saves of a scan
  snapshot,    \* the record a scan is serialising or has serialised, unwritten
  lagging,     \* history: packs whose file is known to differ from memory
  onDisk,      \* history: the trees the pack directory has held
  sanctioned   \* history: the trees an approve or a rollback recorded

vars == <<approvals, grantFile, content, hashCache, call, pending, snapshot, lagging,
          onDisk, sanctioned>>
files == <<content, onDisk>>
scans == <<pending, snapshot>>

Init ==
  /\ approvals = [p \in Packs |-> None]
  /\ grantFile = [p \in Packs |-> None]
  /\ content \in [Packs -> Contents \cup {None}]
  /\ hashCache = [p \in Packs |-> None]
  /\ call = [t \in Threads |-> Idle]
  /\ pending = [t \in Threads |-> {}]
  /\ snapshot = [t \in Threads |-> None]
  /\ lagging = {}
  /\ onDisk = [p \in Packs |-> {content[p]} \ {None}]
  /\ sanctioned = [p \in Packs |-> {}]

-----------------------------------------------------------------------------
(* Grant files.                                                            *)

\* Mutant: a file that cannot be parsed is loaded as it is.
LoadAnything(f) == IF f = Tampered THEN NewRecord("modified") ELSE f

\* _load_grant_file: a bad signature yields a fresh record in status modified,
\* a file that cannot be parsed is skipped.
Load(f) == CASE f = Tampered   -> NewRecord("modified")
             [] f = Unreadable -> None
             [] OTHER          -> f

\* Bound: a write fails, or a file is damaged, only while no file is behind.
MayFail == lagging = {}

\* _save_grant replaces the file atomically; when that fails it writes the file
\* in place, and when that fails too the exception reaches the caller with the
\* file either untouched or truncated.
SaveGrant(p, rec, ok) ==
  IF ok
    THEN /\ grantFile' = [grantFile EXCEPT ![p] = rec]
         /\ lagging' = lagging \ {p}
    ELSE /\ MayFail
         /\ \E f \in {grantFile[p], Unreadable} : grantFile' = [grantFile EXCEPT ![p] = f]
         /\ lagging' = lagging \cup {p}

\* A handler changes the record in memory first and then saves it.
Update(p, rec, ok) ==
  /\ approvals' = [approvals EXCEPT ![p] = rec]
  /\ SaveGrant(p, rec, ok)

\* The hash cache is invalidated after the save, hence not when it raises.
Invalidate(p, ok) ==
  hashCache' = IF ok THEN [hashCache EXCEPT ![p] = None] ELSE hashCache

Known(p) == approvals[p] # None
HasStatus(p, s) == Known(p) /\ approvals[p].status = s

\* pack_type is read from the pack directory: without it a pack is no rule pack.
IsRule(p) == p \in RulePacks /\ content[p] # None
RuleOk(p) == IsRule(p) => Known(p) /\ approvals[p].ruleApproved

-----------------------------------------------------------------------------
(* Operator calls, each one section under the lock.                        *)

ApiIdle == call[ApiThread] = Idle

\* _compute_pack_hashes: the cached map while its entry lives.
CachedHashes(p) == IF hashCache[p] # None THEN hashCache[p] ELSE content[p]

\* approve(): any status, blocked included.
Approve(p, ok) ==
  LET h == CachedHashes(p) IN
  /\ Known(p)
  /\ content[p] # None
  /\ Update(p, [approvals[p] EXCEPT !.status = "approved", !.hashes = h,
                                    !.versions = @ \cup {h}, !.mixed = FALSE], ok)
  /\ hashCache' = [hashCache EXCEPT ![p] = IF ok THEN None ELSE h]
  /\ sanctioned' = [sanctioned EXCEPT ![p] = @ \cup {h}]

ApiApprove(p, ok) ==
  /\ ApiIdle
  /\ Approve(p, ok)
  /\ UNCHANGED <<files, scans, call>>

\* What approve_rule records.
Ruling(p, ok) ==
  LET h == approvals[p].hashes IN
  /\ Update(p, [approvals[p] EXCEPT !.ruleApproved = TRUE,
                                    !.versions = @ \cup ({h} \ {None})], ok)
  /\ UNCHANGED <<files, scans, call, hashCache, sanctioned>>

\* Mutant: the status is not looked at.
ApproveRuleAnyStatus(p, ok) ==
  /\ ApiIdle
  /\ Known(p)
  /\ IsRule(p)
  /\ Ruling(p, ok)

\* Mutant: the record is not saved.
ApproveRuleUnsaved(p, ok) ==
  /\ ApiIdle
  /\ HasStatus(p, "approved")
  /\ IsRule(p)
  /\ ok
  /\ approvals' = [approvals EXCEPT ![p].ruleApproved = TRUE]
  /\ UNCHANGED <<grantFile, lagging, files, scans, call, hashCache, sanctioned>>

ApproveRule(p, ok) ==
  /\ ApiIdle
  /\ HasStatus(p, "approved")
  /\ IsRule(p)
  /\ Ruling(p, ok)

Reject(p, ok) ==
  /\ ApiIdle
  /\ Known(p)
  /\ Update(p, [approvals[p] EXCEPT !.status = "blocked"], ok)
  /\ Invalidate(p, ok)
  /\ UNCHANGED <<files, scans, call, sanctioned>>

\* A scan between reading the hashes of p's record and reading its status.
Serialising(t, p) == call[t].pc \in {"scanFields", "scanStatus"} /\ call[t].pack = p

\* What a scan has when it reads the history and the rule approval now, and what
\* it has when it reads the status now.
WithFields(t, p) == [snapshot[t] EXCEPT !.versions = approvals[p].versions,
                                        !.ruleApproved = approvals[p].ruleApproved]
WithStatus(rec, p) ==
  LET approved == approvals[p].status = "approved" IN
  [rec EXCEPT !.status = approvals[p].status,
              !.mixed = approved /\ rec.hashes \notin sanctioned[p]]

\* remove_approval, the step of uninstalling that concerns the manager.  A scan
\* keeps the record it is reading, which nobody changes any more.
Remove(p) ==
  LET readers == {t \in Threads : Serialising(t, p)} IN
  /\ ApiIdle
  /\ Known(p)
  /\ approvals' = [approvals EXCEPT ![p] = None]
  /\ grantFile' = [grantFile EXCEPT ![p] = None]
  /\ lagging' = lagging \ {p}
  /\ snapshot' = [t \in Threads |->
       IF t \notin readers THEN snapshot[t]
       ELSE IF call[t].pc = "scanFields" THEN WithStatus(WithFields(t, p), p)
       ELSE WithStatus(snapshot[t], p)]
  /\ call' = [t \in Threads |-> IF t \in readers THEN [call[t] EXCEPT !.pc = "scanWrite"]
                                                 ELSE call[t]]
  /\ UNCHANGED <<files, pending, hashCache, sanctioned>>

\* A verification of p that has seen status approved and not yet the hashes.
Overtaken(p) ==
  [t \in Threads |-> IF call[t].pc = "stored" /\ call[t].pack = p
                       THEN [call[t] EXCEPT !.updated = TRUE] ELSE call[t]]

ApplyUpdate(p, h, ok) ==
  /\ ApiIdle
  /\ Known(p)
  /\ \/ /\ approvals[p].hashes = h
        /\ ok
        /\ UNCHANGED <<approvals, grantFile, lagging, call>>
     \/ /\ approvals[p].hashes # h
        /\ Update(p, [approvals[p] EXCEPT !.status = "modified", !.hashes = h,
                                          !.versions = @ \cup {h}, !.mixed = FALSE], ok)
        /\ call' = Overtaken(p)
  /\ Invalidate(p, ok)
  /\ UNCHANGED <<files, scans, sanctioned>>

-----------------------------------------------------------------------------
(* rollback_to_version: pick a version, compare the files, commit.         *)

Goto(t, pc) == call' = [call EXCEPT ![t].pc = pc]
Return(t)   == call' = [call EXCEPT ![t] = Idle]

RollbackBegin(p, h) ==
  /\ ApiIdle
  /\ Known(p)
  /\ h \in approvals[p].versions
  /\ call' = [call EXCEPT ![ApiThread] = [Idle EXCEPT !.pc = "rollback", !.pack = p,
                                                      !.stored = h]]
  /\ UNCHANGED <<approvals, grantFile, files, scans, hashCache, lagging, sanctioned>>

\* Mutant: the version is committed whatever the files are.
RollbackUnchecked(t) ==
  /\ call[t].pc = "rollback"
  /\ Goto(t, "commit")
  /\ UNCHANGED <<approvals, grantFile, files, scans, hashCache, lagging, sanctioned>>

RollbackCompare(t) ==
  /\ call[t].pc = "rollback"
  /\ IF content[call[t].pack] = call[t].stored THEN Goto(t, "commit") ELSE Return(t)
  /\ UNCHANGED <<approvals, grantFile, files, scans, hashCache, lagging, sanctioned>>

RollbackCommit(t, ok) ==
  LET p == call[t].pack
      h == call[t].stored IN
  /\ call[t].pc = "commit"
  /\ Return(t)
  /\ \/ /\ ~Known(p)
        /\ ok
        /\ UNCHANGED <<approvals, grantFile, hashCache, lagging, sanctioned>>
     \/ /\ Known(p)
        /\ Update(p, [approvals[p] EXCEPT !.status = "approved", !.hashes = h,
                                          !.versions = @ \cup {h}, !.mixed = FALSE], ok)
        /\ Invalidate(p, ok)
        /\ sanctioned' = [sanctioned EXCEPT ![p] = @ \cup {h}]
  /\ UNCHANGED <<files, scans>>

-----------------------------------------------------------------------------
(* scan_packs: records for new packs under the lock, their saves outside   *)
(* it.  The loop takes the lock once per pack; since an operation on a     *)
(* pack that has no record yet does nothing, the insertions are one step.  *)

ScanBegin(t) ==
  LET new == {p \in Packs : content[p] # None /\ ~Known(p)} IN
  /\ call[t] = Idle
  /\ new # {}
  /\ approvals' = [p \in Packs |-> IF p \in new THEN NewRecord("installed") ELSE approvals[p]]
  /\ pending' = [pending EXCEPT ![t] = new]
  /\ Goto(t, "scan")
  /\ UNCHANGED <<grantFile, files, snapshot, hashCache, lagging, sanctioned>>

\* The record is fetched under the lock and serialised after it, field by field:
\* asdict copies the hashes first, then the history, then the rule approval, and
\* to_dict sets the status last.  The assignments of a decision run under the
\* lock and are one step; a scan that reads the hashes between them and the entry
\* of the history lacks that entry, which nothing but a rollback looks at.
ScanRead(t, p) ==
  LET rest == pending[t] \ {p} IN
  /\ call[t].pc = "scan"
  /\ p \in pending[t]
  /\ pending' = [pending EXCEPT ![t] = rest]
  /\ IF Known(p)
       THEN /\ snapshot' = [snapshot EXCEPT ![t] = [NewRecord("installed") EXCEPT
                                                      !.hashes = approvals[p].hashes]]
            /\ call' = [call EXCEPT ![t].pc = "scanFields", ![t].pack = p]
       ELSE /\ IF rest = {} THEN Return(t) ELSE UNCHANGED call
            /\ UNCHANGED snapshot
  /\ UNCHANGED <<approvals, grantFile, files, hashCache, lagging, sanctioned>>

ScanFields(t) ==
  /\ call[t].pc = "scanFields"
  /\ snapshot' = [snapshot EXCEPT ![t] = WithFields(t, call[t].pack)]
  /\ Goto(t, "scanStatus")
  /\ UNCHANGED <<approvals, grantFile, files, pending, hashCache, lagging, sanctioned>>

ScanStatus(t) ==
  LET p == call[t].pack IN
  /\ call[t].pc = "scanStatus"
  /\ snapshot' = [snapshot EXCEPT ![t] = WithStatus(snapshot[t], p)]
  /\ Goto(t, "scanWrite")
  /\ UNCHANGED <<approvals, grantFile, files, pending, hashCache, lagging, sanctioned>>

\* A failed write ends the scan: the packs after it stay unsaved.
ScanWrite(t, ok) ==
  LET p == call[t].pack IN
  /\ call[t].pc = "scanWrite"
  /\ snapshot' = [snapshot EXCEPT ![t] = None]
  /\ IF ok
       THEN /\ grantFile' = [grantFile EXCEPT ![p] = snapshot[t]]
            /\ lagging' = IF snapshot[t] = approvals[p] THEN lagging \ {p}
                                                        ELSE lagging \cup {p}
            /\ IF pending[t] = {} THEN Return(t)
                                  ELSE call' = [call EXCEPT ![t].pc = "scan", ![t].pack = None]
            /\ UNCHANGED pending
       ELSE /\ MayFail
            /\ \E f \in {grantFile[p], Unreadable} : grantFile' = [grantFile EXCEPT ![p] = f]
            /\ lagging' = lagging \cup {p} \cup pending[t]
            /\ pending' = [pending EXCEPT ![t] = {}]
            /\ Return(t)
  /\ UNCHANGED <<approvals, files, hashCache, sanctioned>>

-----------------------------------------------------------------------------
(* Verification before code of a pack runs.                                *)

\* The status, read under the lock.  A component phase in development mode
\* goes on to approve a pack that is neither approved nor blocked.  The API's
\* get_approved_pack_ids is taken to run on a kernel thread as well.
VerifyBegin(t, p, m) ==
  /\ call[t] = Idle
  /\ t \in KernelThreads
  /\ \E next \in {"stored", "autoApprove"} :
       /\ IF next = "stored"
            THEN HasStatus(p, "approved")
            ELSE /\ DevMode /\ m = "component"
                 /\ HasStatus(p, "installed") \/ HasStatus(p, "modified")
       /\ call' = [call EXCEPT ![t] = [Idle EXCEPT !.pc = next, !.pack = p, !.mode = m]]
  /\ UNCHANGED <<approvals, grantFile, files, scans, hashCache, lagging, sanctioned>>

\* auto_approve_if_dev calls approve() on the strength of the status read before.
AutoApprove(t, ok) ==
  LET p == call[t].pack IN
  /\ call[t].pc = "autoApprove"
  /\ \/ /\ Approve(p, ok)
        /\ IF ok THEN Goto(t, "stored") ELSE Return(t)
     \/ /\ ~Known(p) \/ content[p] = None
        /\ ok
        /\ Return(t)
        /\ UNCHANGED <<approvals, grantFile, hashCache, lagging, sanctioned>>
  /\ UNCHANGED <<files, scans>>

\* A mismatch: the flow loaders, the component phase and the scan handler mark
\* the pack modified, the executors and get_approved_pack_ids only refuse it.
Refuse(t) ==
  \/ call' = [call EXCEPT ![t] = [Idle EXCEPT !.pc = "mark", !.pack = call[t].pack]]
  \/ call[t].mode # "component" /\ Return(t)

\* The recorded hashes, copied under the lock.
TakeStored(t) ==
  LET p == call[t].pack IN
  /\ call[t].pc = "stored"
  /\ IF Known(p) /\ approvals[p].hashes # None
       THEN call' = [call EXCEPT ![t].pc = "compute", ![t].stored = approvals[p].hashes,
                                     ![t].updated = @ \/ approvals[p].mixed]
       ELSE Refuse(t)
  /\ UNCHANGED <<approvals, grantFile, files, scans, hashCache, lagging, sanctioned>>

\* verify_hash accepts equal maps; verify_hash_detailed, for a component phase,
\* lets changes outside the critical paths pass.
Accepts(m, stored, seen) ==
  \/ seen = stored
  \/ m = "component" /\ <<stored, seen>> \in BlocksOnly

AfterMatch(m) == CASE m = "fresh"     -> "run"
                   [] m = "component" -> "rule"
                   [] OTHER           -> "idle"

\* Mutant: whatever was computed is accepted.
ConcludeUnchecked(t, h) ==
  IF AfterMatch(call[t].mode) = "idle"
    THEN Return(t)
    ELSE call' = [call EXCEPT ![t].pc = AfterMatch(call[t].mode), ![t].seen = h]

Conclude(t, h) ==
  LET c == call[t] IN
  IF Accepts(c.mode, c.stored, h)
    THEN IF AfterMatch(c.mode) = "idle"
           THEN Return(t)
           ELSE call' = [call EXCEPT ![t].pc = AfterMatch(c.mode), ![t].seen = h]
    ELSE Refuse(t)

\* The current hashes, outside the lock: from the files when nothing is cached
\* or the caller asked for no cache.
Compute(t) ==
  LET p == call[t].pack IN
  /\ call[t].pc = "compute"
  /\ \/ /\ content[p] = None
        /\ Refuse(t)
     \/ /\ content[p] # None
        /\ call[t].mode = "fresh"
        /\ Conclude(t, content[p])
     \/ /\ content[p] # None
        /\ call[t].mode # "fresh"
        /\ hashCache[p] # None
        /\ Conclude(t, hashCache[p])
     \/ /\ content[p] # None
        /\ call[t].mode # "fresh"
        /\ hashCache[p] = None
        /\ call' = [call EXCEPT ![t].pc = "fill", ![t].seen = content[p]]
  /\ UNCHANGED <<approvals, grantFile, files, scans, hashCache, lagging, sanctioned>>

\* The computed map enters the cache after the files were read.
Fill(t) ==
  /\ call[t].pc = "fill"
  /\ hashCache' = [hashCache EXCEPT ![call[t].pack] = call[t].seen]
  /\ Conclude(t, call[t].seen)
  /\ UNCHANGED <<approvals, grantFile, files, scans, lagging, sanctioned>>

\* is_rule_approved, asked by the component phase.
RuleCheck(t) ==
  /\ call[t].pc = "rule"
  /\ IF RuleOk(call[t].pack) THEN Goto(t, "run") ELSE Return(t)
  /\ UNCHANGED <<approvals, grantFile, files, scans, hashCache, lagging, sanctioned>>

\* The flow is loaded or the component's code runs.
Run(t) ==
  /\ call[t].pc = "run"
  /\ Return(t)
  /\ UNCHANGED <<approvals, grantFile, files, scans, hashCache, lagging, sanctioned>>

\* mark_modified, whatever the status is by now.
Mark(t, ok) ==
  LET p == call[t].pack IN
  /\ call[t].pc = "mark"
  /\ Return(t)
  /\ \/ /\ Known(p)
        /\ Update(p, [approvals[p] EXCEPT !.status = "modified"], ok)
     \/ /\ ~Known(p)
        /\ ok
        /\ UNCHANGED <<approvals, grantFile, lagging>>
  /\ UNCHANGED <<files, scans, hashCache, sanctioned>>

-----------------------------------------------------------------------------
(* The pack directory: the applier replaces it outside the manager's lock, *)
(* people and tools edit it at any time.                                   *)

SetContent(p, c) ==
  /\ content' = [content EXCEPT ![p] = c]
  /\ onDisk' = [onDisk EXCEPT ![p] = @ \cup ({c} \ {None})]

\* _apply_single_pack: backup and rmtree of an existing directory ...
ApplyRemove(p) ==
  /\ ApiIdle
  /\ SetContent(p, None)
  /\ call' = [call EXCEPT ![ApiThread] = [Idle EXCEPT !.pc = "applyCopy", !.pack = p]]
  /\ UNCHANGED <<approvals, grantFile, scans, hashCache, lagging, sanctioned>>

\* ... copytree, then mark_modified; a failed copy leaves part of the tree and
\* returns without marking the pack.
ApplyCopy(t, c, ok) ==
  /\ call[t].pc = "applyCopy"
  /\ IF ok
       THEN /\ content[call[t].pack] = None
            /\ c # None
            /\ Goto(t, "mark")
       ELSE Return(t)
  /\ SetContent(call[t].pack, c)
  /\ UNCHANGED <<approvals, grantFile, scans, hashCache, lagging, sanctioned>>

EditPack(p, c) ==
  /\ c # content[p]
  /\ \A t \in Threads : call[t].pc = "applyCopy" => call[t].pack # p
  /\ SetContent(p, c)
  /\ UNCHANGED <<approvals, grantFile, scans, call, hashCache, lagging, sanctioned>>

CacheExpire(p) ==
  /\ hashCache[p] # None
  /\ hashCache' = [hashCache EXCEPT ![p] = None]
  /\ UNCHANGED <<approvals, grantFile, files, scans, call, lagging, sanctioned>>

Tamper(p) ==
  /\ grantFile[p] \in Record
  /\ MayFail
  /\ grantFile' = [grantFile EXCEPT ![p] = Tampered]
  /\ lagging' = lagging \cup {p}
  /\ UNCHANGED <<approvals, files, scans, call, hashCache, sanctioned>>

\* The process dies at any point; initialize() reads the grant files again.
Restart ==
  /\ approvals' = [p \in Packs |-> Load(grantFile[p])]
  /\ hashCache' = [p \in Packs |-> None]
  /\ call' = [t \in Threads |-> Idle]
  /\ pending' = [t \in Threads |-> {}]
  /\ snapshot' = [t \in Threads |-> None]
  /\ lagging' = {}
  /\ UNCHANGED <<grantFile, files, sanctioned>>

-----------------------------------------------------------------------------
Operator(p) ==
  \/ \E ok \in BOOLEAN : ApiApprove(p, ok) \/ ApproveRule(p, ok) \/ Reject(p, ok)
  \/ Remove(p)
  \/ \E h \in Contents : \/ RollbackBegin(p, h)
                         \/ \E ok \in BOOLEAN : ApplyUpdate(p, h, ok)
  \/ ApplyRemove(p)

Environment(p) ==
  \/ \E c \in Contents \cup {None} : EditPack(p, c)
  \/ CacheExpire(p)
  \/ Tamper(p)

Thread(t) ==
  \/ ScanBegin(t)
  \/ ScanFields(t) \/ ScanStatus(t)
  \/ \E p \in Packs : ScanRead(t, p) \/ \E m \in Mode : m # "none" /\ VerifyBegin(t, p, m)
  \/ \E ok \in BOOLEAN : \/ ScanWrite(t, ok) \/ AutoApprove(t, ok)
                         \/ RollbackCommit(t, ok) \/ Mark(t, ok)
  \/ \E c \in Contents \cup {None}, ok \in BOOLEAN : ApplyCopy(t, c, ok)
  \/ RollbackCompare(t) \/ TakeStored(t) \/ Compute(t) \/ Fill(t)
  \/ RuleCheck(t) \/ Run(t)

Next ==
  \/ \E p \in Packs : Operator(p) \/ Environment(p)
  \/ \E t \in Threads : Thread(t)
  \/ Restart

Spec == Init /\ [][Next]_vars
-----------------------------------------------------------------------------
(* Properties.                                                             *)

ScanPC == {"scanFields", "scanStatus", "scanWrite"}

GrantFile == Record \cup {None, Unreadable, Tampered}

\* Every variable stays within its type.
TypeOK ==
  /\ approvals \in [Packs -> Record \cup {None}]
  /\ grantFile \in [Packs -> GrantFile]
  /\ content \in [Packs -> Contents \cup {None}]
  /\ hashCache \in [Packs -> Contents \cup {None}]
  /\ call \in [Threads -> Call]
  /\ pending \in [Threads -> SUBSET Packs]
  /\ snapshot \in [Threads -> Record \cup {None}]
  /\ lagging \in SUBSET Packs
  /\ onDisk \in [Packs -> SUBSET Contents]
  /\ sanctioned \in [Packs -> SUBSET Contents]

ApprovalBacked(p, rec) ==
  rec \in Record /\ rec.status = "approved" =>
    rec.mixed \/ rec.hashes \in sanctioned[p] \cap onDisk[p]

RuleBacked(p, rec) == rec \in Record /\ rec.ruleApproved => sanctioned[p] \cap onDisk[p] # {}

\* A record that says "approved" - in memory, in a grant file that a restart
\* would load, or in a scan's hands - carries hashes that an approve or a
\* rollback recorded and that the pack directory really held at some time:
\* neither a stale cache entry nor a rollback to a version brought in by
\* apply_update can approve a tree that was never there.  The one way round it
\* is a scan that reads the hashes before a decision and the status after it.
ApprovedHashesBacked ==
  /\ \A p \in Packs : ApprovalBacked(p, approvals[p]) /\ ApprovalBacked(p, grantFile[p])
  /\ \A t \in Threads : call[t].pc = "scanWrite" => ApprovalBacked(call[t].pack, snapshot[t])

\* A rule approval - in memory, in a file or in a scan's hands - was given to a
\* pack of which an approve or a rollback had recorded a tree that was there,
\* also after restarts, removals, saves that overtook each other and scans that
\* read a record while it changes.
RuleApprovalBacked ==
  /\ \A p \in Packs : RuleBacked(p, approvals[p]) /\ RuleBacked(p, grantFile[p])
  /\ \A t \in Threads : call[t].pc \in ScanPC => RuleBacked(call[t].pack, snapshot[t])

Unsaved(p) ==
  \E t \in Threads : p \in pending[t] \/ (call[t].pc \in ScanPC /\ call[t].pack = p)

\* What a restart would load is what the manager holds in memory, except for a
\* pack whose scan has not saved yet, one whose save failed or whose file was
\* touched from outside, and one whose file a scan's late write overtook: no
\* decision is lost in any other way.
GrantFileCurrent ==
  \A p \in Packs : p \in lagging \/ Unsaved(p) \/ approvals[p] = Load(grantFile[p])

\* Code that is about to run was accepted against hashes that an approve or a
\* rollback recorded, unless an apply_update replaced the recorded hashes after
\* the verification had read status "approved", or the record is one that a scan
\* mixed up.
RunBacked ==
  \A t \in Threads : call[t].pc = "run" =>
    /\ Accepts(call[t].mode, call[t].stored, call[t].seen)
    /\ call[t].updated \/ call[t].stored \in sanctioned[call[t].pack]

\* auto_approve_if_dev: "a pack in status BLOCKED is not approved automatically".
AutoApproveSparesBlocked ==
  [][\A t \in KernelThreads :
       call[t].pc = "autoApprove" /\ call'[t].pc = "stored" =>
         ~HasStatus(call[t].pack, "blocked")]_vars

\* approve() called by the API records the hashes of the files that are there.
ApproveRecordsCurrentTree ==
  [][\A p \in Packs : (\E ok \in BOOLEAN : ApiApprove(p, ok)) =>
       approvals'[p].hashes = content[p]]_vars
=============================================================================
