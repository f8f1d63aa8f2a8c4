------------------------ MODULE CapabilityInstaller ------------------------
(***************************************************************************)
(* The life cycle of capability handler candidates:                        *)
(* core_runtime/capability_installer.py with the trust store of            *)
(* core_runtime/capability_trust_store.py.                                 *)
(*                                                                         *)
(* Every method of CapabilityInstaller runs under one RLock, so op is the  *)
(* method that holds it.  A method is several actions where files outside  *)
(* the lock's protection are read or written: the packs' directories may   *)
(* change, a write may fail, and the process may die in between.           *)
(*                                                                         *)
(* A handler (its handler.json and the code it names) is one value of      *)
(* Contents; two contents have two SHA-256 sums.                           *)
(***************************************************************************)
EXTENDS Integers

CONSTANTS
  Sources,    \* candidate directories, <pack>/share/capability_handlers/<slug>
  Slugs,      \* the directories handlers are copied to are named by slug
  Contents,   \* the handlers a directory can hold
  Handlers,   \* handler ids
  SlugOf,     \* the slug of a source
  HandlerOf,  \* the handler_id in a handler's handler.json
  Threshold,  \* reject_threshold
  MaxFaults,  \* bound: how many failing writes and restarts are looked at
  None,       \* no such file, no entry
  Torn        \* a file that was not written to its end

ASSUME InstallerAssumption ==
  /\ SlugOf \in [Sources -> Slugs]
  /\ HandlerOf \in [Contents -> Handlers]
  /\ Threshold \in Nat \ {0}
  /\ MaxFaults \in Nat
  /\ None \notin Contents
  /\ Torn \notin Contents \cup {None}

\* A candidate_key: the pack, the slug, the handler_id and the SHA-256.
Keys == Sources \X Contents
Source(k) == k[1]
Content(k) == k[2]
Dest(k) == SlugOf[k[1]]
Handler(k) == HandlerOf[k[2]]

ASSUME NoKey == None \notin Keys

\* An IndexItem.  Only whether the threshold is reached matters of reject_count,
\* which is capped there; "none" stands for no item.
Status == {"none", "pending", "installed", "rejected", "blocked", "failed"}
Item == {i \in [status : Status, rejects : 0..Threshold] :
           i.status = "blocked" => i.rejects = Threshold}
NoItem == [status |-> "none", rejects |-> 0]
NewItem == [status |-> "pending", rejects |-> 0]

PC == {"idle", "scan", "trust", "recheck", "place", "copyCode", "finish",
       "saveReject", "unblockItem"}
Op == [pc : PC, key : Keys \cup {None}, todo : SUBSET Sources, created : BOOLEAN]
Idle == [pc |-> "idle", key |-> None, todo |-> {}, created |-> FALSE]
On(pc, k) == [pc |-> pc, key |-> k, todo |-> {}, created |-> FALSE]
Scanning(sources, created) ==
  [pc |-> "scan", key |-> None, todo |-> sources, created |-> created]

VARIABLES
  source,        \* what each candidate directory holds
  index,         \* _index_items
  indexFile,     \* index.json, replaced atomically
  blocked,       \* the keys of _blocked
  blockedFile,   \* blocked.json, replaced atomically
  trust,         \* _trusted of the trust store
  trustLoaded,   \* _loaded of the trust store
  trustFile,     \* trusted_handlers.json, written in place
  trustIntact,   \* whether trusted_handlers.json can be read
  dest,          \* user_data/capabilities/handlers/<slug>
  ready,         \* _initialized of the capability executor
  op,            \* the method that holds the lock
  faults,        \* how many writes failed and restarts happened
  asked,         \* history: the keys an operator asked to approve
  told           \* history: the keys whose blocking was reported, not unblocked since

vars == <<source, index, indexFile, blocked, blockedFile, trust, trustLoaded, trustFile,
          trustIntact, dest, ready, op, faults, asked, told>>

requests == <<index, indexFile, blocked, blockedFile>>
trustStore == <<trust, trustLoaded, trustFile, trustIntact>>
history == <<asked, told>>

NoTrust == [h \in Handlers |-> None]

EmptyDest == [json |-> None, code |-> None]

\* Mutants: whatever is at the destination is replaced; the code is not compared.
AnyDest(there) == TRUE
SameId(there, k) == there.json \in Contents /\ HandlerOf[there.json] = Handler(k)

\* The destination directory.  A candidate is already there if the handler_id in
\* handler.json and the SHA-256 of the code agree.
FreeDest(there) == there = EmptyDest
SameHandler(there, k) ==
  /\ there.json \in Contents
  /\ HandlerOf[there.json] = Handler(k)
  /\ there.code = Content(k)

Init ==
  /\ source \in [Sources -> Contents \cup {None}]
  /\ index = [k \in Keys |-> NoItem]
  /\ indexFile = index
  /\ blocked = {}
  /\ blockedFile = {}
  /\ trust = NoTrust
  /\ trustLoaded = FALSE
  /\ trustFile = NoTrust
  /\ trustIntact = TRUE
  /\ dest = [g \in Slugs |-> EmptyDest]
  /\ ready = FALSE
  /\ op = Idle
  /\ faults = 0
  /\ asked = {}
  /\ told = {}

-----------------------------------------------------------------------------
(* Writes.  A failing write raises, which ends the method.                 *)

Works == UNCHANGED faults
Fails == faults < MaxFaults /\ faults' = faults + 1

\* _save_index writes a temporary file and replaces index.json.
IndexSaved == indexFile' = index'
SaveIndex == (Works /\ IndexSaved) \/ (Fails /\ UNCHANGED indexFile)

\* _save_blocked likewise.
BlockedSaved == blockedFile' = blocked'

\* _mark_failed, with which an approval ends; after a write that failed the save
\* of the index may fail as well.
ItemFails(k) ==
  /\ index' = [index EXCEPT ![k].status = "failed"]
  /\ op' = Idle
  /\ UNCHANGED <<blocked, blockedFile>>

\* Mutant: the approval goes on.
CarryOn(k) == Fails /\ op' = On("recheck", k) /\ UNCHANGED requests

MarkFailed(k) == ItemFails(k) /\ SaveIndex
MarkFailedAfterFault(k) == ItemFails(k) /\ Fails /\ (IndexSaved \/ UNCHANGED indexFile)

\* Mutant: the entry holds what the directory holds by now.
WithCurrent(listed, k) == [listed EXCEPT ![Handler(k)] = source[Source(k)]]

\* add_trust replaces the handler's entry.
WithEntry(listed, k) == [listed EXCEPT ![Handler(k)] = Content(k)]

\* CapabilityTrustStore.load.
LoadTrust ==
  /\ trust' = IF trustIntact THEN trustFile ELSE NoTrust
  /\ trustLoaded' = trustIntact
  /\ UNCHANGED <<trustFile, trustIntact>>

TrustFileKept == UNCHANGED <<trustFile, trustIntact>>
TrustFileTorn == trustFile' = NoTrust /\ trustIntact' = FALSE

\* Mutant: one rejection early.
ReachedEarly(rejects) == rejects + 1 >= Threshold
ReachesThreshold(rejects) == rejects >= Threshold

Capped(n) == IF n > Threshold THEN Threshold ELSE n

-----------------------------------------------------------------------------
(* scan_candidates.                                                        *)

ScanBegin ==
  /\ op.pc = "idle"
  /\ op' = Scanning(Sources, FALSE)
  /\ Works
  /\ UNCHANGED <<source, requests, trustStore, dest, ready, history>>

\* Nothing to notify: the candidate is blocked or has an item, a rejected one
\* whose cooldown is not over included.  Time is not modelled: a cooldown may be
\* over at any scan.
ScanSkip(k) ==
  /\ k \in blocked \/ index[k].status # "none"
  /\ op' = Scanning(op.todo \ {Source(k)}, op.created)
  /\ Works
  /\ UNCHANGED <<index, indexFile>>

\* Mutant: a failed candidate is notified again as well.
RetriedOrRejected(item) == item.status \in {"rejected", "failed"}

MayReturn(item) == item.status = "rejected"

\* The cooldown is over: pending again, saved at once.
ScanRepend(k) ==
  /\ k \notin blocked
  /\ MayReturn(index[k])
  /\ index' = [index EXCEPT ![k].status = "pending"]
  /\ \/ /\ Works
        /\ IndexSaved
        /\ op' = Scanning(op.todo \ {Source(k)}, TRUE)
     \/ /\ Fails
        /\ UNCHANGED indexFile
        /\ op' = Idle

ScanNew(k) ==
  /\ k \notin blocked
  /\ index[k].status = "none"
  /\ index' = [index EXCEPT ![k] = NewItem]
  /\ op' = Scanning(op.todo \ {Source(k)}, TRUE)
  /\ Works
  /\ UNCHANGED indexFile

\* No handler.json, or one that cannot be used.
ScanError(s) ==
  /\ source[s] = None
  /\ op' = Scanning(op.todo \ {s}, op.created)
  /\ Works
  /\ UNCHANGED <<index, indexFile>>

\* One candidate directory of the walk.
ScanSource(s) ==
  /\ op.pc = "scan"
  /\ s \in op.todo
  /\ \/ ScanError(s)
     \/ \E c \in Contents :
          /\ source[s] = c
          /\ ScanSkip(<<s, c>>) \/ ScanRepend(<<s, c>>) \/ ScanNew(<<s, c>>)
  /\ UNCHANGED <<source, blocked, blockedFile, trustStore, dest, ready, history>>

ScanEnd ==
  /\ op.pc = "scan"
  /\ op.todo = {}
  /\ UNCHANGED index
  /\ IF op.created THEN SaveIndex ELSE Works /\ UNCHANGED indexFile
  /\ op' = Idle
  /\ UNCHANGED <<source, blocked, blockedFile, trustStore, dest, ready, history>>

-----------------------------------------------------------------------------
(* approve_and_install.                                                    *)

\* The checks against the candidate as it was scanned.
ApproveBegin(k) ==
  /\ op.pc = "idle"
  /\ index[k].status \in {"pending", "rejected", "failed"}
  /\ asked' = asked \cup {k}
  /\ IF source[Source(k)] = Content(k)
     THEN op' = On("trust", k) /\ Works /\ UNCHANGED requests
     ELSE MarkFailed(k)
  /\ UNCHANGED <<source, trustStore, dest, ready, told>>

\* add_trust, which writes the file in place.  A list that could not be loaded is
\* replaced by this entry alone.
ApproveTrust ==
  LET listed == IF trustLoaded THEN trust ELSE IF trustIntact THEN trustFile ELSE NoTrust IN
  /\ op.pc = "trust"
  /\ trust' = WithEntry(listed, op.key)
  /\ trustLoaded' = (trustLoaded \/ trustIntact)
  /\ \/ /\ Works
        /\ trustFile' = trust'
        /\ trustIntact' = TRUE
        /\ op' = On("recheck", op.key)
        /\ UNCHANGED requests
     \/ /\ TrustFileKept \/ TrustFileTorn
        /\ MarkFailedAfterFault(op.key)
  /\ UNCHANGED <<source, dest, ready, history>>

\* The second comparison of the SHA-256, before the copy.
ApproveRecheck ==
  /\ op.pc = "recheck"
  /\ IF source[Source(op.key)] = Content(op.key)
     THEN op' = On("place", op.key) /\ Works /\ UNCHANGED requests
     ELSE MarkFailed(op.key)
  /\ UNCHANGED <<source, trustStore, dest, ready, history>>

\* _copy_handler up to the copy of handler.json: what is at the destination is
\* kept if it is this candidate, and never replaced.
ApprovePlace ==
  LET k == op.key
      there == dest[Dest(k)] IN
  /\ op.pc = "place"
  /\ \/ /\ source[Source(k)] # None
        /\ SameHandler(there, k)
        /\ op' = On("finish", k)
        /\ Works
        /\ UNCHANGED <<requests, dest>>
     \/ /\ source[Source(k)] # None
        /\ FreeDest(there)
        /\ dest' = [dest EXCEPT ![Dest(k)].json = source[Source(k)]]
        /\ op' = On("copyCode", k)
        /\ Works
        /\ UNCHANGED requests
     \/ /\ source[Source(k)] # None
        /\ FreeDest(there)
        /\ \E partial \in {None, Torn} : dest' = [dest EXCEPT ![Dest(k)].json = partial]
        /\ MarkFailedAfterFault(k)
     \/ /\ source[Source(k)] = None \/ ~(SameHandler(there, k) \/ FreeDest(there))
        /\ MarkFailed(k)
        /\ UNCHANGED dest
  /\ UNCHANGED <<source, trustStore, ready, history>>

ApproveCopyCode ==
  LET k == op.key IN
  /\ op.pc = "copyCode"
  /\ \/ /\ source[Source(k)] # None
        /\ dest' = [dest EXCEPT ![Dest(k)].code = source[Source(k)]]
        /\ op' = On("finish", k)
        /\ Works
        /\ UNCHANGED requests
     \/ /\ source[Source(k)] = None
        /\ MarkFailed(k)
        /\ UNCHANGED dest
     \/ /\ \E partial \in {None, Torn} : dest' = [dest EXCEPT ![Dest(k)].code = partial]
        /\ MarkFailedAfterFault(k)
  /\ UNCHANGED <<source, trustStore, ready, history>>

\* The executor is initialised again, which loads the trust list, and the item
\* is marked.
ApproveFinish ==
  /\ op.pc = "finish"
  /\ LoadTrust
  /\ ready' = TRUE
  /\ index' = [index EXCEPT ![op.key].status = "installed"]
  /\ SaveIndex
  /\ op' = Idle
  /\ UNCHANGED <<source, blocked, blockedFile, dest, history>>

-----------------------------------------------------------------------------
(* reject and unblock.                                                     *)

\* reject up to the save of the index.
Reject(k) ==
  LET rejects == Capped(index[k].rejects + 1) IN
  /\ op.pc = "idle"
  /\ index[k].status \in {"pending", "rejected", "failed"}
  /\ IF ReachesThreshold(rejects)
     THEN /\ index' = [index EXCEPT ![k] = [status |-> "blocked", rejects |-> rejects]]
          /\ blocked' = blocked \cup {k}
          /\ \/ Works /\ BlockedSaved /\ op' = On("saveReject", k)
             \/ Fails /\ UNCHANGED blockedFile /\ op' = Idle
     ELSE /\ index' = [index EXCEPT ![k] = [status |-> "rejected", rejects |-> rejects]]
          /\ op' = On("saveReject", k)
          /\ Works
          /\ UNCHANGED <<blocked, blockedFile>>
  /\ UNCHANGED <<source, indexFile, trustStore, dest, ready, history>>

\* Mutant: an error of the save is not reported.
SaveRejectQuietly ==
  /\ op.pc = "saveReject"
  /\ UNCHANGED index
  /\ SaveIndex
  /\ told' = IF index[op.key].status = "blocked" THEN told \cup {op.key} ELSE told
  /\ op' = Idle
  /\ UNCHANGED <<source, blocked, blockedFile, trustStore, dest, ready, asked>>

\* The save of the index; with it the caller learns what became of the candidate.
SaveReject ==
  /\ op.pc = "saveReject"
  /\ UNCHANGED index
  /\ \/ /\ Works
        /\ IndexSaved
        /\ told' = IF index[op.key].status = "blocked" THEN told \cup {op.key} ELSE told
     \/ /\ Fails
        /\ UNCHANGED <<indexFile, told>>
  /\ op' = Idle
  /\ UNCHANGED <<source, blocked, blockedFile, trustStore, dest, ready, asked>>

\* unblock up to the item: the key leaves the block list, if it is there.
UnblockBegin(k) ==
  /\ op.pc = "idle"
  /\ k \in blocked \/ index[k].status = "blocked"
  /\ blocked' = blocked \ {k}
  /\ \/ Works /\ BlockedSaved /\ op' = On("unblockItem", k)
     \/ Fails /\ k \in blocked /\ UNCHANGED blockedFile /\ op' = Idle
  /\ told' = told \ {k}
  /\ UNCHANGED <<source, index, indexFile, trustStore, dest, ready, asked>>

\* The rest of unblock.  The rejections stay counted.
UnblockItem ==
  /\ op.pc = "unblockItem"
  /\ IF index[op.key].status = "none"
     THEN Works /\ UNCHANGED <<index, indexFile>>
     ELSE /\ index' = [index EXCEPT ![op.key].status = "rejected"]
          /\ SaveIndex
  /\ op' = Idle
  /\ UNCHANGED <<source, blocked, blockedFile, trustStore, dest, ready, history>>

-----------------------------------------------------------------------------
(* The surroundings.                                                       *)

\* A pack is installed, updated or removed.
Edit(s) ==
  /\ source' \in {[source EXCEPT ![s] = c] : c \in (Contents \cup {None}) \ {source[s]}}
  /\ UNCHANGED <<requests, trustStore, dest, ready, op, faults, history>>

\* CapabilityExecutor.initialize at the first execution of a capability.
ExecutorStart ==
  /\ ~ready
  /\ ready' = TRUE
  /\ LoadTrust
  /\ UNCHANGED <<source, requests, dest, op, faults, history>>

\* The process ends at any point, possibly within a write, and starts again.
Restart ==
  /\ Fails
  /\ index' = indexFile
  /\ blocked' = blockedFile
  /\ trust' = NoTrust
  /\ trustLoaded' = FALSE
  /\ ready' = FALSE
  /\ op' = Idle
  /\ \/ TrustFileKept
     \/ op.pc = "trust" /\ TrustFileTorn
  /\ \/ UNCHANGED dest
     \/ /\ op.pc = "place"
        /\ FreeDest(dest[Dest(op.key)])
        /\ dest' = [dest EXCEPT ![Dest(op.key)].json = Torn]
     \/ /\ op.pc = "copyCode"
        /\ dest' = [dest EXCEPT ![Dest(op.key)].code = Torn]
  /\ UNCHANGED <<source, indexFile, blockedFile, history>>

Next ==
  \/ ScanBegin
  \/ \E s \in Sources : ScanSource(s)
  \/ ScanEnd
  \/ \E k \in Keys : ApproveBegin(k) \/ Reject(k) \/ UnblockBegin(k)
  \/ ApproveTrust \/ ApproveRecheck \/ ApprovePlace \/ ApproveCopyCode \/ ApproveFinish
  \/ SaveReject \/ UnblockItem
  \/ \E s \in Sources : Edit(s)
  \/ ExecutorStart
  \/ Restart

Spec == Init /\ [][Next]_vars
-----------------------------------------------------------------------------
(* Properties.                                                             *)

File == Contents \cup {None, Torn}

\* The state has its types, and an item is blocked only after Threshold
\* rejections.
TypeOK ==
  /\ source \in [Sources -> Contents \cup {None}]
  /\ index \in [Keys -> Item]
  /\ indexFile \in [Keys -> Item]
  /\ blocked \subseteq Keys
  /\ blockedFile \subseteq Keys
  /\ trust \in [Handlers -> Contents \cup {None}]
  /\ trustLoaded \in BOOLEAN
  /\ trustFile \in [Handlers -> Contents \cup {None}]
  /\ trustIntact \in BOOLEAN
  /\ dest \in [Slugs -> [json : File, code : File]]
  /\ ready \in BOOLEAN
  /\ op \in Op
  /\ faults \in 0..MaxFaults
  /\ op.pc \notin {"idle", "scan"} => op.key \in Keys
  /\ asked \subseteq Keys
  /\ told \subseteq Keys

\* Once reject has reported a candidate blocked, it is blocked in memory and in
\* both files until unblock is called, across scans, failing saves and restarts:
\* "blocked ... until unblock".
BlockedStaysBlocked ==
  \A k \in told :
    /\ index[k].status = "blocked"
    /\ indexFile[k].status = "blocked"
    /\ k \in blocked \cap blockedFile

\* Every content in the trust list, in memory or in the file, is that of a
\* candidate an operator asked to approve, whatever the pack holds by then.
TrustWasAsked ==
  \A h \in Handlers : \A c \in {trust[h], trustFile[h]} \ {None} :
    HandlerOf[c] = h /\ \E s \in Sources : <<s, c>> \in asked

\* A candidate is marked installed only when its trust entry is in the readable
\* file and loaded: add_trust comes first, and its failure ends the approval.  (A
\* restart, after which the executor is not ready, only reads the index.)
InstalledWithTrust ==
  [][\A k \in Keys :
       index[k].status # "installed" /\ index'[k].status = "installed" /\ ready'
         => trustIntact' /\ trustLoaded' /\ trustFile'[Handler(k)] = Content(k)
              /\ trust' = trustFile']_vars

\* What an installed candidate was copied to is there in full, in spite of
\* crashes and failing writes during this and earlier attempts.
InstalledIsComplete ==
  \A k \in Keys : "installed" \in {index[k].status, indexFile[k].status}
    => dest[Dest(k)].json \in Contents /\ dest[Dest(k)].code \in Contents

\* "No automatic overwriting": what was copied in full stays as it is.
NeverOverwritten ==
  [][\A g \in Slugs :
       dest[g].json \in Contents /\ dest[g].code \in Contents => dest'[g] = dest[g]]_vars

\* "installed: approved, trust registered and copied": between operations an
\* installed candidate is the trusted content of its handler.
InstalledIsTrusted ==
  op = Idle =>
    \A k \in Keys : index[k].status = "installed" => trustFile[Handler(k)] = Content(k)

-----------------------------------------------------------------------------
(* The promise about candidates, CandidateLifecycle, with the steps between *)
(* the files, the checks and the copies hidden.                            *)

Approving == {"trust", "recheck", "place", "copyCode", "finish"}

Lifecycle == INSTANCE CandidateLifecycle WITH
  Candidates <- Keys,
  Nobody <- None,
  status <- [k \in Keys |-> index[k].status],
  saved <- [k \in Keys |-> indexFile[k].status],
  approving <- IF op.pc \in Approving THEN op.key ELSE None

\* Whatever is edited, fails or crashes in between, a candidate moves from one state
\* to another only as CandidateLifecycle says: it is installed only at the end of
\* an approval begun while it awaited a decision, leaves the block only by
\* unblock, and a restart brings back what was saved.
MovesAsPromised == Lifecycle!Spec
=============================================================================
