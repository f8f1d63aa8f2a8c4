---------------------------- MODULE PipInstaller ----------------------------
(***************************************************************************)
(* Installing what a pack's requirements.lock names (pip_installer.py).    *)
(* The API server makes one call at a time; a scan may also come from the  *)
(* kernel while an approval builds outside the lock.  Both state files are *)
(* written in place.                                                       *)
(***************************************************************************)
EXTENDS Integers

CONSTANTS
    PipPacks,
    Locks,         \* contents of a requirements.lock; two have two SHA-256 sums
    BadLocks,      \* those with a line that is not NAME==VERSION
    RejectLimit,   \* REJECT_THRESHOLD
    MaxPipFaults   \* bound: writes that fail in a behaviour

VARIABLES
    lock,          \* [PipPacks -> what requirements.lock holds, or NoLock]
    item,          \* [PipKeys -> PipItem], _index
    itemFile,      \* index.json
    barred,        \* keys of _blocked
    barredFile,    \* blocked.json
    build,         \* the approval under way
    site,          \* [PipPacks -> locks whose packages site-packages holds]
    blockTold,     \* history: keys whose block was reported, not unblocked since
    pipFaults

pipVars == <<lock, item, itemFile, barred, barredFile, build, site, blockTold, pipFaults>>

NoLock == "no lock"
PipKeys == PipPacks \X Locks
PipItem == [status: {"none", "pending", "installed", "rejected", "blocked", "failed"}, rejects: 0..RejectLimit]
NoPipItem == [status |-> "none", rejects |-> 0]
NoItems == [k \in PipKeys |-> NoPipItem]
NoBuild == [pc |-> "idle", key |-> CHOOSE k \in PipKeys : TRUE]

\* One write fails at most.
PipConstants ==
    /\ PipPacks # {} /\ Locks # {} /\ NoLock \notin Locks
    /\ RejectLimit \in Nat /\ MaxPipFaults \in 0..1

PipTypeOK ==
    /\ lock \in [PipPacks -> Locks \cup {NoLock}]
    /\ item \in [PipKeys -> PipItem]
    /\ itemFile \in [PipKeys -> PipItem]
    /\ barred \subseteq PipKeys
    /\ barredFile \subseteq PipKeys
    /\ build \in [pc: {"idle", "check", "download", "install", "record"}, key: PipKeys]
    /\ site \in [PipPacks -> SUBSET Locks]
    /\ blockTold \subseteq PipKeys
    /\ pipFaults \in 0..MaxPipFaults

PipInit ==
    /\ lock = [p \in PipPacks |-> NoLock]
    /\ item = NoItems
    /\ itemFile = NoItems
    /\ barred = {}
    /\ barredFile = {}
    /\ build = NoBuild
    /\ site = [p \in PipPacks |-> {}]
    /\ blockTold = {}
    /\ pipFaults = 0

PipFault == pipFaults < MaxPipFaults /\ pipFaults' = pipFaults + 1

\* A write in place works, or fails before or after the file is cut; a file that
\* is not JSON to its end is read as an empty one.
ItemsSaved == itemFile' = item' /\ UNCHANGED pipFaults
ItemsLost == PipFault /\ itemFile' \in {itemFile, NoItems}
SaveItems == ItemsSaved \/ ItemsLost
BarredSaved == barredFile' = barred'
BarredLost == PipFault /\ barredFile' \in {barredFile, {}}

\* The pack's author edits, adds or removes the lock.
EditLock(p, l) ==
    /\ lock[p] # l
    /\ lock' = [lock EXCEPT ![p] = l]
    /\ UNCHANGED <<item, itemFile, barred, barredFile, build, site, blockTold, pipFaults>>

\* Mutant: the block list is not asked.
ScannableIfNew(k) == item[k].status \in {"none", "rejected", "failed"}

\* What a scan may put back to pending: a new candidate, one that failed, one
\* whose cool-down is over (at any scan); a blocked one is passed over.
Scannable(k) == k \notin barred /\ item[k].status \in {"none", "rejected", "failed"}

\* scan_candidates, one pack of its loop; an error goes to the next pack.
ScanPip(p) == LET k == <<p, lock[p]>> IN
    /\ lock[p] \in Locks \ BadLocks
    /\ Scannable(k)
    /\ item' = [item EXCEPT ![k].status = "pending"]
    /\ SaveItems
    /\ UNCHANGED <<lock, barred, barredFile, build, site, blockTold>>

(***************************************************************************)
(* approve_and_install.                                                    *)
(***************************************************************************)
PipFailed(k) ==
    /\ item' = [item EXCEPT ![k].status = "failed"]
    /\ build' = [build EXCEPT !.pc = "idle"]

\* Installed answers at once, blocked is refused; a pack that is not approved
\* fails the candidate.  A rejected one may be approved.
ApprovePip(k) ==
    /\ build.pc = "idle"
    /\ item[k].status \in {"pending", "rejected", "failed"}
    /\ \/ build' = [pc |-> "check", key |-> k] /\ UNCHANGED <<item, itemFile, pipFaults>>
       \/ PipFailed(k) /\ SaveItems
    /\ UNCHANGED <<lock, barred, barredFile, site, blockTold>>

\* The steps outside the lock: an index URL that is not https or a pack that is
\* gone, a lock that changed since the scan, a container that fails.
BuildStep(pc, next) ==
    /\ build.pc = pc
    /\ build' = [build EXCEPT !.pc = next]
    /\ UNCHANGED <<lock, item, itemFile, barred, barredFile, blockTold, pipFaults>>

CheckLock ==
    /\ lock[build.key[1]] = build.key[2]
    /\ BuildStep("check", "download")
    /\ UNCHANGED site

Download == BuildStep("download", "install") /\ UNCHANGED site

\* pip reads the lock again, and refuses what is not in the wheelhouse.
InstallPackages == LET p == build.key[1] IN
    /\ lock[p] \in Locks
    /\ BuildStep("install", "record")
    /\ site' = [site EXCEPT ![p] = @ \cup {lock[p]}]

FailBuild ==
    /\ build.pc \in {"check", "download", "install", "record"}
    /\ PipFailed(build.key)
    /\ SaveItems
    /\ UNCHANGED <<lock, barred, barredFile, site, blockTold>>

\* state.json is written and the candidate marked installed; an index that cannot
\* be written makes it a failed one, see FailBuild.
RecordInstall ==
    /\ build.pc = "record"
    /\ item' = [item EXCEPT ![build.key].status = "installed"]
    /\ build' = [build EXCEPT !.pc = "idle"]
    /\ ItemsSaved
    /\ UNCHANGED <<lock, barred, barredFile, site, blockTold>>

(***************************************************************************)
(* reject and unblock.                                                     *)
(***************************************************************************)
AtMost(n) == IF n > RejectLimit THEN RejectLimit ELSE n

\* Any candidate may be rejected, an installed one as well.  At the threshold
\* blocked.json is written before index.json; an error ends the call.
RejectPip(k) == LET n == AtMost(item[k].rejects + 1) IN
    /\ build.pc = "idle"
    /\ item[k].status # "none"
    /\ item' = [item EXCEPT ![k] = [status |-> IF n = RejectLimit THEN "blocked" ELSE "rejected", rejects |-> n]]
    /\ IF n = RejectLimit
       THEN /\ barred' = barred \cup {k}
            /\ \/ BarredSaved /\ ItemsSaved /\ blockTold' = blockTold \cup {k}
               \/ BarredSaved /\ ItemsLost /\ UNCHANGED blockTold
               \/ BarredLost /\ UNCHANGED <<itemFile, blockTold>>
       ELSE SaveItems /\ UNCHANGED <<barred, barredFile, blockTold>>
    /\ UNCHANGED <<lock, build, site>>

UnblockPip(k) ==
    /\ build.pc = "idle"
    /\ k \in barred \/ item[k].status = "blocked"
    /\ barred' = barred \ {k}
    /\ blockTold' = blockTold \ {k}
    /\ \/ /\ BarredSaved
          /\ IF item[k].status = "none"
             THEN UNCHANGED <<item, itemFile, pipFaults>>
             ELSE item' = [item EXCEPT ![k] = [status |-> "pending", rejects |-> 0]] /\ SaveItems
       \/ BarredLost /\ UNCHANGED <<item, itemFile>>
    /\ UNCHANGED <<lock, build, site>>

\* _load_state; what an approval had under way is forgotten.
RestartPip ==
    /\ item' = itemFile
    /\ barred' = barredFile
    /\ build' = [build EXCEPT !.pc = "idle"]
    /\ UNCHANGED <<lock, itemFile, barredFile, site, blockTold, pipFaults>>

PipNext ==
    \/ \E p \in PipPacks : ScanPip(p) \/ \E l \in Locks \cup {NoLock} : EditLock(p, l)
    \/ \E k \in PipKeys : ApprovePip(k) \/ RejectPip(k) \/ UnblockPip(k)
    \/ CheckLock
    \/ Download
    \/ InstallPackages
    \/ FailBuild
    \/ RecordInstall
    \/ RestartPip

PipSpec == PipInit /\ [][PipNext]_pipVars

\* A candidate whose block was reported is not built until it is unblocked: no
\* single failing write, whichever file it cuts and whatever restarts follow,
\* frees it.
PipBlockSurvives == build.pc # "idle" => build.key \notin blockTold
=============================================================================
