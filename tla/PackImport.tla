----------------------------- MODULE PackImport -----------------------------
(***************************************************************************)
(* PackImporter and PackApplier (pack_importer.py, pack_applier.py): a     *)
(* source is copied to a staging directory, described by meta.json, and    *)
(* its packs are applied to ecosystem/ one by one: identity check, backup, *)
(* removal, copy.  A failure or a crash may come between any two steps.    *)
(* mark_modified, the last call for a pack, is modelled by PackApproval.   *)
(***************************************************************************)
EXTENDS Naturals, Sequences

CONSTANTS
    ImpPacks,
    Bundles,         \* sources: sequences of [pack, identity], one version of each pack
    Stagings,
    MaxSeconds, MaxImpFaults

VARIABLES
    staged,          \* [Stagings -> [state, bundle]]: "none", "partial", "complete" or "gone"
    ecosystem,       \* [ImpPacks -> contents, or Absent, or Broken]
    backups,         \* [ImpPacks -> [seconds -> contents or Absent]]
    job,             \* the apply under way: [todo, step]
    second,          \* the clock backups are named by
    impFaults,       \* crashes and failures so far
    complete         \* history: [ImpPacks -> contents that were complete in ecosystem/]

impVars == <<staged, ecosystem, backups, job, second, impFaults, complete>>

\* Contents of a pack directory: an identity and the staging they came from.
Content(i, s) == [identity |-> i, from |-> s]
Absent == Content("none", 0)
Broken == Content("none", 1)          \* a copy that ended before ecosystem.json
NoBundle == <<>>
NoJob == [todo |-> <<>>, staging |-> 0, step |-> "idle"]
Identities == UNION {{b[i].identity : i \in DOMAIN b} : b \in Bundles}
Contents == {Absent, Broken} \cup {Content(i, s) : i \in Identities, s \in Stagings}

\* A source has a pack at least, and a pack an identity (ecosystem.json).
ImpConstants ==
    /\ \A b \in Bundles : b \in Seq([pack : ImpPacks, identity : Identities]) /\ b # <<>>
    /\ "none" \notin Identities
    /\ MaxSeconds \in Nat /\ MaxImpFaults \in Nat

ImpTypeOK ==
    /\ staged \in [Stagings -> [state : {"none", "partial", "complete", "gone"}, bundle : Bundles \cup {NoBundle}]]
    /\ ecosystem \in [ImpPacks -> Contents]
    /\ backups \in [ImpPacks -> [0..MaxSeconds -> Contents]]
    /\ job \in [todo : Seq([pack : ImpPacks, identity : Identities]), staging : {0} \cup Stagings,
               step : {"idle", "check", "backup", "remove", "copy"}]
    /\ second \in 0..MaxSeconds /\ impFaults \in 0..MaxImpFaults
    /\ complete \in [ImpPacks -> SUBSET Contents]

ImpInit ==
    /\ staged = [s \in Stagings |-> [state |-> "none", bundle |-> NoBundle]]
    /\ ecosystem = [p \in ImpPacks |-> Absent]
    /\ backups = [p \in ImpPacks |-> [t \in 0..MaxSeconds |-> Absent]]
    /\ job = NoJob /\ second = 0 /\ impFaults = 0
    /\ complete = [p \in ImpPacks |-> {}]

Fails == impFaults < MaxImpFaults /\ impFaults' = impFaults + 1

\* import_pack makes a new staging id; a failure removes the directory, a crash
\* leaves it without meta.json.
ImportPack(s, b) ==
    /\ job = NoJob /\ staged[s].state = "none"
    /\ \/ /\ staged' = [staged EXCEPT ![s] = [state |-> "complete", bundle |-> b]]
          /\ UNCHANGED impFaults
       \/ Fails /\ staged' = [staged EXCEPT ![s] = [state |-> "partial", bundle |-> b]]
    /\ UNCHANGED <<ecosystem, backups, job, second, complete>>

ApplyPack(s) ==
    /\ job = NoJob /\ staged[s].state = "complete"
    /\ job' = [todo |-> staged[s].bundle, staging |-> s, step |-> "check"]
    /\ UNCHANGED <<staged, ecosystem, backups, second, impFaults, complete>>

P == Head(job.todo).pack
Identity == Head(job.todo).identity
At(step) == job.step = step
Become(step) == job' = [job EXCEPT !.step = step]
EndJob == IF Len(job.todo) = 1 THEN job' = NoJob
          ELSE job' = [job EXCEPT !.todo = Tail(@), !.step = "check"]

\* A pack of another identity is refused; an unreadable manifest refuses nothing.
CheckIdentity ==
    /\ At("check")
    /\ \/ ecosystem[P] = Absent /\ Become("copy")
       \/ ecosystem[P] # Absent /\ ecosystem[P].identity \in {Identity, "none"} /\ Become("backup")
       \/ ecosystem[P].identity \notin {Identity, "none"} /\ EndJob
    /\ UNCHANGED <<staged, ecosystem, backups, second, impFaults, complete>>

\* Mutant: it replaces a backup of the same second.
CreateBackupOver ==
    /\ At("backup") /\ Become("remove")
    /\ backups' = [backups EXCEPT ![P][second] = ecosystem[P]]
    /\ UNCHANGED <<staged, ecosystem, second, impFaults, complete>>

\* The backup is named by the second: copytree refuses a directory that exists.
CreateBackup ==
    /\ At("backup")
    /\ \/ /\ backups[P][second] = Absent /\ Become("remove")
          /\ backups' = [backups EXCEPT ![P][second] = ecosystem[P]]
       \/ backups[P][second] # Absent /\ job' = NoJob /\ UNCHANGED backups
    /\ UNCHANGED <<staged, ecosystem, second, impFaults, complete>>

RemoveOld ==
    /\ At("remove") /\ Become("copy")
    /\ ecosystem' = [ecosystem EXCEPT ![P] = Absent]
    /\ UNCHANGED <<staged, backups, second, impFaults, complete>>

CopyNew ==
    /\ At("copy") /\ EndJob
    /\ ecosystem' = [ecosystem EXCEPT ![P] = Content(Identity, job.staging)]
    /\ complete' = [complete EXCEPT ![P] = @ \cup {Content(Identity, job.staging)}]
    /\ UNCHANGED <<staged, backups, second, impFaults>>

\* An exception ends the whole apply, a crash ends the process; either may leave
\* half a backup, or half a copy.
Interrupted ==
    /\ job # NoJob /\ Fails /\ job' = NoJob
    /\ \/ UNCHANGED <<ecosystem, backups>>
       \/ /\ At("backup") /\ backups[P][second] = Absent /\ UNCHANGED ecosystem
          /\ backups' = [backups EXCEPT ![P][second] = Broken]
       \/ /\ job.step \in {"remove", "copy"} /\ UNCHANGED backups
          /\ ecosystem' = [ecosystem EXCEPT ![P] = Broken]
    /\ UNCHANGED <<staged, second, complete>>

CleanupStaging(s) ==
    /\ job = NoJob /\ staged[s].state \in {"partial", "complete"}
    /\ staged' = [staged EXCEPT ![s] = [state |-> "gone", bundle |-> NoBundle]]
    /\ UNCHANGED <<ecosystem, backups, job, second, impFaults, complete>>

NextSecond ==
    /\ second < MaxSeconds /\ second' = second + 1
    /\ UNCHANGED <<staged, ecosystem, backups, job, impFaults, complete>>

ImpNext ==
    \/ CheckIdentity \/ CreateBackup \/ RemoveOld \/ CopyNew \/ Interrupted \/ NextSecond
    \/ \E s \in Stagings : \/ ApplyPack(s) \/ CleanupStaging(s)
                           \/ \E b \in Bundles : ImportPack(s, b)

ImpSpec == ImpInit /\ [][ImpNext]_impVars

\* Whatever stood complete in ecosystem/ is still there or in a backup.
ContentsKept == \A p \in ImpPacks : \A c \in complete[p] :
    ecosystem[p] = c \/ \E t \in 0..MaxSeconds : backups[p][t] = c
=============================================================================
