----------------------------- MODULE LibExecutor -----------------------------
(***************************************************************************)
(* LibExecutor (lib_executor.py): install.py and update.py of each pack,   *)
(* run at a start when the record of the last run does not match.  One     *)
(* record per pack, whatever was run last; its hash is taken after the     *)
(* run and compared with that of install.py.                               *)
(***************************************************************************)
EXTENDS Naturals, FiniteSets

CONSTANTS
    LibPacks,
    MaxContent,      \* bound: contents a lib file can have; 0 is no file
    MaxLibFaults     \* bound: saves that fail or are torn

\* What the code and its use give of the constants.
LibConstants == LibPacks # {} /\ MaxContent \in Nat /\ MaxLibFaults \in Nat

VARIABLES
    libs,            \* [LibPacks -> [install, update]], the files
    records,         \* _records: [LibPacks -> LibRecord]
    recordFile,      \* the records in the file
    todo,            \* packs process_all_packs has still to look at
    libRun,          \* the execution under way, [type |-> "none"] when there is none
    again,           \* history: packs whose install was repeated with nothing changed
    settled,         \* history: [LibPacks -> what ran last, while its files are as they were]
    libFaults

libVars == <<libs, records, recordFile, todo, libRun, again, settled, libFaults>>

Content == 0..MaxContent
LibRecord == [hash: Content, type: {"none", "install", "update"}]
NoRecord == [hash |-> 0, type |-> "none"]
Running == [pack: LibPacks, type: {"none", "install", "update"}]
NotRunning == [pack |-> CHOOSE p \in LibPacks : TRUE, type |-> "none"]

LibTypeOK ==
    /\ libs \in [LibPacks -> [install: Content, update: Content]]
    /\ records \in [LibPacks -> LibRecord] /\ recordFile \in [LibPacks -> LibRecord]
    /\ todo \subseteq LibPacks /\ again \subseteq LibPacks /\ libRun \in Running
    /\ settled \in [LibPacks -> {"none", "install", "update"}] /\ libFaults \in 0..MaxLibFaults

LibInit ==
    /\ libs \in [LibPacks -> [install: Content, update: Content]]
    /\ records = [p \in LibPacks |-> NoRecord] /\ recordFile = records
    /\ todo = {} /\ libRun = NotRunning /\ again = {} /\ libFaults = 0
    /\ settled = [p \in LibPacks |-> "none"]

\* check_pack: without a record, or when install.py is not what the record says.
NeedsInstall(p) ==
    /\ libs[p].install # 0
    /\ \/ records[p] = NoRecord
       \/ libs[p].install # records[p].hash /\ libs[p].update = 0
NeedsUpdate(p) ==
    /\ libs[p].install # 0 /\ libs[p].update # 0
    /\ records[p] # NoRecord /\ libs[p].install # records[p].hash
Needed(p) == IF NeedsInstall(p) THEN "install" ELSE IF NeedsUpdate(p) THEN "update" ELSE "none"

ProcessAll ==
    /\ todo = {} /\ libRun.type = "none" /\ todo' = LibPacks
    /\ UNCHANGED <<libs, records, recordFile, libRun, again, settled, libFaults>>

SkipLib(p) ==
    /\ p \in todo /\ libRun.type = "none" /\ Needed(p) = "none"
    /\ todo' = todo \ {p}
    /\ UNCHANGED <<libs, records, recordFile, libRun, again, settled, libFaults>>

\* Not approved, or modified: nothing is recorded, the next start tries again.
RefuseLib(p) ==
    /\ p \in todo /\ libRun.type = "none" /\ Needed(p) # "none"
    /\ todo' = todo \ {p}
    /\ UNCHANGED <<libs, records, recordFile, libRun, again, settled, libFaults>>

RunLib(p) ==
    /\ p \in todo /\ libRun.type = "none" /\ Needed(p) # "none"
    /\ todo' = todo \ {p}
    /\ libRun' = [pack |-> p, type |-> Needed(p)]
    /\ again' = IF settled[p] = "install" /\ Needed(p) = "install" THEN again \cup {p} ELSE again
    /\ settled' = [settled EXCEPT ![p] = Needed(p)]
    /\ UNCHANGED <<libs, records, recordFile, libFaults>>

\* Mutant: the record is kept in memory only.
RecordUnsaved ==
    /\ libRun.type # "none"
    /\ LET p == libRun.pack IN records' = [records EXCEPT ![p] = [hash |-> libs[p].install, type |-> libRun.type]]
    /\ libRun' = NotRunning
    /\ UNCHANGED <<libs, recordFile, todo, again, settled, libFaults>>

\* The record is written whether the run succeeded or failed.
RecordLib ==
    /\ libRun.type # "none"
    /\ LET p == libRun.pack IN
       records' = [records EXCEPT ![p] = [hash |-> IF libRun.type = "install" THEN libs[p].install ELSE libs[p].update,
                                          type |-> libRun.type]]
    /\ libRun' = NotRunning
    /\ \/ recordFile' = records' /\ UNCHANGED libFaults
       \/ /\ libFaults < MaxLibFaults /\ libFaults' = libFaults + 1
          /\ recordFile' \in {recordFile, [p \in LibPacks |-> NoRecord]}
    /\ UNCHANGED <<libs, todo, again, settled>>

ClearRecord(p) ==
    /\ records[p] # NoRecord /\ libRun.type = "none"
    /\ records' = [records EXCEPT ![p] = NoRecord] /\ recordFile' = records'
    /\ settled' = [settled EXCEPT ![p] = "none"]
    /\ UNCHANGED <<libs, todo, libRun, again, libFaults>>

ChangeLib(p) ==
    /\ libs' \in {[libs EXCEPT ![p] = l] : l \in [install: Content, update: Content]}
    /\ libs' # libs
    /\ settled' = [settled EXCEPT ![p] = "none"]
    /\ UNCHANGED <<records, recordFile, todo, libRun, again, libFaults>>

\* A run cut short leaves no record.
RestartLibs ==
    /\ records' = recordFile /\ todo' = {} /\ libRun' = NotRunning
    /\ settled' = IF libRun.type = "none" THEN settled ELSE [settled EXCEPT ![libRun.pack] = "none"]
    /\ UNCHANGED <<libs, recordFile, again, libFaults>>

LibNext ==
    \/ ProcessAll \/ RecordLib \/ RestartLibs
    \/ \E p \in LibPacks : SkipLib(p) \/ RefuseLib(p) \/ RunLib(p) \/ ClearRecord(p) \/ ChangeLib(p)

LibSpec == LibInit /\ [][LibNext]_libVars

\* An install that was run to its end, whatever its result, is not run again at
\* a later start while the files and the record are left alone and saves succeed.
InstallsOnce == libFaults = 0 => again = {}
=============================================================================
