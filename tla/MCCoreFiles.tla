---------------------------- MODULE MCCoreFiles ----------------------------
(***************************************************************************)
(* What core_runtime installs, trusts and keeps in files, for TLC: an      *)
(* instance of each component.  As in MCCoreServices the run chooses one,  *)
(* its focus, and lets that one take its steps from each of its initial    *)
(* states.                                                                 *)
(***************************************************************************)
EXTENDS InstallJournal, PipInstaller, LibExecutor, SecretsStore, UnitExecution, SharedDict, HmacKeys,
        PermissionTables, AuditLog, TLC

VARIABLE focus                           \* the component that runs

\* A directory, one in it, and one in that.
MCPaths == {<<1>>, <<1, 1>>, <<1, 1, 1>>}

\* A script for the host and a program, of different content.
MCUnit(k, h, c) == [there |-> TRUE, kind |-> k, host |-> h, code |-> c]
MCOffered == {MCUnit("python", TRUE, "a"), MCUnit("binary", TRUE, "b")}

\* Two packs whose ids have the same file name.
MCFileName == ("a" :> "f") @@ ("b" :> "f")

\* The proofs about these components start from what is assumed here.
ASSUME Instances ==
    /\ JournalConstants /\ PipConstants /\ LibConstants /\ SecretConstants /\ UnitConstants
    /\ DictConstants /\ KeyConstants /\ TabConstants /\ AuditConstants

(***************************************************************************)
(* The run.                                                                *)
(***************************************************************************)
installVars == <<journalVars, pipVars, libVars, unitVars>>
tableVars == <<dictVars, tabVars, auditVars>>

\* Where a component has several initial states, it has one of them only while
\* another one is in focus.
Init ==
    /\ focus \in {"journal", "pip", "lib", "secrets", "unit", "dict", "hmac", "tables", "audit"}
    /\ PipInit /\ DictInit /\ KeyInit /\ TabInit /\ AuditInit
    /\ UnitInit /\ (focus # "unit" => autoReload)
    /\ SecretInit /\ (focus # "secrets" => policy = "false")
    /\ JournalInit /\ (focus # "journal" => allowed = {} /\ protected = {})
    /\ LibInit /\ (focus # "lib" => libs = [p \in LibPacks |-> [install |-> 0, update |-> 0]])

InInstalls(rest) == UNCHANGED <<focus, secretVars, keyVars, tableVars, rest>>
InSecrets == UNCHANGED <<focus, installVars, keyVars, tableVars>>
InKeys == UNCHANGED <<focus, installVars, secretVars, tableVars>>
InTables(rest) == UNCHANGED <<focus, installVars, secretVars, keyVars, rest>>

Next ==
    \/ focus = "journal" /\ JournalNext /\ InInstalls(<<pipVars, libVars, unitVars>>)
    \/ focus = "pip" /\ PipNext /\ InInstalls(<<journalVars, libVars, unitVars>>)
    \/ focus = "lib" /\ LibNext /\ InInstalls(<<journalVars, pipVars, unitVars>>)
    \/ focus = "unit" /\ UnitNext /\ InInstalls(<<journalVars, pipVars, libVars>>)
    \/ focus = "secrets" /\ SecretNext /\ InSecrets
    \/ focus = "hmac" /\ KeyNext /\ InKeys
    \/ focus = "dict" /\ DictNext /\ InTables(<<tabVars, auditVars>>)
    \/ focus = "tables" /\ TabNext /\ InTables(<<dictVars, auditVars>>)
    \/ focus = "audit" /\ AuditNext /\ InTables(<<dictVars, tabVars>>)

vars == <<focus, installVars, secretVars, keyVars, tableVars>>
Spec == Init /\ [][Next]_vars

(***************************************************************************)
(* Properties, by the theme they are about; each component's module states *)
(* its own and says what code it is about.                                 *)
(***************************************************************************)
\* The state of each component has the shape its module declares.
FilesTypeOK ==
    /\ JournalTypeOK /\ PipTypeOK /\ LibTypeOK /\ UnitTypeOK /\ SecretTypeOK /\ KeyTypeOK
    /\ DictTypeOK /\ TabTypeOK /\ AuditTypeOK

\* What is installed was allowed, and once, and what is removed was recorded: roots
\* survive (install_journal.py), blocks of pip candidates (pip_installer.py), libs
\* are installed once (lib_executor.py), units run vetted (unit_executor.py).
InstallsSound == RootsSurvive /\ PipBlockSurvives /\ InstallsOnce /\ UnitRunsVetted

\* What was kept in a file, and reported, is what is read from it later, through
\* failing writes, damaged files and restarts: secrets (secrets_store.py), signing
\* keys (hmac_key_manager.py), grants (secrets_grant_manager.py and the like) and
\* rules (shared_dict/journal.py).
RecordsKept == SecretsKept /\ KeysHonoured /\ GrantsAsTold /\ DictSound
=============================================================================
