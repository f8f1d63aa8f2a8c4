-------------------------- MODULE PermissionTables --------------------------
(***************************************************************************)
(* The tables of grants kept beside capabilities and network: secrets      *)
(* (secrets_grant_manager.py, a signed file per pack, written in place,    *)
(* failures ignored), shared stores (store_sharing_manager.py) and host    *)
(* privileges (host_privilege_manager.py; both one file, replaced, failures*)
(* raised after the change in memory), and PermissionManager, which keeps  *)
(* its permissions in memory only.                                         *)
(***************************************************************************)
EXTENDS Naturals

CONSTANTS
    TabPacks,
    Keys,            \* secret keys, shared stores, privileges, permissions
    FileName,        \* [TabPacks -> names]: "/" and ":" become "_" in a file name
    MaxTabFaults

VARIABLES
    granted,         \* [Tables -> SUBSET (TabPacks \X Keys)]: the tables in memory
    secretFile,      \* [file names -> [owner, keys]], NoFile for none or unreadable
    known,           \* packs that have a SecretGrant object, with keys or without
    tableFile,       \* [{"share", "host"} -> SUBSET (TabPacks \X Keys)]
    told,            \* history: what callers were told is granted
    ever,            \* history: the secrets each pack was ever granted
    unsure,          \* history: <<table, pack>> that a failed save or a shared file name touched
    tabFaults

tabVars == <<granted, secretFile, known, tableFile, told, ever, unsure, tabFaults>>

Tables == {"secret", "share", "host", "volatile"}
Replaced == {"share", "host"}
Pairs == TabPacks \X Keys
FileNames == {FileName[p] : p \in TabPacks}
NoFile == [owner |-> "none", keys |-> {}]

\* What is assumed of the constants: every pack has a file name, and no pack is
\* called as the owner of no file is.
TabConstants == FileName = [p \in TabPacks |-> FileName[p]] /\ "none" \notin TabPacks /\ MaxTabFaults \in Nat

TabTypeOK ==
    /\ granted \in [Tables -> SUBSET Pairs] /\ told \in [Tables -> SUBSET Pairs]
    /\ secretFile \in [FileNames -> [owner: TabPacks, keys: SUBSET Keys] \cup {NoFile}]
    /\ known \subseteq TabPacks /\ tableFile \in [Replaced -> SUBSET Pairs]
    /\ ever \subseteq Pairs /\ unsure \subseteq Tables \X TabPacks /\ tabFaults \in 0..MaxTabFaults

TabInit ==
    /\ granted = [t \in Tables |-> {}] /\ told = granted
    /\ secretFile = [f \in FileNames |-> NoFile]
    /\ known = {} /\ tableFile = [t \in Replaced |-> {}]
    /\ ever = {} /\ unsure = {} /\ tabFaults = 0

KeysOf(table, p) == {k \in Keys : <<p, k>> \in table}
Sharing(p) == {q \in TabPacks : FileName[q] = FileName[p] /\ q # p}

\* _save_grant: signing, open(.., "w") and json.dump; an error before the file is
\* opened leaves the old one, a later one an empty or half file.
SaveSecrets(p, content) ==
    \/ /\ secretFile' = [secretFile EXCEPT ![FileName[p]] = content]
       /\ unsure' = (unsure \cup {<<"secret", q>> : q \in Sharing(p)}) \ {<<"secret", p>>}
       /\ UNCHANGED tabFaults
    \/ /\ tabFaults < MaxTabFaults /\ tabFaults' = tabFaults + 1
       /\ \/ UNCHANGED secretFile
          \/ secretFile' = [secretFile EXCEPT ![FileName[p]] = NoFile]
       /\ unsure' = unsure \cup {<<"secret", q>> : q \in Sharing(p) \cup {p}}

\* _save: a temporary file replaces the old one, or the exception leaves it; a
\* later save that works writes every change there is in memory.
SaveTable(t, p) ==
    \/ /\ tableFile' = [tableFile EXCEPT ![t] = granted'[t]]
       /\ unsure' = {u \in unsure : u[1] # t} /\ told' = [told EXCEPT ![t] = granted'[t]]
       /\ UNCHANGED tabFaults
    \/ /\ tabFaults < MaxTabFaults /\ tabFaults' = tabFaults + 1
       /\ unsure' = unsure \cup {<<t, p>>} /\ UNCHANGED <<tableFile, told>>

Grant(t, p, k) == granted' = [granted EXCEPT ![t] = @ \cup {<<p, k>>}]
Revoke(t, p, ks) == granted' = [granted EXCEPT ![t] = @ \ ({p} \X ks)]

\* revoke and revoke_all do nothing for a pack that has no grant object.
GrantSecret(p, k) ==
    /\ Grant("secret", p, k) /\ told' = [told EXCEPT !["secret"] = granted'["secret"]]
    /\ SaveSecrets(p, [owner |-> p, keys |-> KeysOf(granted'["secret"], p)])
    /\ known' = known \cup {p} /\ ever' = ever \cup {<<p, k>>} /\ UNCHANGED tableFile

RevokeSecrets(p, ks) ==
    /\ p \in known
    /\ Revoke("secret", p, ks) /\ told' = [told EXCEPT !["secret"] = granted'["secret"]]
    /\ SaveSecrets(p, [owner |-> p, keys |-> KeysOf(granted'["secret"], p)])
    /\ UNCHANGED <<known, tableFile, ever>>

\* delete_grant removes the file of that name, whichever pack it is of; the error
\* of an unlink is raised with the grant gone from memory.
DeleteSecretGrant(p) ==
    /\ p \in known /\ known' = known \ {p}
    /\ Revoke("secret", p, Keys)
    /\ \/ /\ secretFile' = [secretFile EXCEPT ![FileName[p]] = NoFile]
          /\ told' = [told EXCEPT !["secret"] = granted'["secret"]]
          /\ unsure' = (unsure \cup {<<"secret", q>> : q \in Sharing(p)}) \ {<<"secret", p>>}
          /\ UNCHANGED tabFaults
       \/ /\ tabFaults < MaxTabFaults /\ tabFaults' = tabFaults + 1
          /\ unsure' = unsure \cup {<<"secret", p>>}
          /\ UNCHANGED <<secretFile, told>>
    /\ UNCHANGED <<tableFile, ever>>

GrantEntry(t, p, k) == Grant(t, p, k) /\ SaveTable(t, p) /\ UNCHANGED <<secretFile, known, ever>>
RevokeEntry(t, p, k) ==
    /\ t = "share" => <<p, k>> \in granted[t]
    /\ Revoke(t, p, {k}) /\ SaveTable(t, p) /\ UNCHANGED <<secretFile, known, ever>>

\* Uninstalling a pack revokes its privileges, none of its other grants.
UninstallPack(p) == Revoke("host", p, Keys) /\ SaveTable("host", p) /\ UNCHANGED <<secretFile, known, ever>>

SetPermission(p, k) ==
    /\ \/ Grant("volatile", p, k)
       \/ Revoke("volatile", p, {k})
    /\ told' = [told EXCEPT !["volatile"] = granted'["volatile"]]
    /\ UNCHANGED <<secretFile, known, tableFile, ever, unsure, tabFaults>>

\* Mutant: the file counts for every pack of its name.
LoadedByName == {e \in Pairs : e[2] \in secretFile[FileName[e[1]]].keys}

\* Only a file whose pack_id is that of the grant asked for counts.
LoadedSecrets ==
    {e \in Pairs : LET f == secretFile[FileName[e[1]]] IN f.owner = e[1] /\ e[2] \in f.keys}

\* A new process reads the files; permissions in memory are gone.
RestartTables ==
    /\ granted' = [t \in Tables |->
           CASE t = "secret" -> LoadedSecrets
             [] t \in Replaced -> tableFile[t]
             [] t = "volatile" -> {}]
    /\ known' = {p \in TabPacks : secretFile[FileName[p]].owner = p}
    /\ told' = [told EXCEPT !["volatile"] = {}]
    /\ UNCHANGED <<secretFile, tableFile, ever, unsure, tabFaults>>

TabNext ==
    \/ RestartTables
    \/ \E p \in TabPacks :
         \/ DeleteSecretGrant(p) \/ RevokeSecrets(p, Keys) \/ UninstallPack(p)
         \/ \E k \in Keys : \/ GrantSecret(p, k) \/ RevokeSecrets(p, {k}) \/ SetPermission(p, k)
                            \/ \E t \in Replaced : GrantEntry(t, p, k) \/ RevokeEntry(t, p, k)

TabSpec == TabInit /\ [][TabNext]_tabVars

\* What a caller was told stands, also after a restart, but for packs whose
\* save failed or whose file name another pack has written to.  Those may have
\* lost secrets, or after a restart have back what was revoked from them, but
\* they never have the secrets of the other pack.
GrantsAsTold ==
    /\ \A t \in Tables, p \in TabPacks : <<t, p>> \notin unsure => KeysOf(granted[t], p) = KeysOf(told[t], p)
    /\ granted["secret"] \subseteq ever
=============================================================================
