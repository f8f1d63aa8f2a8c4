---------------------------- MODULE SecretsStore ----------------------------
(***************************************************************************)
(* Secrets at rest (secrets_store.py): one file each, replaced atomically  *)
(* and encrypted with a key that is made at its first use; files in plain  *)
(* text, which older versions left, are read and encrypted if the policy   *)
(* lets them.  Every method holds the lock.                                *)
(***************************************************************************)
EXTENDS Integers

CONSTANTS
    Names,         \* keys of secrets
    Texts,         \* their values
    MaxKeys,       \* bound: encryption keys made
    MaxSecretFaults \* bound: writes that fail, key files that cannot be read

VARIABLES
    policy,        \* RUMI_SECRETS_ALLOW_PLAINTEXT, "auto" with the security mode
    vault,         \* [Names -> Entry], the files
    keyFile,       \* number of the key in .secrets_key, or NoKey
    keyUsed,       \* the key in memory, or NoKey
    keysMade,
    marker,        \* .migration_complete is there
    promised,      \* history: [Names -> what was last set, deleted or read]
    keyLost,       \* history: a key was not saved or not read
    secretFaults

secretVars == <<policy, vault, keyFile, keyUsed, keysMade, marker, promised, keyLost, secretFaults>>

NoKey == 0
Nothing == "nothing"         \* no value: absent, deleted or not to be read
Unknown == "unknown"
Entry == [is: {"absent", "deleted", "plain", "cipher"}, text: Texts \cup {Nothing}, key: 0..MaxKeys]
Absent == [is |-> "absent", text |-> Nothing, key |-> NoKey]
Tombstone == [is |-> "deleted", text |-> Nothing, key |-> NoKey]
Plain(v) == [is |-> "plain", text |-> v, key |-> NoKey]
Cipher(v, k) == [is |-> "cipher", text |-> v, key |-> k]

\* What the code and its use give of the constants.
SecretConstants ==
    /\ {Nothing, Unknown} \cap Texts = {}
    /\ MaxKeys \in Nat /\ MaxSecretFaults \in Nat

SecretTypeOK ==
    /\ policy \in {"true", "false", "auto strict", "auto permissive"}
    /\ vault \in [Names -> Entry]
    /\ keyFile \in 0..keysMade
    /\ keyUsed \in 0..keysMade
    /\ keysMade \in 0..MaxKeys
    /\ marker \in BOOLEAN
    /\ promised \in [Names -> Texts \cup {Nothing, Unknown}]
    /\ keyLost \in BOOLEAN
    /\ secretFaults \in 0..MaxSecretFaults

SecretInit ==
    /\ policy \in {"true", "false", "auto strict", "auto permissive"}
    /\ vault = [n \in Names |-> Absent]
    /\ keyFile = NoKey
    /\ keyUsed = NoKey
    /\ keysMade = 0
    /\ marker = FALSE
    /\ promised = [n \in Names |-> Unknown]
    /\ keyLost = FALSE
    /\ secretFaults = 0

SecretFault == secretFaults < MaxSecretFaults /\ secretFaults' = secretFaults + 1
SecretFine == UNCHANGED secretFaults

\* A key file that cannot be read is replaced, one that cannot be written is
\* done without: neither stops the store.
NewKey(saved, lost) ==
    /\ keysMade < MaxKeys
    /\ keysMade' = keysMade + 1
    /\ keyUsed' = keysMade'
    /\ keyFile' = IF saved THEN keysMade' ELSE keyFile
    /\ keyLost' = (keyLost \/ lost)

\* Mutant: the file is not looked at first.
KeyReadyAnew ==
    \/ keyUsed # NoKey /\ UNCHANGED <<keyUsed, keyFile, keysMade, keyLost>> /\ SecretFine
    \/ keyUsed = NoKey /\ NewKey(TRUE, FALSE) /\ SecretFine

\* _ensure_initialized: the key of this process, that of the file, or a new one.
KeyReady ==
    \/ keyUsed # NoKey /\ UNCHANGED <<keyUsed, keyFile, keysMade, keyLost>> /\ SecretFine
    \/ keyUsed = NoKey /\ keyFile # NoKey /\ keyUsed' = keyFile /\ UNCHANGED <<keyFile, keysMade, keyLost>> /\ SecretFine
    \/ keyUsed = NoKey /\ keyFile = NoKey /\ NewKey(TRUE, FALSE) /\ SecretFine
    \/ keyUsed = NoKey /\ NewKey(keyFile # NoKey, TRUE) /\ SecretFault

SetSecret(n, v) ==
    /\ KeyReady
    /\ vault' = [vault EXCEPT ![n] = Cipher(v, keyUsed')]
    /\ promised' = [promised EXCEPT ![n] = v]
    /\ UNCHANGED <<policy, marker>>

\* Reported as failed: what was there before is still there.
SetFails(n) ==
    /\ keyUsed # NoKey
    /\ SecretFault
    /\ UNCHANGED <<policy, vault, keyFile, keyUsed, keysMade, marker, promised, keyLost>>

DeleteSecret(n) ==
    /\ vault[n].is # "absent"
    /\ vault' = [vault EXCEPT ![n] = Tombstone]
    /\ promised' = [promised EXCEPT ![n] = Nothing]
    /\ UNCHANGED <<policy, keyFile, keyUsed, keysMade, marker, keyLost, secretFaults>>

\* A file of an older version, or made by hand.
PutPlain(n, v) ==
    /\ vault' = [vault EXCEPT ![n] = Plain(v)]
    /\ promised' = [promised EXCEPT ![n] = Unknown]
    /\ UNCHANGED <<policy, keyFile, keyUsed, keysMade, marker, keyLost, secretFaults>>

PlaintextAllowed ==
    \/ policy = "true"
    \/ policy = "auto permissive" /\ ~marker

AllEncrypted(files) == \A n \in Names : files[n].is # "plain"
AutoPolicy == policy \in {"auto strict", "auto permissive"}

\* _read_value of an encrypted secret.
ReadCipher(n) ==
    /\ vault[n].is = "cipher"
    /\ KeyReady
    /\ promised' = [promised EXCEPT ![n] = IF vault[n].key = keyUsed' THEN vault[n].text ELSE @]
    /\ UNCHANGED <<policy, vault, marker>>

\* _read_value of one in plain text: it is encrypted on the way, and once none
\* is left the marker ends the reading of plain text for good.
ReadPlain(n) ==
    /\ vault[n].is = "plain"
    /\ PlaintextAllowed
    /\ promised' = [promised EXCEPT ![n] = vault[n].text]
    /\ \/ /\ KeyReady
          /\ vault' = [vault EXCEPT ![n] = Cipher(vault[n].text, keyUsed')]
          /\ marker' = (marker \/ (AutoPolicy /\ AllEncrypted(vault')))
       \/ /\ keyUsed # NoKey
          /\ SecretFault
          /\ UNCHANGED <<vault, marker, keyFile, keyUsed, keysMade, keyLost>>
    /\ UNCHANGED policy

RestartSecrets ==
    /\ keyUsed' = NoKey
    /\ marker' = (marker \/ (AutoPolicy /\ AllEncrypted(vault)))
    /\ UNCHANGED <<policy, vault, keyFile, keysMade, promised, keyLost, secretFaults>>

SecretNext ==
    \/ \E n \in Names :
          \/ \E v \in Texts : SetSecret(n, v) \/ PutPlain(n, v)
          \/ SetFails(n)
          \/ DeleteSecret(n)
          \/ ReadCipher(n)
          \/ ReadPlain(n)
    \/ RestartSecrets

SecretSpec == SecretInit /\ [][SecretNext]_secretVars

\* What a read of the secret gives now.
Readable(n) ==
    CASE vault[n].is = "cipher" -> IF vault[n].key = (IF keyUsed = NoKey THEN keyFile ELSE keyUsed) THEN vault[n].text ELSE Nothing
      [] vault[n].is = "plain" -> IF PlaintextAllowed THEN vault[n].text ELSE Nothing
      [] OTHER -> Nothing

\* A secret that was set or read is read the same until it is set or deleted,
\* across migrations, failing writes and restarts, unless the encryption key
\* itself was lost; a deleted one is never read again.
SecretsKept == \A n \in Names :
    /\ promised[n] \in Texts /\ ~keyLost => Readable(n) = promised[n]
    /\ promised[n] = Nothing => Readable(n) = Nothing
=============================================================================
