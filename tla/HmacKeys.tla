------------------------------ MODULE HmacKeys ------------------------------
(***************************************************************************)
(* HMACKeyManager (hmac_key_manager.py): the keys of the pack API, kept in *)
(* memory and in an encrypted file that each save replaces whole.  A       *)
(* rotation retires the active key, saves if that lets old keys expire,    *)
(* and saves again with the new one; the process may die in between.  It   *)
(* runs at a start with RUMI_HMAC_ROTATE, or when rotate() is called.      *)
(***************************************************************************)
EXTENDS Integers

CONSTANTS
    MaxHmacKeys,        \* bound: keys ever generated
    Grace,          \* the grace period in ticks
    MaxTime,        \* bound: ticks of a behaviour
    MaxKeyFaults    \* bound: failing reads and saves, and damaged files

VARIABLES
    time,
    keys,           \* the manager's list: set of [id, active, rotated]
    ringFile,        \* what the file holds; Unreadable when it cannot be read
    stage,          \* "off"; "loaded", to be rotated; "ready"; "rotating" or "starting" before the second save
    handedOut,      \* history: keys given out by get_active_key and rotate
    durable,        \* history: keys written to a file neither damaged since nor
                    \* replaced by a start that could not read or save
    retired,        \* history: [key -> time of its last retirement, or Never]
    keyFaults

keyVars == <<time, keys, ringFile, stage, handedOut, durable, retired, keyFaults>>

\* What is assumed of the constants.
KeyConstants == {MaxHmacKeys, Grace, MaxTime, MaxKeyFaults} \subseteq Nat

Never == -1
KeyIds == 1..MaxHmacKeys
HMACKey == [id: KeyIds, active: BOOLEAN, rotated: (0..MaxTime) \cup {Never}]
Unreadable == {[id |-> 0, active |-> FALSE, rotated |-> Never]}
Ids(ks) == {k.id : k \in ks}

KeyTypeOK ==
    /\ time \in 0..MaxTime
    /\ keys \subseteq HMACKey /\ \A j, k \in keys : j.id = k.id => j = k
    /\ ringFile = Unreadable \/ ringFile \subseteq HMACKey
    /\ stage \in {"off", "loaded", "ready", "rotating", "starting"}
    /\ handedOut \subseteq KeyIds /\ durable \subseteq KeyIds
    /\ retired \in [KeyIds -> (0..MaxTime) \cup {Never}]
    /\ keyFaults \in 0..MaxKeyFaults

KeyInit ==
    /\ time = 0 /\ stage = "off" /\ keyFaults = 0
    /\ keys = {} /\ ringFile = {} /\ handedOut = {} /\ durable = {}
    /\ retired = [i \in KeyIds |-> Never]

\* Mutant: an old key goes at once.
SurvivingActive(ks) == {k \in ks : k.active}

\* _cleanup_expired_keys_internal: what survives.
Surviving(ks) == {k \in ks : k.active \/ (k.rotated # Never /\ time - k.rotated < Grace)}
\* Keys are generated at random: a new one is none that was ever seen.
Fresh == {i \in KeyIds : i \notin handedOut \cup durable \cup Ids(keys)
                         /\ \A j \in KeyIds : j < i => j \in handedOut \cup durable \cup Ids(keys)}
NewHmacKey(i) == [id |-> i, active |-> TRUE, rotated |-> Never]
Save(ks) == ringFile' = ks /\ durable' = durable \cup Ids(ks)
NoSave == UNCHANGED <<ringFile, durable>>
KeyFault == keyFaults < MaxKeyFaults /\ keyFaults' = keyFaults + 1

InFile == IF ringFile = Unreadable THEN {} ELSE ringFile

\* _load_or_initialize with a file in order, expired keys left out and the rest
\* saved; with the file gone, unreadable or without an active key, a new key.
\* Reading and saving are in one try: when either fails, the list is a new key
\* alone, and saving that replaces the file.  (If this save fails too the start
\* ends with the file as it was.)
LoadKeys(next) ==
    /\ stage = "off"
    /\ LET left == Surviving(InFile) IN
       \/ /\ \E k \in left : k.active
          /\ keys' = left /\ Save(left) /\ UNCHANGED keyFaults
       \/ /\ \A k \in left : ~k.active
          /\ \E i \in Fresh : keys' = left \cup {NewHmacKey(i)}
          /\ Save(keys') /\ UNCHANGED keyFaults
       \/ /\ KeyFault
          /\ \E i \in Fresh : keys' = {NewHmacKey(i)} /\ durable' = {i}
          /\ ringFile' = keys'
    /\ stage' = next
    /\ UNCHANGED <<time, handedOut, retired>>

StartKeys == LoadKeys("ready")
StartWithRotation == LoadKeys("loaded")

\* rotate: the active key retired, what has expired dropped and saved.
Aged(k) == [id |-> k.id, active |-> FALSE, rotated |-> IF k.active THEN time ELSE k.rotated]
RetiredAt == [i \in KeyIds |-> IF \E k \in keys : k.id = i /\ k.active THEN time ELSE retired[i]]
Retire(from, rotating) ==
    LET old == {Aged(k) : k \in keys}
        left == Surviving(old) IN
    /\ stage = from /\ Fresh # {}
    /\ retired' = RetiredAt
    /\ \/ /\ IF left = old THEN NoSave ELSE Save(left)
          /\ stage' = rotating /\ keys' = left /\ UNCHANGED keyFaults
       \/ /\ left # old /\ KeyFault /\ NoSave
          /\ stage' = IF from = "ready" THEN "ready" ELSE "off"
          /\ keys' = IF from = "ready" THEN left ELSE {}
    /\ UNCHANGED <<time, handedOut>>

RotateKeys == Retire("ready", "rotating")
RotateAtStart == Retire("loaded", "starting")

\* ... and the new key added and saved; at a start it has still to be asked for.
AddKey ==
    /\ stage \in {"rotating", "starting"}
    /\ \E i \in Fresh :
          /\ keys' = keys \cup {NewHmacKey(i)}
          /\ handedOut' = IF stage = "rotating" THEN handedOut \cup {i} ELSE handedOut
    /\ Save(keys') /\ stage' = "ready"
    /\ UNCHANGED <<time, retired, keyFaults>>

\* A save that fails raises with the list already changed.  The manager is used
\* on as it is, unless it is being constructed.
AddKeyFails ==
    /\ stage \in {"rotating", "starting"} /\ KeyFault
    /\ \E i \in Fresh : keys' = IF stage = "rotating" THEN keys \cup {NewHmacKey(i)} ELSE {}
    /\ stage' = IF stage = "rotating" THEN "ready" ELSE "off"
    /\ NoSave /\ UNCHANGED <<time, handedOut, retired>>

\* get_active_key; verify_token accepts what is in the list.  After a rotation
\* that failed there may be no active key, and one is generated.
GetActiveKey ==
    /\ stage = "ready"
    /\ \/ /\ \E k \in keys : k.active /\ handedOut' = handedOut \cup {k.id}
          /\ UNCHANGED keys /\ NoSave
       \/ /\ \A k \in keys : ~k.active
          /\ \E i \in Fresh : keys' = keys \cup {NewHmacKey(i)} /\ handedOut' = handedOut \cup {i}
          /\ Save(keys')
    /\ UNCHANGED <<time, stage, retired, keyFaults>>

StopKeys ==
    /\ stage # "off" /\ stage' = "off" /\ keys' = {}
    /\ UNCHANGED <<time, ringFile, handedOut, durable, retired, keyFaults>>

DamageKeys ==
    /\ ringFile \notin {{}, Unreadable} /\ KeyFault
    /\ ringFile' = Unreadable /\ durable' = {}
    /\ UNCHANGED <<time, keys, stage, handedOut, retired>>

Pass ==
    /\ time < MaxTime /\ time' = time + 1
    /\ UNCHANGED <<keys, ringFile, stage, handedOut, durable, retired, keyFaults>>

KeyNext ==
    \/ StartKeys \/ StartWithRotation \/ RotateKeys \/ RotateAtStart \/ AddKey \/ AddKeyFails
    \/ GetActiveKey \/ StopKeys \/ DamageKeys \/ Pass

KeySpec == KeyInit /\ [][KeyNext]_keyVars

\* At most one key signs; and a key that was given out and has reached the file
\* is accepted until the grace period after its rotation has passed, whatever
\* starts, rotations and failing saves come in between.  A failing read or save at
\* a start is the exception, as damage is: all keys in force are dropped then.
InForce(i) == retired[i] = Never \/ time - retired[i] < Grace
KeysHonoured == stage = "ready" =>
    /\ \A j, k \in keys : j.active /\ k.active => j = k
    /\ \A i \in handedOut \cap durable : InForce(i) => i \in Ids(keys)
=============================================================================
