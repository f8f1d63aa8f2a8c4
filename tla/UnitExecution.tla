---------------------------- MODULE UnitExecution ----------------------------
(***************************************************************************)
(* Publishing and executing units (unit_registry.py, unit_executor.py)     *)
(* against the trust list (unit_trust_store.py).  The API server makes one *)
(* call at a time; the directories of a store and the trust file are       *)
(* edited by others at any time.  One unit id and version, which more than *)
(* one directory may claim to be.                                          *)
(***************************************************************************)
EXTENDS Integers

CONSTANTS
    Slots,         \* directories <namespace>/<name>/<version>, numbered in their order
    Codes,         \* contents of an entrypoint; two have two SHA-256 sums
    Offered        \* bound: the units, of Unit, that authors make

VARIABLES
    autoReload,    \* RUMI_TRUST_AUTO_RELOAD
    slot,          \* [Slots -> Unit or NoUnit]
    indexed,       \* the slot the index names, NoSlot, or NoIndex
    named,         \* what trusted_units.json says of the unit
    trusted,       \* the entry in memory, or NotLoaded
    dated,         \* whether the file's mtime differs from _last_mtime
    call,          \* the execution under way
    temps,         \* whether the verified copy is on disk
    naming,        \* history: codes the trust file named since this call began
    listed,        \* history: codes it named since the list in memory was read
    missed         \* history: an edit since then left no other mtime, or came
                   \* between the reading and the taking of the mtime

listVars == <<named, trusted, dated, listed, missed>>
unitVars == <<autoReload, slot, indexed, listVars, call, temps, naming>>

NoCode == "no code"          \* no file, no entry
TornList == "torn"           \* a trust file that is not JSON
NotLoaded == "not loaded"
\* A directory with a unit.json; host: exec_modes_allowed has host_capability.
Unit == [there: {TRUE}, kind: {"data", "python", "binary", "script"}, host: BOOLEAN, code: Codes \cup {NoCode}]
NoUnit == [there |-> FALSE, kind |-> "data", host |-> FALSE, code |-> NoCode]
NoSlot == 0
NoIndex == -1
NoExec == [pc |-> "idle", mode |-> "host_capability", at |-> NoSlot, meta |-> NoUnit, sha |-> NoCode, copy |-> NoCode]
Executable(u) == u.kind \in {"python", "binary"}
Execution ==
    [pc: {"idle", "resolve", "gate", "hash", "trust", "loaded", "asked", "reloaded", "match", "read", "exec", "run"}, mode: {"host_capability", "sandbox"},
     at: Slots \cup {NoSlot}, meta: Unit \cup {NoUnit}, sha: Codes \cup {NoCode}, copy: Codes \cup {NoCode}]

\* What the code and its use give of the constants.
UnitConstants ==
    /\ {NoCode, TornList, NotLoaded} \cap Codes = {}
    /\ Slots \subseteq Nat \ {0} /\ Offered \subseteq Unit

UnitTypeOK ==
    /\ autoReload \in BOOLEAN
    /\ slot \in [Slots -> Unit \cup {NoUnit}]
    /\ indexed \in Slots \cup {NoSlot, NoIndex}
    /\ named \in Codes \cup {NoCode, TornList}
    /\ trusted \in Codes \cup {NoCode, NotLoaded}
    /\ dated \in BOOLEAN /\ missed \in BOOLEAN
    /\ call \in Execution
    /\ temps \in BOOLEAN
    /\ temps => call.pc = "run"
    /\ naming \subseteq Codes /\ listed \subseteq Codes

UnitInit ==
    /\ autoReload \in BOOLEAN
    /\ slot = [d \in Slots |-> NoUnit]
    /\ indexed = NoIndex
    /\ named = NoCode
    /\ trusted = NotLoaded /\ dated = TRUE /\ missed = FALSE
    /\ call = NoExec
    /\ temps = FALSE
    /\ naming = {} /\ listed = {}

(***************************************************************************)
(* Directories, index and trust file.                                      *)
(***************************************************************************)
\* A directory of the store is edited by hand.
EditSlot(d, u) ==
    /\ slot[d].there
    /\ slot' = [slot EXCEPT ![d] = u]
    /\ UNCHANGED <<autoReload, indexed, listVars, call, temps, naming>>

\* publish_unit: only an absent destination; a copy that fails stays behind,
\* with or without its entrypoint, and the index is kept.
PublishUnit(d, u, works) ==
    /\ call.pc = "idle"
    /\ ~slot[d].there
    /\ u.kind # "script"
    /\ Executable(u) => u.code # NoCode
    /\ slot' = [slot EXCEPT ![d] = IF works THEN u ELSE [u EXCEPT !.code = NoCode]]
    /\ indexed' = IF works THEN NoIndex ELSE indexed
    /\ UNCHANGED <<autoReload, listVars, call, temps, naming>>

First(D) == IF D = {} THEN NoSlot ELSE CHOOSE d \in D : \A e \in D : d <= e
There == {d \in Slots : slot[d].there}

\* list_units builds the index; an empty one counts as none.
ListUnits ==
    /\ call.pc = "idle"
    /\ indexed' = IF There = {} THEN NoIndex ELSE First(There)
    /\ UNCHANGED <<autoReload, slot, listVars, call, temps, naming>>

\* The code that an entry names, if it names one.
NamedBy(entry) == {entry} \cap Codes

\* The file is edited at any time; its mtime then is another than _last_mtime, or
\* is not: a copy that keeps its date, a clock that is coarse or was set back.
EditTrust(c, differs) ==
    /\ c # named
    /\ named' = c
    /\ dated' = differs
    /\ naming' = naming \cup NamedBy(c)
    /\ listed' = listed \cup NamedBy(c)
    /\ missed' = (missed \/ ~differs \/ call.pc \in {"loaded", "reloaded"})
    /\ UNCHANGED <<autoReload, slot, indexed, trusted, call, temps>>

(***************************************************************************)
(* execute.                                                                *)
(***************************************************************************)
Go(pc) == call' = [call EXCEPT !.pc = pc]
EndCall == call' = NoExec /\ temps' = FALSE
At(pcs) == call.pc \in pcs /\ UNCHANGED <<autoReload, slot, named>>
Only(pc) == At({pc}) /\ UNCHANGED listVars

\* Missing or malformed fields, the rate limit and a pack that is not approved
\* answer at once.
SubmitUnit(mode) ==
    /\ Only("idle")
    /\ call' = [NoExec EXCEPT !.pc = "resolve", !.mode = mode]
    /\ naming' = NamedBy(named)
    /\ UNCHANGED <<indexed, temps>>

\* get_unit_by_ref: the index, if what it names still is the unit, else a scan.
Resolved == IF indexed \in There THEN indexed ELSE First(There)

Resolve ==
    /\ Only("resolve")
    /\ IF Resolved = NoSlot
       THEN EndCall
       ELSE call' = [call EXCEPT !.pc = "gate", !.at = Resolved, !.meta = slot[Resolved]] /\ UNCHANGED temps
    /\ UNCHANGED <<indexed, naming>>

\* The mode, the grant of the unit's permission (which may be denied), the kind.
Gate ==
    /\ Only("gate")
    /\ \/ EndCall
       \/ /\ call.mode = "host_capability" => call.meta.host
          /\ call.meta.kind # "script"
          /\ Go(IF Executable(call.meta) THEN "hash" ELSE "exec")
          /\ UNCHANGED temps
    /\ UNCHANGED <<indexed, naming>>

ReadCode == slot[call.at].code

HashEntrypoint ==
    /\ Only("hash")
    /\ IF ReadCode = NoCode THEN EndCall ELSE call' = [call EXCEPT !.pc = "trust", !.sha = ReadCode] /\ UNCHANGED temps
    /\ UNCHANGED <<indexed, naming>>

\* load: the list is read; a file that cannot be parsed leaves it not loaded, and
\* _last_mtime as it was.
List == IF named = TornList THEN NotLoaded ELSE named
ReadList ==
    /\ trusted' = List
    /\ listed' = NamedBy(named)
    /\ missed' = FALSE
    /\ UNCHANGED <<indexed, dated, temps, naming>>

\* The executor loads a list that is not loaded.
LoadTrust ==
    /\ At({"trust"})
    /\ trusted = NotLoaded
    /\ ReadList
    /\ Go(IF List = NotLoaded THEN "asked" ELSE "loaded")

Asked == call.pc = "asked" \/ (call.pc = "trust" /\ trusted # NotLoaded)
Reloads == autoReload /\ dated

\* is_trusted: reload_if_modified compares mtimes only.
ReloadTrust ==
    /\ Asked /\ Reloads
    /\ At({"trust", "asked"})
    /\ ReadList
    /\ Go(IF List = NotLoaded THEN "match" ELSE "reloaded")

\* load: the mtime is taken when the list was read, of the file as it is by then.
DateTrust ==
    /\ At({"loaded", "reloaded"})
    /\ dated' = FALSE
    /\ Go(IF call.pc = "loaded" THEN "asked" ELSE "match")
    /\ UNCHANGED <<indexed, trusted, listed, missed, temps, naming>>

\* is_trusted: the entry of the list in memory, if there is one.
TrustUnit ==
    /\ call.pc = "match" \/ (Asked /\ ~Reloads)
    /\ At({"trust", "asked", "match"}) /\ UNCHANGED listVars
    /\ IF trusted = call.sha THEN Go("read") /\ UNCHANGED temps ELSE EndCall
    /\ UNCHANGED <<indexed, naming>>

\* Mutant: what is read now is not compared with what was hashed.
ReadUncompared ==
    /\ Only("read")
    /\ call' = [call EXCEPT !.pc = "exec", !.copy = ReadCode]
    /\ UNCHANGED <<indexed, temps, naming>>

\* The entrypoint is read again and must have the same sum.
ReadEntrypoint ==
    /\ Only("read")
    /\ IF ReadCode = call.sha THEN call' = [call EXCEPT !.pc = "exec", !.copy = ReadCode] /\ UNCHANGED temps ELSE EndCall
    /\ UNCHANGED <<indexed, naming>>

\* A unit of data has no way to run on the host, and the other modes are not
\* implemented.
NoHost ==
    /\ Only("exec")
    /\ call.mode = "host_capability" => ~Executable(call.meta)
    /\ EndCall
    /\ UNCHANGED <<indexed, naming>>

\* The file must still be there, and no link; what runs is a copy of what was read.
HostStart(kind) ==
    /\ Only("exec")
    /\ call.mode = "host_capability"
    /\ call.meta.kind = kind
    /\ (ReadCode # NoCode /\ Go("run") /\ temps' = TRUE) \/ EndCall
    /\ UNCHANGED <<indexed, naming>>

StartPython == HostStart("python")

\* A setuid or setgid bit is refused as well.
StartBinary == HostStart("binary")

\* The process ends, fails, says too much or is killed at its timeout.
EndUnit ==
    /\ Only("run")
    /\ EndCall
    /\ UNCHANGED <<indexed, naming>>

RestartUnits ==
    /\ indexed' = NoIndex
    /\ trusted' = NotLoaded /\ dated' = TRUE
    /\ EndCall
    /\ UNCHANGED <<autoReload, slot, named, naming, listed, missed>>

UnitNext ==
    \/ \E d \in Slots, u \in Offered :
          \/ EditSlot(d, u)
          \/ \E works \in BOOLEAN : PublishUnit(d, u, works)
    \/ \E d \in Slots : EditSlot(d, NoUnit)
    \/ ListUnits
    \/ \E c \in Codes \cup {NoCode, TornList}, differs \in BOOLEAN : EditTrust(c, differs)
    \/ \E mode \in {"host_capability", "sandbox"} : SubmitUnit(mode)
    \/ Resolve \/ Gate \/ HashEntrypoint \/ ReadEntrypoint
    \/ LoadTrust \/ ReloadTrust \/ DateTrust \/ TrustUnit
    \/ NoHost \/ StartPython \/ StartBinary \/ EndUnit
    \/ RestartUnits

UnitSpec == UnitInit /\ [][UnitNext]_unitVars

\* What runs on the host is code the trust file has named since the list in memory
\* was read, whatever is published, edited or restarted between the checks.  With
\* reloading it is code the file named while the call was under way, unless an edit
\* was missed: one that leaves the mtime as it was, or comes between the reading of
\* the file and the taking of its mtime, is not noticed, and code that it withdrew
\* runs until the next edit.
UnitRunsVetted ==
    call.pc = "run" =>
        /\ call.copy \in listed
        /\ autoReload /\ ~missed => call.copy \in naming
=============================================================================
