------------------------- MODULE CapabilityExecution -------------------------
(***************************************************************************)
(* A capability request, from the socket of a principal to the code that   *)
(* runs (capability_proxy.py, capability_executor.py), against the grants  *)
(* of capability_grant_manager.py and hierarchical_grant.py, which         *)
(* operators change at the same time and a restart reads back from files.  *)
(***************************************************************************)
EXTENDS Integers, FiniteSets, Sequences

CONSTANTS
    Principals,    \* ids such as a__b, as the sequence of their parts
    FileOf,        \* FileOf[p]: the sanitised name of p's grant file
    Permissions,   \* each names one entry of the function registry
    OptIn,         \* entries that declare a grant_config
    Core,          \* entries of core packs, which need no trust
    Convention,    \* [Permissions -> calling convention]
    Handled,       \* entries whose pack has a core handler
    HostAllowed,   \* RUMI_ALLOW_HOST_EXECUTION
    MaxFaults      \* bound: failing writes and damaged files in a behaviour

VARIABLES
    grants,        \* [Principals -> grant or NoGrant], _grants
    files,         \* [file names -> what the grant file holds]
    tampered,      \* file names and principals, _tampered_principals
    request,       \* the request a proxy thread works on
    withdrawn,     \* history: what was withdrawn for good, see DeniedStaysDenied
    faults

capVars == <<grants, files, tampered, request, withdrawn, faults>>

\* parse_principal_chain: a principal and its ancestors.
Chain(p) == {SubSeq(p, 1, i) : i \in 1..Len(p)}

Names == Principals \cup {FileOf[p] : p \in Principals}
NoGrant == [on |-> FALSE, perms |-> [e \in {} |-> "on"]]
Grants == {NoGrant} \cup [on: BOOLEAN, perms: [Permissions -> {"none", "off", "on"}]]
NoFile == [is |-> "absent"]
Damaged == [is: {"garbage", "forged"}]   \* not JSON; JSON whose signature is wrong
Signed(p, g) == [is |-> "signed", owner |-> p, grant |-> g]
Idle == [pc |-> "idle", type |-> "none", reply |-> "none", principal |-> "nobody", entry |-> "none", barred |-> {}]
All == "all permissions"

\* Withdrawals are told apart: no permission has the name of them all.
CapabilityConstants == All \notin Permissions /\ MaxFaults \in Nat

CapTypeOK ==
    /\ grants \in [Principals -> Grants]
    /\ files \in [{FileOf[p] : p \in Principals} ->
                     {NoFile} \cup Damaged \cup {Signed(p, g) : p \in Principals, g \in Grants}]
    /\ tampered \subseteq Names
    /\ request.pc \in {"idle", "limit", "trust", "grant", "call", "run"}
    /\ withdrawn \subseteq Principals \X (Permissions \cup {All})
    /\ faults \in 0..MaxFaults

CapInit ==
    /\ grants = [p \in Principals |-> NoGrant]
    /\ files = [f \in {FileOf[p] : p \in Principals} |-> NoFile]
    /\ tampered = {}
    /\ request = Idle
    /\ withdrawn = {}
    /\ faults = 0

(***************************************************************************)
(* Grants.  Each method holds the lock; _save_grant writes in place and    *)
(* its callers ignore a failure.                                           *)
(***************************************************************************)
\* Mutant: an entry for no permission.
FreshEmpty == [on |-> TRUE, perms |-> [e \in {} |-> "none"]]

Fresh == [on |-> TRUE, perms |-> [e \in Permissions |-> "none"]]

\* The check of one level: not tampered with, there, on, and the permission on.
LevelOK(q, e) ==
    /\ {q, FileOf[q]} \cap tampered = {}
    /\ grants[q] # NoGrant
    /\ grants[q].on
    /\ grants[q].perms[e] = "on"

\* Mutant: the principals above are not asked.
CheckItself(p, e) == LevelOK(p, e)

Check(p, e) == \A q \in Chain(p) : LevelOK(q, e)

\* The file after a save: written, untouched (open failed), or cut off.
Saved(p, g) ==
    \/ files' = [files EXCEPT ![FileOf[p]] = Signed(p, g)] /\ UNCHANGED faults
    \/ /\ faults < MaxFaults /\ faults' = faults + 1
       /\ \E f \in {files[FileOf[p]], [is |-> "garbage"]} : files' = [files EXCEPT ![FileOf[p]] = f]

\* No older grant of p is left for the next start to read.
Settled(p) == LET f == files'[FileOf[p]] IN f.is = "signed" /\ f.owner = p => f.grant = grants'[p]

GrantPermission(p, e) ==
    LET old == IF grants[p] = NoGrant THEN Fresh ELSE grants[p]
        new == [on |-> TRUE, perms |-> [old.perms EXCEPT ![e] = "on"]] IN
    /\ grants' = [grants EXCEPT ![p] = new]
    /\ tampered' = tampered \ {p, FileOf[p]}
    /\ Saved(p, new)
    /\ withdrawn' = withdrawn \ {<<p, e>>, <<p, All>>}
    /\ request' = [request EXCEPT !.barred = @ \ {<<p, e>>, <<p, All>>}]

\* batch_grant: each item is a call of its own, and one that fails stops none.
BatchGrant(items) == \E i \in items : GrantPermission(i[1], i[2])

\* Revoking is final once it is written: what a failing write leaves behind is
\* read back by the next start, whatever the caller was told.
Withdraw(p, g, what) ==
    /\ grants' = [grants EXCEPT ![p] = g]
    /\ Saved(p, g)
    /\ withdrawn' = IF Settled(p) THEN withdrawn \cup {<<p, what>>} ELSE withdrawn
    /\ UNCHANGED <<tampered, request>>

RevokePermission(p, e) ==
    /\ grants[p] # NoGrant
    /\ grants[p].perms[e] # "none"
    /\ Withdraw(p, [grants[p] EXCEPT !.perms = [@ EXCEPT ![e] = "off"]], e)

RevokeAll(p) ==
    /\ grants[p] # NoGrant
    /\ Withdraw(p, [grants[p] EXCEPT !.on = FALSE], All)

\* delete_grant: the entry goes first, then the file, which another principal
\* with the same sanitised name may have written.
DeleteGrant(p) ==
    /\ grants[p] # NoGrant
    /\ grants' = [grants EXCEPT ![p] = NoGrant]
    /\ \/ files' = [files EXCEPT ![FileOf[p]] = NoFile] /\ UNCHANGED faults
       \/ faults < MaxFaults /\ faults' = faults + 1 /\ UNCHANGED files
    /\ withdrawn' = IF Settled(p) THEN withdrawn \cup {<<p, All>>} ELSE withdrawn
    /\ UNCHANGED <<tampered, request>>

\* _load_all_grants: a file with a wrong signature bars its principal and its
\* name, one that is not JSON is passed over.
Restart ==
    /\ grants' = [p \in Principals |->
                    LET f == files[FileOf[p]] IN IF f.is = "signed" /\ f.owner = p THEN f.grant ELSE NoGrant]
    /\ tampered' = UNION {{p, FileOf[p]} : p \in {q \in Principals : files[FileOf[q]].is = "forged"}}
    /\ request' = Idle
    /\ UNCHANGED <<files, withdrawn, faults>>

\* A grant file is changed by hand, or its disk fails.
Damage(f, d) ==
    /\ faults < MaxFaults /\ faults' = faults + 1
    /\ files[f] # NoFile
    /\ files' = [files EXCEPT ![f] = d]
    /\ UNCHANGED <<grants, tampered, request, withdrawn>>

(***************************************************************************)
(* Requests.                                                               *)
(***************************************************************************)
Elsewhere == UNCHANGED <<grants, files, tampered, withdrawn, faults>>

\* _PrincipalHandler.handle: the principal is that of the socket.  execute tells
\* a request for a permission from a function.call, which names the entry.
Submit(p, e, type) ==
    /\ request.pc = "idle"
    /\ request' = [pc |-> IF type = "function.call" THEN "call" ELSE "limit", type |-> type, reply |-> "none",
                   principal |-> p, entry |-> e, barred |-> IF type = "permission" THEN withdrawn \cap (Chain(p) \X {e, All}) ELSE {}]
    /\ Elsewhere

Answer(r) == request' = [request EXCEPT !.pc = "idle", !.reply = r]
Goto(pc) == request' = [request EXCEPT !.pc = pc]

\* The request budget of secrets.get (its window is that of RateWindow).
CheckRateLimit ==
    /\ request.pc = "limit"
    /\ Answer("rate_limited") \/ Goto("trust")
    /\ Elsewhere

\* The SHA-256 of main.py, taken now, against the trust list, which
\* CapabilityInstaller models; a core entry is not checked.
TrustCheck ==
    /\ request.pc = "trust"
    /\ Goto("grant") \/ (request.entry \notin Core /\ Answer("trust_denied"))
    /\ Elsewhere

GrantCheck ==
    /\ request.pc = "grant"
    /\ IF request.entry \in OptIn => Check(request.principal, request.entry) THEN Goto("run") ELSE Answer("grant_denied")
    /\ Elsewhere

\* _execute_function_call: the approval of the entry's pack (PackApproval), then
\* the permissions its pack and the principal have of the permission manager
\* (PermissionTables), each of which may refuse it.  No budget, no trust list and
\* no grant is asked.
FunctionCall ==
    /\ request.pc = "call"
    /\ Goto("run") \/ Answer("call_denied")
    /\ Elsewhere

\* What an execution may answer.  A handler's output is passed on as it is, the
\* output of a function has to be JSON; "block" entries call a core handler.
ProcessReplies == {"ok", "error", "timeout", "response_too_large"}
FunctionReplies == ProcessReplies \cup {"invalid_json_output"}
HostReplies == IF HostAllowed THEN FunctionReplies ELSE {"host_execution_disabled"}
CommandReplies == FunctionReplies \cup {"invalid_config"}
BlockReplies(e) == IF e \in Handled THEN {"ok", "error"} ELSE {"unknown_core_function"}

\* _dispatch_by_calling_convention.
Replies(e) ==
    CASE Convention[e] = "kernel" -> {"invalid_calling_convention"}
      [] Convention[e] = "block" -> BlockReplies(e)
      [] Convention[e] = "python_host" -> HostReplies
      [] Convention[e] = "command" -> CommandReplies
      [] Convention[e] \in {"python_docker", "binary"} -> FunctionReplies
      [] OTHER -> ProcessReplies

\* A function.call goes by the pack and the flags of the entry, not by its convention.
CallReplies(e) == IF e \in Core THEN BlockReplies(e) ELSE HostReplies \cup CommandReplies

\* The code runs, fails, says too much or is killed at its timeout.
Finish ==
    /\ request.pc = "run"
    /\ \E r \in (IF request.type = "function.call" THEN CallReplies(request.entry) ELSE Replies(request.entry)) : Answer(r)
    /\ Elsewhere

CapNext ==
    \/ \E p \in Principals :
          \/ BatchGrant({p} \X Permissions)
          \/ \E e \in Permissions : GrantPermission(p, e) \/ RevokePermission(p, e)
                                    \/ \E type \in {"permission", "function.call"} : Submit(p, e, type)
          \/ RevokeAll(p)
          \/ DeleteGrant(p)
    \/ \E f \in DOMAIN files, d \in Damaged : Damage(f, d)
    \/ CheckRateLimit \/ TrustCheck \/ GrantCheck \/ FunctionCall \/ Finish
    \/ Restart

CapSpec == CapInit /\ [][CapNext]_capVars

(***************************************************************************)
(* Properties.                                                             *)
(***************************************************************************)
\* What was withdrawn from a principal or one of its ancestors, and written,
\* stays withdrawn for every request for a permission that comes in later,
\* across restarts, damaged files and failing writes, until it is granted again.
\* Granting any permission ends a revoke_all, as it does in the code.  It is not
\* said of a function.call, which runs the same entry and asks for no grant.
DeniedStaysDenied ==
    /\ request.type = "permission" /\ request.entry \in OptIn
    /\ request.pc = "run" \/ request.reply = "ok"
    => request.barred = {}
=============================================================================
