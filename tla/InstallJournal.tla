--------------------------- MODULE InstallJournal ---------------------------
(***************************************************************************)
(* InstallJournal (install_journal.py): components append what they        *)
(* created; uninstall deletes the recorded paths that lie inside the       *)
(* allowed roots and outside the protected ones, in sorted order.          *)
(***************************************************************************)
EXTENDS Naturals, Sequences, SequencesExt

CONSTANTS
    Paths,           \* sequences of names; a path lies within its prefixes
    MaxJournalFaults

\* Names are numbered.
JournalConstants == Paths \subseteq Seq(Nat) /\ MaxJournalFaults \in Nat

VARIABLES
    allowed, protected,   \* _resolve_policy_roots
    exists,          \* the paths on disk, with every path above them
    recorded,        \* created paths in the journal files
    planned,         \* planned_delete, what is left of it
    deleting,        \* whether uninstall is under way
    lost,            \* history: what was deleted inside protected roots
    journalFaults    \* lines that could not be written, paths that could not be deleted

journalVars == <<allowed, protected, exists, recorded, planned, deleting, lost, journalFaults>>

Within(p, r) == IsPrefix(r, p)
Below(p) == {q \in Paths : Within(q, p)}

JournalTypeOK ==
    /\ allowed \subseteq Paths /\ protected \subseteq Paths
    /\ exists \subseteq Paths /\ recorded \subseteq Paths
    /\ planned \subseteq recorded /\ deleting \in BOOLEAN /\ lost \subseteq Paths
    /\ journalFaults \in 0..MaxJournalFaults
    /\ \A p \in exists : \A q \in Paths : Within(p, q) => q \in exists

\* The roots exist; a policy may name any of them.
JournalInit ==
    /\ allowed \in SUBSET Paths /\ protected \in SUBSET Paths
    /\ exists = {q \in Paths : \E r \in allowed \cup protected : Within(r, q)}
    /\ recorded = {} /\ planned = {} /\ deleting = FALSE
    /\ lost = {} /\ journalFaults = 0

\* A component sees to it that a path is there and appends it as created; append
\* believes it.  A failing append is only kept in last_error.
Create(p) ==
    /\ ~deleting /\ p \notin recorded
    /\ exists' = exists \cup {q \in Paths : Within(p, q)}
    /\ UNCHANGED lost
    /\ \/ recorded' = recorded \cup {p} /\ UNCHANGED journalFaults
       \/ /\ journalFaults < MaxJournalFaults /\ journalFaults' = journalFaults + 1
          /\ UNCHANGED recorded
    /\ UNCHANGED <<allowed, protected, planned, deleting>>

\* Mutant: only the roots themselves are protected, not what lies in them.
DecidePathLoosely(p) ==
    /\ \E r \in allowed : Within(p, r)
    /\ p \notin allowed \/ \E r \in allowed : Within(p, r) /\ r # p

\* An allowed root inside another one counts as inside it: the list may name either first.
DecidePath(p) ==
    /\ \A r \in protected : ~Within(p, r)
    /\ \E r \in allowed : Within(p, r)
    /\ p \notin allowed \/ \E r \in allowed : Within(p, r) /\ r # p

Uninstall ==
    /\ ~deleting /\ deleting' = TRUE
    /\ planned' = {p \in recorded : DecidePath(p)}
    /\ UNCHANGED <<allowed, protected, exists, recorded, lost, journalFaults>>

\* Sorted order: a directory comes before what is in it, and rmtree takes all.
DeletePath(p) ==
    /\ deleting /\ p \in planned /\ \A q \in planned \ {p} : ~Within(p, q)
    /\ planned' = planned \ {p}
    /\ \/ /\ exists' = exists \ Below(p)
          /\ lost' = lost \cup {q \in Below(p) \cap exists : \E r \in protected : Within(q, r)}
          /\ UNCHANGED journalFaults
       \/ /\ p \in exists /\ journalFaults < MaxJournalFaults /\ journalFaults' = journalFaults + 1
          /\ UNCHANGED <<exists, lost>>
    /\ UNCHANGED <<allowed, protected, recorded, deleting>>

EndUninstall ==
    /\ deleting /\ planned = {} /\ deleting' = FALSE
    /\ UNCHANGED <<allowed, protected, exists, recorded, planned, lost, journalFaults>>

JournalNext == Uninstall \/ EndUninstall \/ \E p \in Paths : Create(p) \/ DeletePath(p)

JournalSpec == JournalInit /\ [][JournalNext]_journalVars

\* The outermost allowed roots survive whatever components say they created,
\* and nothing inside a protected root is deleted, but by the deletion of a
\* directory above the root that a component recorded as its own.
RootsSurvive ==
    /\ \A r \in allowed : (\A q \in allowed : Within(r, q) => q = r) => r \in exists
    /\ \A r \in protected : lost \cap Below(r) # {} => \E p \in recorded : p # r /\ Within(r, p)
=============================================================================
