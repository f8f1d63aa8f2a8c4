---------------------------- MODULE StoreRegistry ----------------------------
(***************************************************************************)
(* The stores (store_registry.py, store_migration.py): an SQLite database, *)
(* one connection per thread, compare-and-set under BEGIN IMMEDIATE, and   *)
(* operators who create and delete stores meanwhile.  A database that is   *)
(* not there is built from the JSON files of older versions at the start.  *)
(***************************************************************************)
EXTENDS Integers, FiniteSets

CONSTANTS
    Stores,        \* store ids; each has one key here, rows do not interact
    Indexed,       \* stores that index.json names, whose key has the value 1
    Threads,       \* bound: calls of cas or delete_store at one time
    MaxValue,      \* bound: values are 0..MaxValue
    MaxDeclared,   \* stores a pack may declare (MAX_STORES_PER_PACK)
    MaxStoreFaults \* bound: database errors and crashes

NoThread == "nobody"

ASSUME StoreConstants ==
    /\ Stores # {} /\ Indexed \subseteq Stores
    /\ NoThread \notin Threads
    /\ MaxValue \in Nat /\ MaxValue >= 1
    /\ MaxStoreFaults \in Nat

VARIABLES
    phase,         \* of the registry: "down", "migrating" or "up"
    made,          \* whether the database file is there
    db,            \* the stores in it
    rows,          \* [Stores -> value or NoRow], table store_data
    writer,        \* thread inside BEGIN IMMEDIATE, or NoThread
    calls,         \* [Threads -> Call]
    won,           \* history: [Stores -> values replaced since the row was made]
    twice,         \* history: stores where two calls replaced the same value
    storeFaults

storeVars == <<phase, made, db, rows, writer, calls, won, twice, storeFaults>>

NoRow == -1
Missing == -1      \* expected_value left out: the key must not exist

Values == 0..MaxValue
Replies == {"none", "swapped", "conflict", "store_not_found", "timeout", "io_error", "deleted"}
Call == [pc: {"idle", "begin", "swap", "commit", "delete"}, store: Stores,
         expected: Values \cup {Missing}, new: Values, reply: Replies]

StoreTypeOK ==
    /\ phase \in {"down", "migrating", "up"}
    /\ made \in BOOLEAN
    /\ db \subseteq Stores
    /\ rows \in [Stores -> Values \cup {NoRow}]
    /\ writer \in Threads \cup {NoThread}
    /\ calls \in [Threads -> Call]
    /\ won \in [Stores -> SUBSET (Values \cup {Missing})]
    /\ twice \subseteq Stores
    /\ storeFaults \in 0..MaxStoreFaults

NoCall == [pc |-> "idle", store |-> CHOOSE s \in Stores : TRUE, expected |-> Missing, new |-> 0, reply |-> "none"]

StoreInit ==
    /\ phase = "down"
    /\ made = FALSE
    /\ db = {}
    /\ rows = [s \in Stores |-> NoRow]
    /\ writer = NoThread
    /\ calls = [t \in Threads |-> NoCall]
    /\ won = [s \in Stores |-> {}]
    /\ twice = {}
    /\ storeFaults = 0

Fault == storeFaults < MaxStoreFaults /\ storeFaults' = storeFaults + 1

(***************************************************************************)
(* Start.  A migration writes a file of its own, which the next start      *)
(* deletes if it finds it; one that fails leaves the way to an empty       *)
(* database, and is not tried again.                                       *)
(***************************************************************************)
Open ==
    /\ phase = "down"
    /\ IF ~made /\ Indexed # {}
       THEN phase' = "migrating" /\ UNCHANGED made
       ELSE phase' = "up" /\ made' = TRUE
    /\ UNCHANGED <<db, rows, writer, calls, won, twice, storeFaults>>

MigrationDone ==
    /\ phase = "migrating"
    /\ phase' = "up"
    /\ made' = TRUE
    /\ db' = Indexed
    /\ rows' = [s \in Stores |-> IF s \in Indexed THEN 1 ELSE NoRow]
    /\ UNCHANGED <<writer, calls, won, twice, storeFaults>>

MigrationFails ==
    /\ phase = "migrating"
    /\ Fault
    /\ phase' = "up"
    /\ made' = TRUE
    /\ UNCHANGED <<db, rows, writer, calls, won, twice>>

\* The process dies; SQLite rolls back what was not committed.
CrashRegistry ==
    /\ phase # "down"
    /\ Fault
    /\ phase' = "down"
    /\ writer' = NoThread
    /\ calls' = [t \in Threads |-> NoCall]
    /\ UNCHANGED <<made, db, rows, won, twice>>

(***************************************************************************)
(* Operators.                                                              *)
(***************************************************************************)
\* INSERT OR IGNORE; a pack's declared store that exists counts as created.
CreateStore(s) ==
    /\ phase = "up"
    /\ writer = NoThread
    /\ s \notin db
    /\ db' = db \cup {s}
    /\ UNCHANGED <<phase, made, rows, writer, calls, won, twice, storeFaults>>

\* create_store_for_pack, one store after the other: those that are there are
\* passed over, and a list that is too long creates none.
DeclareStore(declared) ==
    /\ Cardinality(declared) <= MaxDeclared
    /\ \E s \in declared \ db : CreateStore(s)

At(t, pc) == phase = "up" /\ calls[t].pc = pc
Step(t, pc) == calls' = [calls EXCEPT ![t].pc = pc]
Reply(t, r) == calls' = [calls EXCEPT ![t].pc = "idle", ![t].reply = r]

DeleteLookup(t, s) ==
    /\ At(t, "idle")
    /\ calls' = [calls EXCEPT ![t] =
                    [NoCall EXCEPT !.store = s, !.pc = IF s \in db THEN "delete" ELSE "idle",
                                   !.reply = IF s \in db THEN "none" ELSE "store_not_found"]]
    /\ UNCHANGED <<phase, made, db, rows, writer, won, twice, storeFaults>>

\* The rows of a store go with it (ON DELETE CASCADE).
DeleteRow(t) == LET s == calls[t].store IN
    /\ At(t, "delete")
    /\ IF writer = NoThread
       THEN /\ Reply(t, "deleted")
            /\ db' = db \ {s}
            /\ rows' = [rows EXCEPT ![s] = NoRow]
            /\ won' = [won EXCEPT ![s] = {}]
            /\ twice' = twice \ {s}
       ELSE Reply(t, "io_error") /\ UNCHANGED <<db, rows, won, twice>>
    /\ UNCHANGED <<phase, made, writer, storeFaults>>

(***************************************************************************)
(* cas.                                                                    *)
(***************************************************************************)
CasLookup(t, s, expected, new) ==
    /\ At(t, "idle")
    /\ calls' = [calls EXCEPT ![t] =
                    [pc |-> IF s \in db THEN "begin" ELSE "idle", store |-> s, expected |-> expected,
                     new |-> new, reply |-> IF s \in db THEN "none" ELSE "store_not_found"]]
    /\ UNCHANGED <<phase, made, db, rows, writer, won, twice, storeFaults>>

\* Mutant: a plain BEGIN, which lets others read before they write.
CasBeginDeferred(t) ==
    /\ At(t, "begin")
    /\ writer' = t /\ Step(t, "swap")
    /\ UNCHANGED <<phase, made, db, rows, won, twice, storeFaults>>

\* BEGIN IMMEDIATE: one writer at a time, the others wait or time out.
CasBegin(t) ==
    /\ At(t, "begin")
    /\ \/ writer = NoThread /\ writer' = t /\ Step(t, "swap")
       \/ writer # NoThread /\ UNCHANGED writer /\ Reply(t, "timeout")
    /\ UNCHANGED <<phase, made, db, rows, won, twice, storeFaults>>

\* The stored hash against that of the expected value: NULL, a value, no key.
Matches(c) == rows[c.store] = c.expected

\* Read and compare; the insert of a row whose store is gone breaks its
\* foreign key.
CasSwap(t) ==
    /\ At(t, "swap")
    /\ IF Matches(calls[t]) /\ calls[t].store \in db
       THEN Step(t, "commit") /\ UNCHANGED writer
       ELSE /\ Reply(t, IF Matches(calls[t]) THEN "io_error" ELSE "conflict")
            /\ writer' = NoThread
    /\ UNCHANGED <<phase, made, db, rows, won, twice, storeFaults>>

CasCommit(t) == LET c == calls[t] IN
    /\ At(t, "commit")
    /\ writer' = NoThread
    /\ \/ /\ Reply(t, "swapped")
          /\ rows' = [rows EXCEPT ![c.store] = c.new]
          /\ won' = [won EXCEPT ![c.store] = @ \cup {c.expected}]
          /\ twice' = IF c.expected \in won[c.store] THEN twice \cup {c.store} ELSE twice
          /\ UNCHANGED storeFaults
       \/ Fault /\ Reply(t, "io_error") /\ UNCHANGED <<rows, won, twice>>
    /\ UNCHANGED <<phase, made, db>>

StoreNext ==
    \/ Open
    \/ MigrationDone
    \/ MigrationFails
    \/ CrashRegistry
    \/ \E s \in Stores : CreateStore(s)
    \/ \E declared \in SUBSET Stores : DeclareStore(declared)
    \/ \E t \in Threads :
          \/ \E s \in Stores :
                \/ DeleteLookup(t, s)
                \* callers count up: they replace a value by the next one
                \/ \E v \in (Values \cup {Missing}) \ {MaxValue} : CasLookup(t, s, v, v + 1)
          \/ DeleteRow(t)
          \/ CasBegin(t)
          \/ CasSwap(t)
          \/ CasCommit(t)

StoreSpec == StoreInit /\ [][StoreNext]_storeVars

(***************************************************************************)
(* Properties.                                                             *)
(***************************************************************************)
\* Of any number of callers that count up a key, no two are told that they
\* replaced the same value, whatever is timed out, rolled back, deleted or
\* restarted in between.
CountersExact == twice = {}

\* The rows of a deleted store are gone for good: a row is always one of a
\* store, also after a late call.
RowsHaveStores == \A s \in Stores : rows[s] # NoRow => s \in db

(***************************************************************************)
(* Listing the keys of a store page by page while they change (list_keys;  *)
(* store.list passes its arguments on): a specification of its own.  Keys  *)
(* are numbers in their order; those with the prefix are Prefixed.         *)
(***************************************************************************)
CONSTANTS
    ListKeys,      \* the keys that may exist, positive numbers
    Prefixed,      \* those that start with the prefix asked for
    Limits,        \* page sizes callers ask for; below 1 means 1
    MaxBatch       \* values that fit in one answer of batch_get (900 KB)

VARIABLES
    present,       \* keys in the table
    scan,          \* the listing in progress
    steady         \* history: keys present ever since the listing began

listVars == <<present, scan, steady>>

NoCursor == 0

\* What is assumed of the constants.
ListConstants ==
    /\ IsFiniteSet(ListKeys) /\ ListKeys \subseteq Nat \ {0} /\ Prefixed \subseteq ListKeys
    /\ Limits \subseteq Int /\ MaxBatch \in Nat

ListTypeOK ==
    /\ present \subseteq ListKeys
    /\ steady \subseteq present
    /\ scan \in [pc: {"idle", "paging", "done", "cut"}, cursor: ListKeys \cup {NoCursor},
                 asked: SUBSET ListKeys, given: SUBSET ListKeys, again: BOOLEAN]

ListInit ==
    /\ present = {}
    /\ scan = [pc |-> "idle", cursor |-> NoCursor, asked |-> {}, given |-> {}, again |-> FALSE]
    /\ steady = {}

PutKey(k) ==
    /\ k \notin present
    /\ present' = present \cup {k}
    /\ UNCHANGED <<scan, steady>>

DropKey(k) ==
    /\ k \in present
    /\ present' = present \ {k}
    /\ steady' = steady \ {k}
    /\ UNCHANGED scan

Matching(cursor) == {k \in present \cap Prefixed : k > cursor}

\* The first n of a set of keys, in their order.
FirstOf(n, S) == {k \in S : Cardinality({j \in S : j < k}) < n}

\* Mutant: without the row after them, there are never more.
PageOnly(cursor, limit) ==
    LET size == IF limit < 1 THEN 1 ELSE limit
        fetched == FirstOf(size, Matching(cursor)) IN
    [keys |-> fetched, more |-> Cardinality(fetched) > size]

\* limit + 1 rows are fetched, to know whether there are more.
Page(cursor, limit) ==
    LET size == IF limit < 1 THEN 1 ELSE limit
        fetched == FirstOf(size + 1, Matching(cursor)) IN
    [keys |-> FirstOf(size, fetched), more |-> Cardinality(fetched) > size]

LastOf(S) == CHOOSE k \in S : \A j \in S : j <= k

Deliver(page, given, again) ==
    scan' = [pc |-> IF page.more THEN "paging" ELSE "done",
             cursor |-> IF page.more THEN LastOf(page.keys) ELSE NoCursor,
             asked |-> Prefixed, given |-> given \cup page.keys,
             again |-> again \/ page.keys \cap given # {}]

StartList(limit) ==
    /\ scan.pc # "paging"
    /\ Deliver(Page(NoCursor, limit), {}, FALSE)
    /\ steady' = present
    /\ UNCHANGED present

\* The caller comes back with next_cursor, and any limit.
NextPage(limit) ==
    /\ scan.pc = "paging"
    /\ Deliver(Page(scan.cursor, limit), scan.given, scan.again)
    /\ UNCHANGED <<present, steady>>

\* A listing without limit or cursor: one query.
WholeList ==
    /\ scan.pc # "paging"
    /\ scan' = [pc |-> "done", cursor |-> NoCursor, asked |-> Prefixed, given |-> Matching(NoCursor),
                again |-> FALSE]
    /\ steady' = present
    /\ UNCHANGED present

\* One query too, in the order asked for (here that of the keys); from the first
\* value that does not fit on, all are null and counted as truncated.
BatchGet(keys) ==
    LET there == keys \cap present
        fits == FirstOf(MaxBatch, there) IN
    /\ scan.pc # "paging"
    /\ scan' = [pc |-> IF fits = there THEN "done" ELSE "cut", cursor |-> NoCursor, asked |-> keys,
                given |-> fits, again |-> FALSE]
    /\ steady' = present
    /\ UNCHANGED present

ListNext ==
    \/ \E k \in ListKeys : PutKey(k) \/ DropKey(k)
    \/ \E limit \in Limits : StartList(limit) \/ NextPage(limit)
    \/ WholeList
    \/ \E keys \in SUBSET ListKeys : BatchGet(keys)

ListSpec == ListInit /\ [][ListNext]_listVars

\* A listing that ran to its end gave every key that was there all along, and
\* none twice, however the table changed between its pages and whatever limits
\* the caller used; so did a batch_get that reports nothing as truncated.
ListingComplete == scan.pc = "done" => steady \cap scan.asked \subseteq scan.given /\ ~scan.again
=============================================================================
