------------------------ MODULE CoreServicesProofs --------------------------
(***************************************************************************)
(* Proofs about the services of core_runtime that many requests use at a   *)
(* time: the stores, the egress proxy, containers and the limiter of the   *)
(* HTTP server, for any number of threads, requests, packs and addresses.  *)
(***************************************************************************)
EXTENDS MCCoreServices, FiniteSetTheorems, WellFoundedInduction, TLAPS

-----------------------------------------------------------------------------
(***************************************************************************)
(* StoreRegistry.  Compare-and-set is exact for any number of threads,     *)
(* stores and values: of the calls that count a key up, no two replace the *)
(* same value.                                                             *)
(***************************************************************************)
Writing == {"swap", "commit"}

\* Only the thread inside BEGIN IMMEDIATE is between its read and its commit.
OneWriter == \A t \in Threads : calls[t].pc \in Writing => writer = t /\ phase = "up"

\* What it has read still holds, and it is about to store the next value.
ReadHolds == \A t \in Threads :
    /\ calls[t].pc \in {"begin"} \cup Writing => calls[t].new = calls[t].expected + 1
    /\ calls[t].pc = "commit" => rows[calls[t].store] = calls[t].expected /\ calls[t].store \in db

\* The values that were replaced are below the one that is there.
Replaced == \A s \in Stores : \A v \in won[s] : v < rows[s]

\* A database that is not there holds nothing, and none is migrated into that is.
FileRead ==
    /\ phase = "up" => made
    /\ phase = "migrating" => ~made
    /\ ~made => db = {}

StoreInv == StoreTypeOK /\ OneWriter /\ ReadHolds /\ Replaced /\ FileRead /\ RowsHaveStores /\ CountersExact

LEMMA NoCallType == NoCall \in Call
  BY StoreConstants DEF NoCall, Call, Values, Missing, Replies

\* What Step and Reply leave of a call.
LEMMA StepGives ==
  ASSUME StoreTypeOK, NEW t \in Threads, NEW pc \in {"idle", "begin", "swap", "commit", "delete"}, Step(t, pc)
  PROVE  /\ calls' \in [Threads -> Call]
         /\ \A u \in Threads : u # t => calls'[u] = calls[u]
         /\ calls'[t].pc = pc
         /\ calls'[t].store = calls[t].store
         /\ calls'[t].expected = calls[t].expected
         /\ calls'[t].new = calls[t].new
  BY DEF StoreTypeOK, Step, Call

LEMMA ReplyGives ==
  ASSUME StoreTypeOK, NEW t \in Threads, NEW r \in Replies, Reply(t, r)
  PROVE  /\ calls' \in [Threads -> Call]
         /\ \A u \in Threads : u # t => calls'[u] = calls[u]
         /\ calls'[t].pc = "idle"
  BY DEF StoreTypeOK, Reply, Call

LEMMA InitInv == StoreInit => StoreInv
<1> SUFFICES ASSUME StoreInit PROVE StoreInv
  OBVIOUS
<1>1. StoreTypeOK
  <2>1. calls \in [Threads -> Call]
    BY NoCallType DEF StoreInit
  <2>2. rows \in [Stores -> Values \cup {NoRow}] /\ won \in [Stores -> SUBSET (Values \cup {Missing})]
    BY DEF StoreInit
  <2>3. db \subseteq Stores /\ twice \subseteq Stores /\ writer \in Threads \cup {NoThread}
    BY DEF StoreInit
  <2>4. phase \in {"down", "migrating", "up"} /\ made \in BOOLEAN
    BY DEF StoreInit
  <2>5. storeFaults \in 0..MaxStoreFaults
    BY StoreConstants, SMT DEF StoreInit
  <2> QED
    BY <2>1, <2>2, <2>3, <2>4, <2>5 DEF StoreTypeOK
<1>2. \A t \in Threads : calls[t].pc = "idle"
  BY DEF StoreInit, NoCall
<1>3. OneWriter /\ ReadHolds
  BY <1>2 DEF OneWriter, ReadHolds, Writing
<1>4. Replaced /\ FileRead /\ RowsHaveStores /\ CountersExact
  BY DEF StoreInit, Replaced, FileRead, RowsHaveStores, CountersExact, NoRow
<1> QED
  BY <1>1, <1>3, <1>4 DEF StoreInv

\* Nobody writes while no thread holds the lock, or the registry is not up.
LEMMA NobodyWrites ==
  ASSUME StoreInv, writer = NoThread \/ phase # "up"
  PROVE  \A t \in Threads : calls[t].pc \notin Writing
  BY StoreConstants DEF StoreInv, OneWriter

\* Before there is a database file, nothing has been replaced in it.
LEMMA EmptyBefore ==
  ASSUME StoreInv, ~made
  PROVE  \A s \in Stores : won[s] = {} /\ rows[s] = NoRow
<1> TAKE s \in Stores
<1>1. rows[s] = NoRow
  BY DEF StoreInv, FileRead, RowsHaveStores
<1>2. \A v \in won[s] : v \in Int /\ v >= -1 /\ v < rows[s]
  BY StoreConstants DEF StoreInv, StoreTypeOK, Replaced, Values, Missing
<1> QED
  BY <1>1, <1>2 DEF NoRow

LEMMA OpenKeeps == StoreInv /\ Open => StoreInv'
<1> SUFFICES ASSUME StoreInv, Open PROVE StoreInv'
  OBVIOUS
<1>1. StoreTypeOK'
  BY DEF StoreInv, StoreTypeOK, Open
<1>2. \A t \in Threads : calls[t].pc \notin Writing
  BY NobodyWrites DEF Open
<1>3. (OneWriter /\ ReadHolds)'
  BY <1>2 DEF StoreInv, OneWriter, ReadHolds, Open, Writing
<1>4. (Replaced /\ FileRead /\ RowsHaveStores /\ CountersExact)'
  BY DEF StoreInv, Replaced, FileRead, RowsHaveStores, CountersExact, Open
<1> QED
  BY <1>1, <1>3, <1>4 DEF StoreInv

LEMMA MigrationKeeps == StoreInv /\ (MigrationDone \/ MigrationFails) => StoreInv'
<1> SUFFICES ASSUME StoreInv, MigrationDone \/ MigrationFails PROVE StoreInv'
  OBVIOUS
<1> DEFINE imported == [s \in Stores |-> IF s \in Indexed THEN 1 ELSE NoRow]
<1>1. ~made /\ phase = "migrating"
  BY DEF StoreInv, FileRead, MigrationDone, MigrationFails
<1>2. \A t \in Threads : calls[t].pc \notin Writing
  BY <1>1, NobodyWrites
<1>3. \A s \in Stores : won[s] = {} /\ rows[s] = NoRow
  BY <1>1, EmptyBefore
<1>4. /\ phase' = "up" /\ made' = TRUE
      /\ writer' = writer /\ calls' = calls /\ won' = won /\ twice' = twice
      /\ storeFaults' \in 0..MaxStoreFaults
  BY StoreConstants DEF MigrationDone, MigrationFails, Fault, StoreInv, StoreTypeOK
<1>5. \/ db' = Indexed /\ rows' = imported
      \/ db' = db /\ rows' = rows
  BY DEF MigrationDone, MigrationFails
<1>6. db' \subseteq Stores /\ rows' \in [Stores -> Values \cup {NoRow}]
  BY <1>5, StoreConstants DEF StoreInv, StoreTypeOK, Values
<1>7. StoreTypeOK'
  BY <1>4, <1>6 DEF StoreInv, StoreTypeOK
<1>8. (OneWriter /\ ReadHolds)'
  BY <1>2, <1>4 DEF StoreInv, OneWriter, ReadHolds, Writing
<1>9. Replaced'
  BY <1>3, <1>4 DEF Replaced
<1>10. FileRead' /\ RowsHaveStores' /\ CountersExact'
  BY <1>3, <1>4, <1>5 DEF StoreInv, FileRead, RowsHaveStores, CountersExact
<1> QED
  BY <1>7, <1>8, <1>9, <1>10 DEF StoreInv

LEMMA CrashKeeps == StoreInv /\ CrashRegistry => StoreInv'
<1> SUFFICES ASSUME StoreInv, CrashRegistry PROVE StoreInv'
  OBVIOUS
<1>1. calls' \in [Threads -> Call] /\ (\A t \in Threads : calls'[t].pc = "idle")
  BY NoCallType DEF CrashRegistry, NoCall
<1>2. storeFaults' \in 0..MaxStoreFaults
  BY StoreConstants DEF CrashRegistry, Fault, StoreInv, StoreTypeOK
<1>3. StoreTypeOK'
  BY <1>1, <1>2 DEF StoreInv, StoreTypeOK, CrashRegistry
<1>4. (OneWriter /\ ReadHolds)'
  BY <1>1 DEF OneWriter, ReadHolds, Writing
<1>5. (Replaced /\ FileRead /\ RowsHaveStores /\ CountersExact)'
  BY DEF StoreInv, Replaced, FileRead, RowsHaveStores, CountersExact, CrashRegistry
<1> QED
  BY <1>3, <1>4, <1>5 DEF StoreInv

LEMMA CreateKeeps == ASSUME StoreInv, NEW s \in Stores, CreateStore(s) PROVE StoreInv'
<1>1. StoreTypeOK'
  BY DEF StoreInv, StoreTypeOK, CreateStore
<1>2. (OneWriter /\ ReadHolds)'
  BY DEF StoreInv, OneWriter, ReadHolds, CreateStore
<1>3. (Replaced /\ FileRead /\ RowsHaveStores /\ CountersExact)'
  BY DEF StoreInv, Replaced, FileRead, RowsHaveStores, CountersExact, CreateStore
<1> QED
  BY <1>1, <1>2, <1>3 DEF StoreInv

\* A lookup only starts a call, which holds no lock yet.
LEMMA LookupKeeps ==
  ASSUME StoreInv, NEW t \in Threads, At(t, "idle"), NEW call \in Call,
         calls' = [calls EXCEPT ![t] = call],
         call.pc \notin Writing, call.pc = "begin" => call.new = call.expected + 1,
         UNCHANGED <<phase, made, db, rows, writer, won, twice, storeFaults>>
  PROVE  StoreInv'
<1>1. StoreTypeOK'
  BY DEF StoreInv, StoreTypeOK
<1>2. \A u \in Threads : calls'[u] = IF u = t THEN call ELSE calls[u]
  BY DEF StoreInv, StoreTypeOK
<1>3. (OneWriter /\ ReadHolds)'
  BY <1>2 DEF StoreInv, OneWriter, ReadHolds, Writing
<1>4. (Replaced /\ FileRead /\ RowsHaveStores /\ CountersExact)'
  BY DEF StoreInv, Replaced, FileRead, RowsHaveStores, CountersExact
<1> QED
  BY <1>1, <1>3, <1>4 DEF StoreInv

LEMMA DeleteLookupKeeps == ASSUME StoreInv, NEW t \in Threads, NEW s \in Stores, DeleteLookup(t, s) PROVE StoreInv'
<1> DEFINE call == [NoCall EXCEPT !.store = s, !.pc = IF s \in db THEN "delete" ELSE "idle",
                                  !.reply = IF s \in db THEN "none" ELSE "store_not_found"]
<1>1. call \in Call /\ call.pc \in {"delete", "idle"}
  BY NoCallType DEF NoCall, Call, Replies
<1>2. calls' = [calls EXCEPT ![t] = call] /\ At(t, "idle")
  BY DEF DeleteLookup
<1>3. UNCHANGED <<phase, made, db, rows, writer, won, twice, storeFaults>>
  BY DEF DeleteLookup
<1> HIDE DEF call
<1> QED
  BY <1>1, <1>2, <1>3, LookupKeeps DEF Writing

LEMMA CasLookupKeeps ==
  ASSUME StoreInv, NEW t \in Threads, NEW s \in Stores, NEW v \in (Values \cup {Missing}) \ {MaxValue},
         CasLookup(t, s, v, v + 1)
  PROVE  StoreInv'
<1> DEFINE call == [pc |-> IF s \in db THEN "begin" ELSE "idle", store |-> s, expected |-> v,
                    new |-> v + 1, reply |-> IF s \in db THEN "none" ELSE "store_not_found"]
<1>0. v + 1 \in Values
  BY StoreConstants DEF Values, Missing
<1>1. /\ call \in Call
      /\ call.pc \in {"begin", "idle"}
      /\ call.new = call.expected + 1
  BY <1>0 DEF Call, Replies
<1>2. calls' = [calls EXCEPT ![t] = call] /\ At(t, "idle")
  BY DEF CasLookup
<1>3. UNCHANGED <<phase, made, db, rows, writer, won, twice, storeFaults>>
  BY DEF CasLookup
<1> HIDE DEF call
<1> QED
  BY <1>1, <1>2, <1>3, LookupKeeps DEF Writing

LEMMA DeleteRowKeeps == ASSUME StoreInv, NEW t \in Threads, DeleteRow(t) PROVE StoreInv'
<1> DEFINE s == calls[t].store
<1>0. s \in Stores
  BY DEF StoreInv, StoreTypeOK, Call
<1>1. CASE writer = NoThread
  <2>1. /\ Reply(t, "deleted")
        /\ db' = db \ {s}
        /\ rows' = [rows EXCEPT ![s] = NoRow]
        /\ won' = [won EXCEPT ![s] = {}]
        /\ twice' = twice \ {s}
        /\ UNCHANGED <<phase, made, writer, storeFaults>>
    BY <1>1 DEF DeleteRow
  <2>2. /\ calls' \in [Threads -> Call]
        /\ \A u \in Threads : u # t => calls'[u] = calls[u]
        /\ calls'[t].pc = "idle"
    BY <2>1, ReplyGives DEF StoreInv, Replies
  <2>3. \A u \in Threads : calls[u].pc \notin Writing
    BY <1>1, NobodyWrites
  <2>4. rows' \in [Stores -> Values \cup {NoRow}] /\ won' \in [Stores -> SUBSET (Values \cup {Missing})]
    BY <2>1 DEF StoreInv, StoreTypeOK
  <2>5. StoreTypeOK'
    BY <2>1, <2>2, <2>4 DEF StoreInv, StoreTypeOK
  <2>6. (OneWriter /\ ReadHolds)'
    BY <2>2, <2>3 DEF StoreInv, OneWriter, ReadHolds, Writing
  <2>7. \A r \in Stores : /\ rows'[r] = IF r = s THEN NoRow ELSE rows[r]
                          /\ won'[r] = IF r = s THEN {} ELSE won[r]
    BY <2>1 DEF StoreInv, StoreTypeOK
  <2>8. (Replaced /\ FileRead /\ RowsHaveStores /\ CountersExact)'
    BY <2>1, <2>7 DEF StoreInv, Replaced, FileRead, RowsHaveStores, CountersExact
  <2> QED
    BY <2>5, <2>6, <2>8 DEF StoreInv
<1>2. CASE writer # NoThread
  <2>1. Reply(t, "io_error") /\ UNCHANGED <<db, rows, won, twice, phase, made, writer, storeFaults>>
    BY <1>2 DEF DeleteRow
  <2>2. /\ calls' \in [Threads -> Call]
        /\ \A u \in Threads : u # t => calls'[u] = calls[u]
        /\ calls'[t].pc = "idle"
    BY <2>1, ReplyGives DEF StoreInv, Replies
  <2>3. StoreTypeOK'
    BY <2>1, <2>2 DEF StoreInv, StoreTypeOK
  <2>4. (OneWriter /\ ReadHolds)'
    BY <2>1, <2>2 DEF StoreInv, OneWriter, ReadHolds, Writing
  <2>5. (Replaced /\ FileRead /\ RowsHaveStores /\ CountersExact)'
    BY <2>1 DEF StoreInv, Replaced, FileRead, RowsHaveStores, CountersExact
  <2> QED
    BY <2>3, <2>4, <2>5 DEF StoreInv
<1> QED
  BY <1>1, <1>2

\* A step of one call that leaves the database alone.
LEMMA CallSteps ==
  ASSUME StoreInv, NEW t \in Threads, phase = "up",
         calls' \in [Threads -> Call],
         \A u \in Threads : u # t => calls'[u] = calls[u],
         writer' \in {writer, t, NoThread},
         writer' = t => writer \in {t, NoThread},
         writer' = NoThread => writer \in {t, NoThread},
         calls'[t].pc \in Writing => writer' = t,
         calls'[t].pc \in {"begin"} \cup Writing => calls'[t].new = calls'[t].expected + 1,
         calls'[t].pc = "commit" => rows[calls'[t].store] = calls'[t].expected /\ calls'[t].store \in db,
         UNCHANGED <<phase, made, db, rows, won, twice>>,
         storeFaults' \in 0..MaxStoreFaults
  PROVE  StoreInv'
<1>1. StoreTypeOK'
  BY DEF StoreInv, StoreTypeOK
<1>2. \A u \in Threads : u # t /\ calls[u].pc \in Writing => writer = u /\ writer' = u
  BY StoreConstants DEF StoreInv, OneWriter
<1>3. OneWriter'
  BY <1>2 DEF OneWriter
<1>4. ReadHolds'
  BY DEF StoreInv, ReadHolds
<1>5. (Replaced /\ FileRead /\ RowsHaveStores /\ CountersExact)'
  BY DEF StoreInv, Replaced, FileRead, RowsHaveStores, CountersExact
<1> QED
  BY <1>1, <1>3, <1>4, <1>5 DEF StoreInv

LEMMA CasBeginKeeps == ASSUME StoreInv, NEW t \in Threads, CasBegin(t) PROVE StoreInv'
<1>0. /\ StoreTypeOK /\ phase = "up" /\ calls[t].pc = "begin"
      /\ calls[t].new = calls[t].expected + 1
      /\ UNCHANGED <<phase, made, db, rows, won, twice>>
      /\ storeFaults' \in 0..MaxStoreFaults
  BY DEF StoreInv, StoreTypeOK, ReadHolds, CasBegin, At
<1>1. CASE writer = NoThread /\ writer' = t /\ Step(t, "swap")
  <2>1. /\ calls' \in [Threads -> Call]
        /\ \A u \in Threads : u # t => calls'[u] = calls[u]
        /\ calls'[t].pc = "swap"
        /\ calls'[t].expected = calls[t].expected
        /\ calls'[t].new = calls[t].new
    BY <1>0, <1>1, StepGives
  <2> QED
    BY <1>0, <1>1, <2>1, CallSteps DEF Writing
<1>2. CASE writer # NoThread /\ UNCHANGED writer /\ Reply(t, "timeout")
  <2>1. /\ calls' \in [Threads -> Call]
        /\ \A u \in Threads : u # t => calls'[u] = calls[u]
        /\ calls'[t].pc = "idle"
    BY <1>0, <1>2, ReplyGives DEF Replies
  <2> QED
    BY <1>0, <1>2, <2>1, CallSteps DEF Writing
<1> QED
  BY <1>1, <1>2 DEF CasBegin

LEMMA CasSwapKeeps == ASSUME StoreInv, NEW t \in Threads, CasSwap(t) PROVE StoreInv'
<1>0. /\ StoreTypeOK /\ phase = "up" /\ calls[t].pc = "swap" /\ writer = t
      /\ calls[t].new = calls[t].expected + 1
      /\ UNCHANGED <<phase, made, db, rows, won, twice>>
      /\ storeFaults' \in 0..MaxStoreFaults
  BY DEF StoreInv, StoreTypeOK, ReadHolds, OneWriter, Writing, CasSwap, At
<1>1. CASE Matches(calls[t]) /\ calls[t].store \in db
  <2>0. Step(t, "commit") /\ writer' = writer
    BY <1>1 DEF CasSwap
  <2>1. /\ calls' \in [Threads -> Call]
        /\ \A u \in Threads : u # t => calls'[u] = calls[u]
        /\ calls'[t].pc = "commit"
        /\ calls'[t].store = calls[t].store
        /\ calls'[t].expected = calls[t].expected
        /\ calls'[t].new = calls[t].new
    BY <1>0, <2>0, StepGives
  <2> QED
    BY <1>0, <1>1, <2>0, <2>1, CallSteps DEF Writing, Matches
<1>2. CASE ~(Matches(calls[t]) /\ calls[t].store \in db)
  <2>0. writer' = NoThread /\ \E r \in Replies : Reply(t, r)
    BY <1>2 DEF CasSwap, Replies
  <2>1. /\ calls' \in [Threads -> Call]
        /\ \A u \in Threads : u # t => calls'[u] = calls[u]
        /\ calls'[t].pc = "idle"
    BY <1>0, <2>0, ReplyGives
  <2> QED
    BY <1>0, <2>0, <2>1, CallSteps DEF Writing
<1> QED
  BY <1>1, <1>2

LEMMA CasCommitKeeps == ASSUME StoreInv, NEW t \in Threads, CasCommit(t) PROVE StoreInv'
<1> DEFINE c == calls[t]
<1>0. /\ StoreTypeOK /\ phase = "up" /\ c.pc = "commit" /\ c \in Call /\ writer = t
      /\ c.new = c.expected + 1
      /\ rows[c.store] = c.expected /\ c.store \in db
      /\ writer' = NoThread
      /\ UNCHANGED <<phase, made, db>>
  BY DEF StoreInv, StoreTypeOK, ReadHolds, OneWriter, Writing, CasCommit, At
<1>1. CASE /\ Reply(t, "swapped")
           /\ rows' = [rows EXCEPT ![c.store] = c.new]
           /\ won' = [won EXCEPT ![c.store] = @ \cup {c.expected}]
           /\ twice' = IF c.expected \in won[c.store] THEN twice \cup {c.store} ELSE twice
           /\ UNCHANGED storeFaults
  <2>1. /\ calls' \in [Threads -> Call]
        /\ \A u \in Threads : u # t => calls'[u] = calls[u]
        /\ calls'[t].pc = "idle"
    BY <1>0, <1>1, ReplyGives DEF Replies
  <2>2. \A u \in Threads : u # t => calls[u].pc \notin Writing
    BY <1>0 DEF StoreInv, OneWriter
  <2>3. c.store \in Stores /\ c.new \in Values /\ c.expected \in Values \cup {Missing}
    BY <1>0 DEF Call
  <2>4. rows' \in [Stores -> Values \cup {NoRow}] /\ won' \in [Stores -> SUBSET (Values \cup {Missing})]
    BY <1>1, <2>3 DEF StoreInv, StoreTypeOK
  \* the value it replaces is above all that were replaced before
  <2>5. c.expected \notin won[c.store]
    BY <1>0, <2>3, StoreConstants DEF StoreInv, Replaced, Values, Missing
  <2>6. twice' = twice
    BY <1>1, <2>5
  <2>7. StoreTypeOK'
    BY <1>0, <1>1, <2>1, <2>4, <2>6 DEF StoreInv, StoreTypeOK
  <2>8. (OneWriter /\ ReadHolds)'
    BY <2>1, <2>2 DEF StoreInv, OneWriter, ReadHolds, Writing
  <2>9. \A r \in Stores : /\ rows'[r] = IF r = c.store THEN c.new ELSE rows[r]
                          /\ won'[r] = IF r = c.store THEN won[r] \cup {c.expected} ELSE won[r]
    BY <1>1 DEF StoreInv, StoreTypeOK
  <2>10. Replaced'
    <3>1. ASSUME NEW r \in Stores, r # c.store, NEW v \in won[r] PROVE v < rows[r]
      BY <3>1 DEF StoreInv, Replaced
    <3>2. ASSUME NEW v \in won[c.store] PROVE v < c.new
      <4>1. v < c.expected /\ v \in Values \cup {Missing}
        BY <1>0, <2>3, <3>2 DEF StoreInv, StoreTypeOK, Replaced
      <4> QED
        BY <1>0, <2>3, <4>1, StoreConstants DEF Values, Missing
    <3>3. c.expected < c.new
      BY <1>0, <2>3, StoreConstants DEF Values, Missing
    <3>4. ASSUME NEW r \in Stores, NEW v \in won'[r] PROVE v < rows'[r]
      <4>1. CASE r # c.store
        <5>1. won'[r] = won[r] /\ rows'[r] = rows[r]
          BY <2>9, <4>1
        <5> QED
          BY <3>1, <3>4, <4>1, <5>1
      <4>2. CASE r = c.store
        <5>1. won'[r] = won[r] \cup {c.expected} /\ rows'[r] = c.new
          BY <2>9, <4>2
        <5> QED
          BY <3>2, <3>3, <3>4, <4>2, <5>1
      <4> QED
        BY <4>1, <4>2
    <3> QED
      BY <3>4 DEF Replaced
  <2>11. RowsHaveStores'
    BY <1>0, <2>9 DEF StoreInv, RowsHaveStores
  <2>12. (FileRead /\ CountersExact)'
    BY <1>0, <2>6 DEF StoreInv, FileRead, CountersExact
  <2> QED
    BY <2>7, <2>8, <2>10, <2>11, <2>12 DEF StoreInv
<1>2. CASE Fault /\ Reply(t, "io_error") /\ UNCHANGED <<rows, won, twice>>
  <2>1. /\ calls' \in [Threads -> Call]
        /\ \A u \in Threads : u # t => calls'[u] = calls[u]
        /\ calls'[t].pc = "idle"
    BY <1>0, <1>2, ReplyGives DEF Replies
  <2>2. storeFaults' \in 0..MaxStoreFaults
    BY <1>0, <1>2, StoreConstants DEF Fault, StoreTypeOK
  <2> QED
    BY <1>0, <1>2, <2>1, <2>2, CallSteps DEF Writing
<1> QED
  BY <1>1, <1>2 DEF CasCommit

LEMMA StepKeeps == StoreInv /\ [StoreNext]_storeVars => StoreInv'
<1> SUFFICES ASSUME StoreInv, [StoreNext]_storeVars PROVE StoreInv'
  OBVIOUS
<1>1. CASE Open
  BY <1>1, OpenKeeps
<1>2. CASE MigrationDone \/ MigrationFails
  BY <1>2, MigrationKeeps
<1>3. CASE CrashRegistry
  BY <1>3, CrashKeeps
<1>4. CASE \E s \in Stores : CreateStore(s)
  BY <1>4, CreateKeeps
<1>5. CASE \E declared \in SUBSET Stores : DeclareStore(declared)
  BY <1>5, CreateKeeps DEF DeclareStore
<1>6. ASSUME NEW t \in Threads, NEW s \in Stores, DeleteLookup(t, s) PROVE StoreInv'
  BY <1>6, DeleteLookupKeeps
<1>7. ASSUME NEW t \in Threads, NEW s \in Stores, NEW v \in (Values \cup {Missing}) \ {MaxValue},
             CasLookup(t, s, v, v + 1)
      PROVE  StoreInv'
  BY <1>7, CasLookupKeeps
<1>8. ASSUME NEW t \in Threads, DeleteRow(t) \/ CasBegin(t) \/ CasSwap(t) \/ CasCommit(t) PROVE StoreInv'
  BY <1>8, DeleteRowKeeps, CasBeginKeeps, CasSwapKeeps, CasCommitKeeps
<1>9. CASE UNCHANGED storeVars
  BY <1>9 DEF storeVars, StoreInv, StoreTypeOK, OneWriter, ReadHolds, Replaced, FileRead, RowsHaveStores,
              CountersExact
<1> QED
  BY <1>1, <1>2, <1>3, <1>4, <1>5, <1>6, <1>7, <1>8, <1>9 DEF StoreNext

LEMMA InvAlways == StoreSpec => []StoreInv
<1>1. StoreInit => StoreInv
  BY InitInv
<1>2. StoreInv /\ [StoreNext]_storeVars => StoreInv'
  BY StepKeeps
<1> QED
  BY <1>1, <1>2, PTL DEF StoreSpec

\* The registry's variables keep their types.
THEOREM StoresTyped == StoreSpec => []StoreTypeOK
<1>1. StoreInv => StoreTypeOK
  BY DEF StoreInv
<1> QED
  BY <1>1, InvAlways, PTL

\* For any number of stores, threads, values, faults and restarts: no two calls
\* of cas are told that they replaced the same value of a row.
THEOREM CountersExactAlways == StoreSpec => []CountersExact
<1>1. StoreInv => CountersExact
  BY DEF StoreInv
<1> QED
  BY <1>1, InvAlways, PTL

\* A late commit never brings back a row of a store that was deleted.
THEOREM RowsHaveStoresAlways == StoreSpec => []RowsHaveStores
<1>1. StoreInv => RowsHaveStores
  BY DEF StoreInv
<1> QED
  BY <1>1, InvAlways, PTL

-----------------------------------------------------------------------------
(***************************************************************************)
(* EgressProxy.                                                            *)
(***************************************************************************)
\* While no write failed, neither the memory nor the file grants more than was
\* decided ...
Within(g, hs) == g.enabled => g.hosts \subseteq hs
GrantsWithin == netFaults = 0 => Within(netGrants[P], decision) /\ Within(netFiles[P], decision)

\* ... and what is allowed now has been so at some time of every request.
EverHolds == \A c \in Clients : Busy(c) => Standing(decision, disabledPacks) \subseteq ever[c]
HopsGranted == \A c \in Clients :
    Wired /\ netFaults = 0 /\ client[c].pc \in {"checked", "contacted"} => client[c].host \in ever[c]

\* The requests that hold a permit of the server that runs.
Holding == {c \in Clients : Busy(c) /\ client[c].own}
PermitsBalance ==
    /\ IF server = "absent" THEN Holding = {} /\ permits = 0
                            ELSE permits + Cardinality(Holding) = MaxWorkers
    /\ \A c \in Clients : client[c].pc = "waiting" => client[c].own

EgressInv == EgressTypeOK /\ GrantsWithin /\ EverHolds /\ HopsGranted /\ PermitsBalance

LEMMA OutType ==
  ASSUME EgressConstants
  PROVE  Out \in Request /\ Out.pc = "out" /\ ~Out.own
<1>1. \E h \in Hosts : TRUE
  BY DEF EgressConstants
<1>2. (CHOOSE h \in Hosts : TRUE) \in Hosts
  BY <1>1
<1>3. 0 \in 0..MaxRedirects
  BY DEF EgressConstants
<1>4. QED BY <1>2, <1>3 DEF Out, Request

\* A request holds a permit while a worker of the running server is at it.
Holds(r) == r.pc \in {"hop", "checked", "contacted"} /\ r.own

LEMMA HoldingFinite ==
  ASSUME EgressConstants
  PROVE  IsFiniteSet(Holding) /\ Cardinality(Holding) \in Nat
<1>1. Holding \in SUBSET Clients
  BY DEF Holding
<1>2. IsFiniteSet(Holding)
  BY <1>1, FS_Subset DEF EgressConstants
<1>3. QED BY <1>2, FS_CardinalityType

\* One request moves, and a permit moves with it where it begins or ends.
LEMMA OneClientMoves ==
  ASSUME EgressInv, EgressConstants, NEW c \in Clients, NEW r \in Request, NEW e \in SUBSET Hosts,
         client' = [client EXCEPT ![c] = r], ever' = [ever EXCEPT ![c] = e], Others, UNCHANGED server,
         r.pc \in {"hop", "checked", "contacted"} => Standing(decision, disabledPacks) \subseteq e,
         Wired /\ netFaults = 0 /\ r.pc \in {"checked", "contacted"} => r.host \in e,
         r.pc = "waiting" => r.own,
         Holds(r) => server # "absent",
         permits' \in Nat,
         permits' = (IF c \in Holding THEN permits + 1 ELSE permits) - (IF Holds(r) THEN 1 ELSE 0)
  PROVE  EgressInv'
<1>1. /\ \A d \in Clients : client'[d] = IF d = c THEN r ELSE client[d]
      /\ \A d \in Clients : ever'[d] = IF d = c THEN e ELSE ever[d]
      /\ client' \in [Clients -> Request] /\ ever' \in [Clients -> SUBSET Hosts]
  BY DEF EgressInv, EgressTypeOK
<1>2. UNCHANGED <<netGrants, netFiles, disabledPacks, netFaults, decision, server>>
  BY DEF Others, netVars
<1>3. GrantsWithin'
  BY <1>2 DEF EgressInv, GrantsWithin, Within
<1>4. EverHolds'
  BY <1>1, <1>2 DEF EgressInv, EverHolds, Busy, Standing
<1>5. HopsGranted'
  BY <1>1, <1>2 DEF EgressInv, HopsGranted
<1>6. Holding' = IF Holds(r) THEN Holding \cup {c} ELSE Holding \ {c}
  BY <1>1 DEF Holding, Holds, Busy
<1>7. /\ IsFiniteSet(Holding) /\ Cardinality(Holding) \in Nat
      /\ Cardinality(Holding \cup {c}) = IF c \in Holding THEN Cardinality(Holding) ELSE Cardinality(Holding) + 1
      /\ Cardinality(Holding \ {c}) = IF c \in Holding THEN Cardinality(Holding) - 1 ELSE Cardinality(Holding)
  BY HoldingFinite, FS_AddElement, FS_RemoveElement
<1>8. permits \in Nat
  BY DEF EgressInv, EgressTypeOK, EgressConstants
<1>9. IF server' = "absent" THEN Holding' = {} /\ permits' = 0
                            ELSE permits' + Cardinality(Holding') = MaxWorkers
  <2>1. CASE server = "absent"
    <3>1. Holding = {} /\ permits = 0 /\ ~Holds(r)
      BY <2>1 DEF EgressInv, PermitsBalance
    <3>2. QED BY <1>2, <1>6, <2>1, <3>1
  <2>2. CASE server # "absent"
    <3>1. permits + Cardinality(Holding) = MaxWorkers
      BY <2>2 DEF EgressInv, PermitsBalance
    <3>2. permits' + Cardinality(Holding') = permits + Cardinality(Holding)
      BY <1>6, <1>7, <1>8
    <3>3. QED BY <1>2, <2>2, <3>1, <3>2
  <2>3. QED BY <2>1, <2>2
<1>10. PermitsBalance'
  BY <1>1, <1>9 DEF EgressInv, PermitsBalance
<1>11. permits' \in 0..MaxWorkers
  <2>1. IsFiniteSet(Holding')
    BY <1>6, <1>7, FS_AddElement, FS_RemoveElement
  <2>2. Cardinality(Holding') \in Nat
    BY <2>1, FS_CardinalityType
  <2>3. \A m, n \in Nat : m + n = MaxWorkers => m \in 0..MaxWorkers
    BY DEF EgressConstants
  <2>4. 0 \in 0..MaxWorkers
    BY DEF EgressConstants
  <2>5. QED BY <1>9, <2>2, <2>3, <2>4
<1>12. EgressTypeOK'
  BY <1>1, <1>2, <1>11 DEF EgressInv, EgressTypeOK, NetTypeOK
<1>13. QED BY <1>3, <1>4, <1>5, <1>10, <1>12 DEF EgressInv

\* What a request in its place gives the lemma above.
LEMMA ClientFacts ==
  ASSUME EgressInv, NEW c \in Clients
  PROVE  /\ client[c] \in Request /\ ever[c] \in SUBSET Hosts
         /\ ever = [ever EXCEPT ![c] = ever[c]]
         /\ permits \in 0..MaxWorkers
         /\ c \in Holding <=> Holds(client[c])
         /\ Holds(client[c]) => server # "absent"
         /\ client[c].pc \in {"hop", "checked", "contacted"} => Standing(decision, disabledPacks) \subseteq ever[c]
         /\ Wired /\ netFaults = 0 /\ client[c].pc \in {"checked", "contacted"} => client[c].host \in ever[c]
         /\ client[c].pc = "waiting" => client[c].own
<1>1. client[c] \in Request /\ ever[c] \in SUBSET Hosts /\ permits \in 0..MaxWorkers
  BY DEF EgressInv, EgressTypeOK
<1>2. ever = [ever EXCEPT ![c] = ever[c]]
  BY DEF EgressInv, EgressTypeOK
<1>3. c \in Holding <=> Holds(client[c])
  BY DEF Holding, Holds, Busy
<1>4. Holds(client[c]) => server # "absent"
  BY <1>3 DEF EgressInv, PermitsBalance
<1>5. QED BY <1>1, <1>2, <1>3, <1>4 DEF EgressInv, EverHolds, HopsGranted, PermitsBalance, Busy

\* The end of a request.
LEMMA FinishMoves ==
  ASSUME EgressInv, EgressConstants, NEW c \in Clients, Busy(c), Finish(c)
  PROVE  EgressInv'
<1>1. /\ client' = [client EXCEPT ![c] = Out] /\ ever' = [ever EXCEPT ![c] = {}]
      /\ permits' = IF client[c].own THEN permits + 1 ELSE permits
      /\ UNCHANGED server /\ Others
  BY DEF Finish
<1>2. c \in Holding <=> client[c].own
  BY DEF Holding
<1>3. ~Holds(Out) /\ Out \in Request /\ Out.pc = "out"
  BY OutType DEF Holds
<1>4. permits \in Nat
  BY DEF EgressInv, EgressTypeOK, EgressConstants
<1>5. permits' \in Nat /\ permits' = (IF c \in Holding THEN permits + 1 ELSE permits) - 0
  BY <1>1, <1>2, <1>4
<1>6. permits' = (IF c \in Holding THEN permits + 1 ELSE permits) - (IF Holds(Out) THEN 1 ELSE 0)
  BY <1>3, <1>5
<1>7. {} \in SUBSET Hosts
  OBVIOUS
<1>8. QED BY <1>1, <1>3, <1>5, <1>6, <1>7, OneClientMoves

LEMMA ConnectMoves ==
  ASSUME EgressInv, EgressConstants, NEW c \in Clients, NEW h \in Hosts, Connect(c, h)
  PROVE  EgressInv'
<1> DEFINE r == [pc |-> "waiting", host |-> h, hops |-> 0, own |-> TRUE]
<1>1. r \in Request /\ r.pc = "waiting" /\ r.own /\ ~Holds(r)
  <2>1. 0 \in 0..MaxRedirects
    BY DEF EgressConstants
  <2>2. QED BY <2>1 DEF Request, Holds
<1>2. /\ client' = [client EXCEPT ![c] = r] /\ Others /\ client[c].pc = "out"
      /\ UNCHANGED <<server, permits, ever>>
  BY DEF Connect
<1>3. c \notin Holding /\ permits \in Nat
  BY <1>2, ClientFacts DEF Holds, EgressConstants
<1> HIDE DEF r
<1>4. permits' = (IF c \in Holding THEN permits + 1 ELSE permits) - (IF Holds(r) THEN 1 ELSE 0)
  BY <1>1, <1>2, <1>3
<1>5. QED BY <1>1, <1>2, <1>3, <1>4, ClientFacts, OneClientMoves

LEMMA AcceptMoves ==
  ASSUME EgressInv, EgressConstants, NEW c \in Clients, Accept(c)
  PROVE  EgressInv'
<1>1. /\ client[c] \in Request /\ client[c].pc = "waiting" /\ client[c].own /\ server = "running"
      /\ permits \in Nat /\ c \notin Holding /\ UNCHANGED server /\ Others
  BY ClientFacts DEF Accept, Holds, EgressConstants
<1>2. CASE permits = 0
  <2>1. client' = [client EXCEPT ![c] = Out] /\ UNCHANGED <<permits, ever>>
    BY <1>2 DEF Accept
  <2>2. Out \in Request /\ Out.pc = "out" /\ ~Holds(Out)
    BY OutType DEF Holds
  <2>3. permits' = (IF c \in Holding THEN permits + 1 ELSE permits) - (IF Holds(Out) THEN 1 ELSE 0)
    BY <1>1, <2>1, <2>2
  <2>4. QED BY <1>1, <2>1, <2>2, <2>3, ClientFacts, OneClientMoves
<1>3. CASE permits # 0
  <2> DEFINE r == [client[c] EXCEPT !.pc = "hop"]  e == Standing(decision, disabledPacks)
  <2>1. /\ client' = [client EXCEPT ![c] = r] /\ ever' = [ever EXCEPT ![c] = e] /\ permits' = permits - 1
    BY <1>3 DEF Accept
  <2>2. r \in Request /\ r.pc = "hop" /\ Holds(r)
    BY <1>1 DEF Request, Holds
  <2>3. e \in SUBSET Hosts
    BY DEF Standing, EgressInv, EgressTypeOK
  <2>4. permits' \in Nat
    BY <1>1, <1>3, <2>1
  <2> HIDE DEF r, e
  <2>5. permits' = (IF c \in Holding THEN permits + 1 ELSE permits) - (IF Holds(r) THEN 1 ELSE 0)
    BY <1>1, <2>1, <2>2
  <2>6. Standing(decision, disabledPacks) \subseteq e
    BY DEF e
  <2>7. QED BY <1>1, <2>1, <2>2, <2>3, <2>4, <2>5, <2>6, OneClientMoves
<1>4. QED BY <1>2, <1>3

\* A hop is checked against the grant of the moment, contacted, or leads on.
LEMMA HopMoves ==
  ASSUME EgressInv, EgressConstants, NEW c \in Clients,
         CheckHop(c) \/ Contact(c) \/ \E h \in Hosts : Redirect(c, h)
  PROVE  EgressInv'
<1>1. /\ client[c] \in Request /\ ever[c] \in SUBSET Hosts /\ permits \in Nat
      /\ Standing(decision, disabledPacks) \subseteq ever[c]
      /\ UNCHANGED <<server, permits, ever>> /\ Others
  <2>1. client[c].pc \in {"hop", "checked", "contacted"} /\ UNCHANGED <<server, permits, ever>> /\ Others
    BY DEF CheckHop, Contact, Redirect
  <2>2. permits \in Nat
    BY ClientFacts DEF EgressConstants
  <2>3. QED BY <2>1, <2>2, ClientFacts
<1>2. ever' = [ever EXCEPT ![c] = ever[c]]
  BY <1>1, ClientFacts
<1>3. ASSUME NEW r \in Request, client' = [client EXCEPT ![c] = r],
             r.pc \in {"hop", "checked", "contacted"}, r.own = client[c].own,
             Wired /\ netFaults = 0 /\ r.pc \in {"checked", "contacted"} => r.host \in ever[c]
      PROVE  EgressInv'
  <2>1. client[c].pc \in {"hop", "checked", "contacted"}
    BY DEF CheckHop, Contact, Redirect
  <2>2. Holds(r) <=> c \in Holding
    BY <1>3, <2>1, ClientFacts DEF Holds
  <2>3. permits' = (IF c \in Holding THEN permits + 1 ELSE permits) - (IF Holds(r) THEN 1 ELSE 0)
    BY <1>1, <2>2
  <2>4. Holds(r) => server # "absent"
    BY <2>2, ClientFacts
  <2>5. permits' \in Nat
    BY <1>1
  <2>6. QED BY <1>1, <1>2, <1>3, <2>3, <2>4, <2>5, OneClientMoves
<1>4. CASE CheckHop(c)
  <2> DEFINE r == [client[c] EXCEPT !.pc = "checked"]
  <2>1. r \in Request /\ r.pc = "checked" /\ r.own = client[c].own /\ r.host = client[c].host
    BY <1>1 DEF Request
  <2>2. client' = [client EXCEPT ![c] = r] /\ (Wired => Allowed(P, client[c].host))
    BY <1>4 DEF CheckHop, GrantOK
  <2>3. Wired /\ netFaults = 0 => client[c].host \in ever[c]
    BY <1>1, <2>2 DEF Allowed, EgressInv, GrantsWithin, Within, Standing
  <2> HIDE DEF r
  <2>4. QED BY <1>3, <2>1, <2>2, <2>3
<1>5. CASE Contact(c)
  <2> DEFINE r == [client[c] EXCEPT !.pc = "contacted"]
  <2>1. r \in Request /\ r.pc = "contacted" /\ r.own = client[c].own /\ r.host = client[c].host
    BY <1>1 DEF Request
  <2>2. client' = [client EXCEPT ![c] = r] /\ client[c].pc = "checked"
    BY <1>5 DEF Contact
  <2>3. Wired /\ netFaults = 0 => client[c].host \in ever[c]
    BY <2>2, ClientFacts
  <2> HIDE DEF r
  <2>4. QED BY <1>3, <2>1, <2>2, <2>3
<1>6. ASSUME NEW h \in Hosts, Redirect(c, h) PROVE EgressInv'
  <2> DEFINE r == [client[c] EXCEPT !.pc = "hop", !.host = h, !.hops = client[c].hops + 1]
  <2>1. client' = [client EXCEPT ![c] = r] /\ client[c].hops < MaxRedirects
    BY <1>6 DEF Redirect
  <2>2. client[c].hops \in 0..MaxRedirects /\ MaxRedirects \in Nat
    BY <1>1 DEF Request, EgressConstants
  <2>3. client[c].hops + 1 \in 0..MaxRedirects
    BY <2>1, <2>2
  <2>4. r \in Request /\ r.pc = "hop" /\ r.own = client[c].own
    BY <1>1, <2>3 DEF Request
  <2> HIDE DEF r
  <2>5. QED BY <1>3, <2>1, <2>4
<1>7. QED BY <1>4, <1>5, <1>6

\* The server comes and goes; its workers keep the permits of the one that was.
LEMMA ServerMoves ==
  ASSUME EgressInv, EgressConstants, EnsurePackSocket \/ StopPackServer \/ AcceptFails
  PROVE  EgressInv'
<1>1. UNCHANGED <<netGrants, netFiles, disabledPacks, netFaults, decision, ever>>
  BY DEF EnsurePackSocket, StopPackServer, AcceptFails, Others, netVars
<1>2. GrantsWithin'
  BY <1>1 DEF EgressInv, GrantsWithin, Within
<1>3. server' \in {"absent", "running", "deaf"} /\ permits' \in 0..MaxWorkers
  BY DEF EnsurePackSocket, StopPackServer, AcceptFails, EgressInv, EgressTypeOK, EgressConstants
<1>4. CASE StopPackServer
  <2>1. \A c \in Clients : client'[c] = IF client[c].pc = "waiting" THEN Out ELSE [client[c] EXCEPT !.own = FALSE]
    BY <1>4 DEF StopPackServer
  <2>2. ASSUME NEW c \in Clients
        PROVE  /\ client'[c] \in Request /\ ~client'[c].own /\ client'[c].pc # "waiting"
               /\ client'[c].pc \in {"hop", "checked", "contacted"} =>
                     client'[c].pc = client[c].pc /\ client'[c].host = client[c].host
    <3>1. client[c] \in Request
      BY ClientFacts
    <3>2. CASE client[c].pc = "waiting"
      BY <2>1, <3>2, OutType
    <3>3. CASE client[c].pc # "waiting"
      <4> DEFINE r == [client[c] EXCEPT !.own = FALSE]
      <4>1. r \in Request /\ ~r.own /\ r.pc = client[c].pc /\ r.host = client[c].host
        BY <3>1 DEF Request
      <4>2. client'[c] = r
        BY <2>1, <3>3
      <4> HIDE DEF r
      <4>3. QED BY <3>3, <4>1, <4>2
    <3>4. QED BY <3>2, <3>3
  <2>3. client' \in [Clients -> Request]
    BY <1>4, <2>1, <2>2 DEF StopPackServer
  <2>4. EgressTypeOK'
    BY <1>1, <1>3, <2>3 DEF EgressInv, EgressTypeOK, NetTypeOK
  <2>5. EverHolds' /\ HopsGranted'
    BY <1>1, <2>2 DEF EgressInv, EverHolds, HopsGranted, Busy, Standing
  <2>6. PermitsBalance'
    <3>1. server' = "absent" /\ permits' = 0
      BY <1>4 DEF StopPackServer
    <3>2. Holding' = {}
      BY <2>2 DEF Holding
    <3>3. QED BY <2>2, <3>1, <3>2 DEF PermitsBalance
  <2>7. QED BY <1>2, <2>4, <2>5, <2>6 DEF EgressInv
<1>5. CASE EnsurePackSocket \/ AcceptFails
  <2>1. UNCHANGED client
    BY <1>5 DEF EnsurePackSocket, AcceptFails
  <2>2. EgressTypeOK'
    BY <1>1, <1>3, <2>1 DEF EgressInv, EgressTypeOK, NetTypeOK
  <2>3. EverHolds' /\ HopsGranted' /\ Holding' = Holding
    BY <1>1, <2>1 DEF EgressInv, EverHolds, HopsGranted, Busy, Standing, Holding
  <2>4. CASE EnsurePackSocket
    <3>1. server = "absent" /\ server' = "running" /\ permits' = MaxWorkers
      BY <2>4 DEF EnsurePackSocket
    <3>2. Cardinality(Holding') = 0
      BY <2>3, <3>1, FS_EmptySet DEF EgressInv, PermitsBalance
    <3>3. permits' + Cardinality(Holding') = MaxWorkers
      BY <3>1, <3>2 DEF EgressConstants
    <3>4. PermitsBalance'
      BY <2>1, <3>1, <3>3 DEF EgressInv, PermitsBalance
    <3>5. QED BY <1>2, <2>2, <2>3, <3>4 DEF EgressInv
  <2>5. CASE AcceptFails
    <3>1. server = "running" /\ server' = "deaf" /\ permits' = permits
      BY <2>5 DEF AcceptFails
    <3>2. PermitsBalance'
      BY <2>1, <2>3, <3>1 DEF EgressInv, PermitsBalance
    <3>3. QED BY <1>2, <2>2, <2>3, <3>2 DEF EgressInv
  <2>6. QED BY <1>5, <2>4, <2>5
<1>6. QED BY <1>4, <1>5

\* A decision about the pack, which adds to what each request has seen allowed.
LEMMA DecisionMoves ==
  ASSUME EgressInv, EgressConstants, NEW hs \in SUBSET Hosts, Decided(hs),
         NetTypeOK', GrantsWithin', netFaults' \in Nat, netFaults' = 0 => netFaults = 0
  PROVE  EgressInv'
<1>1. /\ decision' = hs /\ UNCHANGED <<server, permits, client>>
      /\ \A c \in Clients : ever'[c] = IF Busy(c) THEN ever[c] \cup Standing(hs, disabledPacks') ELSE {}
      /\ ever' \in [Clients -> SUBSET Hosts]
  BY DEF Decided, Standing, EgressInv, EgressTypeOK
<1>2. \A c \in Clients : Busy(c)' <=> Busy(c)
  BY <1>1 DEF Busy
<1>3. EgressTypeOK'
  BY <1>1 DEF EgressInv, EgressTypeOK
<1>4. EverHolds'
  BY <1>1, <1>2 DEF EverHolds
<1>5. HopsGranted'
  BY <1>1 DEF EgressInv, HopsGranted, Busy
<1>6. PermitsBalance'
  BY <1>1, <1>2 DEF EgressInv, PermitsBalance, Holding
<1>7. QED BY <1>3, <1>4, <1>5, <1>6 DEF EgressInv

LEMMA DecideMoves ==
  ASSUME EgressInv, EgressConstants, Decide
  PROVE  EgressInv'
<1>1. /\ netGrants \in [Packs -> NetGrant] /\ netFiles \in [Packs -> NetGrant \cup {BadGrant}]
      /\ disabledPacks \subseteq Packs /\ netFaults \in 0..MaxNetFaults /\ decision \subseteq Hosts
      /\ P \in Packs /\ MaxNetFaults \in Nat
  BY DEF EgressInv, EgressTypeOK, NetTypeOK, EgressConstants
<1>2. ASSUME NEW g \in NetGrant, NEW hs \in SUBSET Hosts, SaveGrant(P, g), Within(g, hs), Decided(hs),
             disabledPacks' \subseteq Packs
      PROVE  EgressInv'
  <2>1. /\ netGrants' = [netGrants EXCEPT ![P] = g]
        /\ \/ netFiles' = [netFiles EXCEPT ![P] = g] /\ UNCHANGED netFaults
           \/ netFaults < MaxNetFaults /\ netFaults' = netFaults + 1 /\ UNCHANGED netFiles
    BY <1>2 DEF SaveGrant
  <2>2. netFaults' \in 0..MaxNetFaults /\ (netFaults' = 0 => netFaults = 0 /\ netFiles' = [netFiles EXCEPT ![P] = g])
    BY <1>1, <2>1
  <2>3. NetTypeOK'
    BY <1>1, <1>2, <2>1, <2>2 DEF NetTypeOK
  <2>4. GrantsWithin'
    BY <1>1, <1>2, <2>1, <2>2 DEF GrantsWithin, Decided, Within
  <2>5. QED BY <1>1, <1>2, <2>2, <2>3, <2>4, DecisionMoves
<1>3. ASSUME NEW hs \in GrantSets, GrantNetworkAccess(P, hs), Decided(hs) PROVE EgressInv'
  <2> DEFINE g == [there |-> TRUE, enabled |-> TRUE, hosts |-> hs]
  <2>1. hs \in SUBSET Hosts
    BY DEF EgressConstants
  <2>2. g \in NetGrant /\ Within(g, hs)
    BY <2>1 DEF NetGrant, Within
  <2>3. SaveGrant(P, g) /\ disabledPacks' = disabledPacks \ {P}
    BY <1>3 DEF GrantNetworkAccess
  <2> HIDE DEF g
  <2>4. QED BY <1>1, <1>2, <1>3, <2>1, <2>2, <2>3
<1>4. ASSUME RevokeNetworkAccess(P), Decided({}) PROVE EgressInv'
  <2> DEFINE g == [netGrants[P] EXCEPT !.enabled = FALSE]
  <2>1. g \in NetGrant /\ Within(g, {})
    BY <1>1 DEF NetGrant, Within
  <2>2. SaveGrant(P, g) /\ UNCHANGED disabledPacks /\ {} \in SUBSET Hosts
    BY <1>4 DEF RevokeNetworkAccess
  <2> HIDE DEF g
  <2>3. QED BY <1>1, <1>2, <1>4, <2>1, <2>2
<1>5. ASSUME DeleteGrant(P), Decided({}) PROVE EgressInv'
  <2>1. /\ netGrants' = [netGrants EXCEPT ![P] = NoGrant] /\ netFiles' = [netFiles EXCEPT ![P] = NoGrant]
        /\ UNCHANGED <<disabledPacks, netFaults>> /\ NoGrant \in NetGrant /\ ~NoGrant.enabled
    BY <1>5 DEF DeleteGrant, NoGrant, NetGrant
  <2>2. NetTypeOK' /\ {} \in SUBSET Hosts
    BY <1>1, <2>1 DEF NetTypeOK
  <2>3. GrantsWithin'
    BY <1>1, <2>1 DEF GrantsWithin, Within
  <2>4. QED BY <1>1, <1>5, <2>1, <2>2, <2>3, DecisionMoves
<1>6. ASSUME DisableForModified(P) \/ DamageGrant(P), Decided(decision) PROVE EgressInv'
  <2>1. /\ UNCHANGED netGrants /\ disabledPacks' \subseteq Packs
        /\ \/ UNCHANGED <<netFiles, netFaults>>
           \/ netFaults < MaxNetFaults /\ netFaults' = netFaults + 1 /\ netFiles' = [netFiles EXCEPT ![P] = BadGrant]
    BY <1>1, <1>6 DEF DisableForModified, DamageGrant
  <2>2. netFaults' \in 0..MaxNetFaults /\ (netFaults' = 0 => netFaults = 0 /\ UNCHANGED netFiles)
    BY <1>1, <2>1
  <2>3. NetTypeOK'
    BY <1>1, <2>1, <2>2 DEF NetTypeOK
  <2>4. decision' = decision
    BY <1>6 DEF Decided
  <2>5. GrantsWithin'
    BY <2>1, <2>2, <2>4 DEF GrantsWithin, EgressInv
  <2>6. QED BY <1>1, <1>6, <2>2, <2>3, <2>5, DecisionMoves
<1>7. QED BY <1>3, <1>4, <1>5, <1>6 DEF Decide

LEMMA RestartEgressMoves ==
  ASSUME EgressInv, EgressConstants, RestartEgress
  PROVE  EgressInv'
<1>1. /\ netGrants \in [Packs -> NetGrant] /\ netFiles \in [Packs -> NetGrant \cup {BadGrant}]
      /\ netFaults \in 0..MaxNetFaults /\ decision \subseteq Hosts /\ P \in Packs /\ MaxWorkers \in Nat
  BY DEF EgressInv, EgressTypeOK, NetTypeOK, EgressConstants
<1>2. /\ netGrants' = [p \in Packs |-> IF netFiles[p] = BadGrant THEN NoGrant ELSE netFiles[p]]
      /\ disabledPacks' \subseteq Packs /\ UNCHANGED <<netFiles, netFaults, decision>>
      /\ server' = "absent" /\ permits' = 0
      /\ client' = [c \in Clients |-> Out] /\ ever' = [c \in Clients |-> {}]
  BY DEF RestartEgress, RestartGrants
<1>3. NoGrant \in NetGrant /\ ~NoGrant.enabled
  BY DEF NoGrant, NetGrant
<1>4. Out \in Request /\ \A c \in Clients : client'[c].pc = "out"
  BY <1>2, OutType
<1>5. NetTypeOK'
  <2>1. netGrants' \in [Packs -> NetGrant]
    BY <1>1, <1>2, <1>3
  <2>2. QED BY <1>1, <1>2, <2>1 DEF NetTypeOK
<1>6. EgressTypeOK'
  BY <1>1, <1>2, <1>4, <1>5 DEF EgressTypeOK
<1>7. GrantsWithin'
  <2>1. netGrants'[P] = IF netFiles[P] = BadGrant THEN NoGrant ELSE netFiles[P]
    BY <1>1, <1>2
  <2>2. QED BY <1>2, <1>3, <2>1 DEF EgressInv, GrantsWithin, Within
<1>8. EverHolds' /\ HopsGranted' /\ Holding' = {}
  BY <1>4 DEF EverHolds, HopsGranted, Holding, Busy
<1>9. PermitsBalance'
  BY <1>2, <1>4, <1>8 DEF PermitsBalance
<1>10. QED BY <1>6, <1>7, <1>8, <1>9 DEF EgressInv

LEMMA EgressInvInit == ASSUME EgressConstants, EgressInit PROVE EgressInv
<1>1. /\ netGrants = [p \in Packs |-> NoGrant] /\ netFiles = [p \in Packs |-> NoGrant]
      /\ disabledPacks = {} /\ netFaults = 0 /\ server = "absent" /\ permits = 0
      /\ client = [c \in Clients |-> Out] /\ decision = {} /\ ever = [c \in Clients |-> {}]
      /\ P \in Packs /\ MaxWorkers \in Nat /\ MaxNetFaults \in Nat
  BY DEF EgressInit, NetInit, EgressConstants
<1>2. NoGrant \in NetGrant /\ ~NoGrant.enabled
  BY DEF NoGrant, NetGrant
<1>3. Out \in Request /\ \A c \in Clients : client[c].pc = "out"
  BY <1>1, OutType
<1>4. EgressTypeOK
  BY <1>1, <1>2, <1>3 DEF EgressTypeOK, NetTypeOK
<1>5. GrantsWithin
  BY <1>1, <1>2 DEF GrantsWithin, Within
<1>6. EverHolds /\ HopsGranted /\ Holding = {}
  BY <1>3 DEF EverHolds, HopsGranted, Holding, Busy
<1>7. PermitsBalance
  BY <1>1, <1>3, <1>6 DEF PermitsBalance
<1>8. QED BY <1>4, <1>5, <1>6, <1>7 DEF EgressInv

LEMMA EgressInvNext == ASSUME EgressConstants, EgressInv, [EgressNext]_egressVars PROVE EgressInv'
<1>1. CASE UNCHANGED egressVars
  BY <1>1 DEF egressVars, netVars, EgressInv, EgressTypeOK, NetTypeOK, GrantsWithin, EverHolds, HopsGranted,
              PermitsBalance, Holding, Busy, Standing
<1>2. ASSUME NEW c \in Clients, BlockedHop(c) \/ RefusedHop(c) \/ Respond(c) PROVE EgressInv'
  BY <1>2, FinishMoves DEF BlockedHop, RefusedHop, Respond, Busy
<1>3. QED BY <1>1, <1>2, DecideMoves, ServerMoves, RestartEgressMoves, ConnectMoves, AcceptMoves, HopMoves
          DEF EgressNext

\* The grants, the server and its requests stay what they are, and the permits
\* in range.
THEOREM EgressTyped == ASSUME EgressConstants PROVE EgressSpec => []EgressTypeOK
<1>1. EgressSpec => []EgressInv
  BY EgressInvInit, EgressInvNext, PTL DEF EgressSpec
<1>2. QED BY <1>1, PTL DEF EgressInv

\* Every hop of a request goes to a host that was granted at some time since the
\* request was accepted, and no worker of a running server is lost: the checks of
\* execute_http_request, and the semaphore that its worker releases.
THEOREM NetworkIsSound == ASSUME EgressConstants PROVE EgressSpec => []NetworkSound
<1>1. EgressSpec => []EgressInv
  BY EgressInvInit, EgressInvNext, PTL DEF EgressSpec
<1>2. EgressInv => NetworkSound
  BY DEF EgressInv, HopsGranted, PermitsBalance, Holding, NetworkSound, ContactsGranted, PermitsKept
<1>3. QED BY <1>1, <1>2, PTL

-----------------------------------------------------------------------------
(***************************************************************************)
(* Containers: their number, and what the limiter counts.                  *)
(***************************************************************************)
\* No container is there before Docker was asked, and one that runs is entered
\* unless it was left behind.
RunsEntered == \A r \in Runs :
    /\ run[r].pc \in {"new", "entered"} => daemon[r] = "none"
    /\ run[r].pc = "entered" \/ daemon[r] = "up" => r \in active \cup loose

EnteredBy(p) == {r \in active : run[r].by = p}
UnderLimit == \A p \in Principals : Cardinality(EnteredBy(p)) <= MaxContainers

DockerInv == DockerTypeOK /\ RunsEntered /\ UnderLimit

LEMMA SubsetBounded ==
  ASSUME NEW S, NEW T, IsFiniteSet(S), T \subseteq S, NEW n \in Nat, Cardinality(S) <= n
  PROVE  Cardinality(T) <= n
<1>1. IsFiniteSet(T) /\ Cardinality(T) <= Cardinality(S)
  BY FS_Subset
<1>2. Cardinality(T) \in Nat /\ Cardinality(S) \in Nat
  BY <1>1, FS_CardinalityType
<1>3. QED BY <1>1, <1>2

LEMMA EnteredFinite ==
  ASSUME DockerConstants, DockerTypeOK, NEW p
  PROVE  IsFiniteSet(EnteredBy(p)) /\ Cardinality(EnteredBy(p)) \in Nat
<1>1. EnteredBy(p) \subseteq Runs
  BY DEF EnteredBy, DockerTypeOK
<1>2. IsFiniteSet(EnteredBy(p))
  BY <1>1, FS_Subset DEF DockerConstants
<1>3. QED BY <1>2, FS_CardinalityType

\* A run goes on, and nobody's containers become another's.
LEMMA RunGoes ==
  ASSUME DockerTypeOK, NEW r \in Runs, NEW pc \in {"new", "entered", "waiting", "answered"}, Goes(r, pc)
  PROVE  /\ run' \in [Runs -> [by: Principals, pc: {"new", "entered", "waiting", "answered"}]]
         /\ run'[r].pc = pc
         /\ \A q \in Runs : run'[q].by = run[q].by /\ (q # r => run'[q].pc = run[q].pc)
BY DEF DockerTypeOK, Goes

LEMMA LimitHolds ==
  ASSUME DockerConstants, DockerInv, \A q \in Runs : run'[q].by = run[q].by,
         active' \subseteq active
  PROVE  UnderLimit'
<1>1. SUFFICES ASSUME NEW p \in Principals PROVE Cardinality(EnteredBy(p)') <= MaxContainers
  BY DEF UnderLimit
<1>2. EnteredBy(p)' \subseteq EnteredBy(p)
  BY DEF EnteredBy, DockerInv, DockerTypeOK
<1>3. IsFiniteSet(EnteredBy(p))
  BY EnteredFinite DEF DockerInv
<1>4. Cardinality(EnteredBy(p)) <= MaxContainers /\ MaxContainers \in Nat
  BY DEF DockerInv, UnderLimit, DockerConstants
<1>5. QED BY <1>2, <1>3, <1>4, SubsetBounded

LEMMA DockerBegins == DockerConstants /\ DockerInit => DockerInv
<1>1. SUFFICES ASSUME DockerConstants, DockerInit PROVE DockerInv
  OBVIOUS
<1>2. \A p \in Principals : EnteredBy(p) = {}
  BY <1>1 DEF DockerInit, EnteredBy
<1>3. UnderLimit
  BY <1>1, <1>2, FS_EmptySet DEF UnderLimit, DockerConstants
<1>4. DockerTypeOK /\ RunsEntered
  BY <1>1 DEF DockerInit, DockerTypeOK, RunsEntered
<1>5. QED BY <1>3, <1>4 DEF DockerInv

LEMMA DockerSteps ==
  ASSUME DockerConstants, DockerInv, [DockerNext]_dockerVars
  PROVE  DockerInv'
<1>1. CASE UNCHANGED dockerVars
  <2>1. DockerTypeOK' /\ RunsEntered'
    BY <1>1 DEF DockerInv, DockerTypeOK, RunsEntered, dockerVars
  <2>2. UnderLimit'
    BY <1>1, LimitHolds DEF dockerVars
  <2>3. QED BY <2>1, <2>2 DEF DockerInv
<1>2. SUFFICES ASSUME NEW r \in Runs,
        RunRejected(r) \/ EnterRun(r) \/ AskDocker(r) \/ RunBroken(r) \/ RunEnds(r) \/ RunTimesOut(r)
          \/ ContainerEnds(r) \/ StopContainer(r) \/ StopTimesOut(r) \/ \E p \in Principals : StopChecked(r, p)
      PROVE DockerInv'
  BY <1>1 DEF DockerNext
<1> USE DEF DockerInv
<1>3. CASE RunRejected(r)
  <2>1. Goes(r, "answered")
    BY <1>3 DEF RunRejected
  <2>2. DockerTypeOK' /\ RunsEntered'
    BY <1>3, <2>1, RunGoes DEF RunRejected, DockerTypeOK, RunsEntered
  <2>3. UnderLimit'
    BY <1>3, <2>1, RunGoes, LimitHolds DEF RunRejected
  <2>4. QED BY <2>2, <2>3
<1>4. CASE EnterRun(r)
  <2>1. Goes(r, "entered") /\ active' = active \cup {r}
    BY <1>4 DEF EnterRun
  <2>2. DockerTypeOK' /\ RunsEntered'
    BY <1>4, <2>1, RunGoes DEF EnterRun, DockerTypeOK, RunsEntered
  <2>3. UnderLimit'
    <3>1. SUFFICES ASSUME NEW p \in Principals PROVE Cardinality(EnteredBy(p)') <= MaxContainers
      BY DEF UnderLimit
    <3>2. EnteredBy(p)' = IF run[r].by = p THEN EnteredBy(p) \cup {r} ELSE EnteredBy(p)
      BY <2>1, RunGoes DEF EnteredBy, DockerTypeOK
    <3>3. IsFiniteSet(EnteredBy(p)) /\ Cardinality(EnteredBy(p)) \in Nat /\ MaxContainers \in Nat
      BY EnteredFinite DEF DockerConstants
    <3>4. Cardinality(EnteredBy(p) \cup {r}) <= Cardinality(EnteredBy(p)) + 1
      BY <3>3, FS_AddElement
    <3>5. run[r].by = p => Cardinality(EnteredBy(p)) < MaxContainers
      BY <1>4 DEF EnterRun, CountActive, EnteredBy
    <3>6. Cardinality(EnteredBy(p)) <= MaxContainers
      BY DEF UnderLimit
    <3>7. IsFiniteSet(EnteredBy(p) \cup {r}) /\ Cardinality(EnteredBy(p) \cup {r}) \in Nat
      BY <3>3, FS_AddElement, FS_CardinalityType
    <3>8. QED BY <3>2, <3>3, <3>4, <3>5, <3>6, <3>7
  <2>4. QED BY <2>2, <2>3
<1>5. CASE AskDocker(r)
  <2>1. Goes(r, "waiting")
    BY <1>5 DEF AskDocker
  <2>2. DockerTypeOK' /\ RunsEntered'
    BY <1>5, <2>1, RunGoes DEF AskDocker, DockerTypeOK, RunsEntered
  <2>3. UnderLimit'
    BY <1>5, <2>1, RunGoes, LimitHolds DEF AskDocker
  <2>4. QED BY <2>2, <2>3
<1>6. CASE RunBroken(r) \/ RunEnds(r) \/ RunTimesOut(r)
  <2>1. Goes(r, "answered") /\ active' = active \ {r}
    BY <1>6 DEF RunBroken, RunEnds, RunTimesOut, LeaveRun
  <2>2. DockerTypeOK' /\ RunsEntered'
    BY <1>6, <2>1, RunGoes DEF RunBroken, RunEnds, RunTimesOut, LeaveRun, DockerTypeOK, RunsEntered
  <2>3. UnderLimit'
    BY <2>1, RunGoes, LimitHolds
  <2>4. QED BY <2>2, <2>3
<1>7. CASE ContainerEnds(r) \/ StopContainer(r) \/ StopTimesOut(r) \/ \E p \in Principals : StopChecked(r, p)
  <2>1. DockerTypeOK' /\ RunsEntered'
    BY <1>7 DEF ContainerEnds, StopContainer, StopTimesOut, StopChecked, DockerTypeOK, RunsEntered
  <2>2. UNCHANGED run /\ active' \subseteq active
    BY <1>7 DEF ContainerEnds, StopContainer, StopTimesOut, StopChecked
  <2>3. UnderLimit'
    BY <2>2, LimitHolds
  <2>4. QED BY <2>1, <2>3
<1>8. QED BY <1>2, <1>3, <1>4, <1>5, <1>6, <1>7

\* However many packs ask for containers at a time, and whatever is stopped in
\* between, a principal's stay within its limit.
THEOREM ContainersWithinLimit == ASSUME DockerConstants PROVE DockerSpec => []LimitOfContainers
<1>1. DockerInv => LimitOfContainers
  <2>1. SUFFICES ASSUME DockerInv, NEW p \in Principals
               PROVE Cardinality({r \in Runs : run[r].by = p /\ daemon[r] = "up" /\ r \notin loose}) <= MaxContainers
    BY DEF LimitOfContainers
  <2>2. {r \in Runs : run[r].by = p /\ daemon[r] = "up" /\ r \notin loose} \subseteq EnteredBy(p)
    BY <2>1 DEF DockerInv, RunsEntered, EnteredBy
  <2>3. IsFiniteSet(EnteredBy(p)) /\ Cardinality(EnteredBy(p)) <= MaxContainers /\ MaxContainers \in Nat
    BY <2>1, EnteredFinite DEF DockerInv, UnderLimit, DockerConstants
  <2>4. QED BY <2>2, <2>3, SubsetBounded
<1>2. QED BY <1>1, DockerBegins, DockerSteps, PTL DEF DockerSpec

-----------------------------------------------------------------------------
(***************************************************************************)
(* Containers: a container that was entered is one that Docker has.        *)
(***************************************************************************)
\* A pack whose name is in no other's.
Alone(p) == \A q \in BoxPacks : <<p, q>> \notin Similar

\* What is found, and what is entered, is then the pack's own container, and it is
\* there but while it is stopped and when a stop overlapped or gave up.
OwnContainer == \A p \in BoxPacks : Alone(p) =>
    /\ entered[p] # {} /\ p \notin leaving \cup raced => entered[p] = {p} /\ box[p] # "none"
    /\ starting[p] \in {"start", "enter"} /\ p \notin raced => found[p] = {p} /\ box[p] # "none"

BoxInv == BoxTypeOK /\ OwnContainer

LEMMA BoxBegins == BoxInit => BoxInv
BY DEF BoxInit, BoxInv, BoxTypeOK, OwnContainer

LEMMA BoxSteps ==
  ASSUME BoxInv, [BoxNext]_boxVars
  PROVE  BoxInv'
<1> USE DEF BoxInv, BoxTypeOK
<1>1. CASE UNCHANGED boxVars
  BY <1>1 DEF boxVars, OwnContainer, Alone
<1>2. CASE RestartBoxes
  BY <1>2 DEF RestartBoxes, OwnContainer, Alone
<1>3. SUFFICES ASSUME NEW p \in BoxPacks,
        StartContainer(p) \/ LookUp(p) \/ StartFound(p) \/ CreateContainer(p)
          \/ StartGivesUp(p) \/ EnterContainer(p) \/ StopBox(p) \/ DockerStops(p)
          \/ DockerRemoves(p) \/ PopEntry(p) \/ StopGivesUp(p) \/ LateRemoval(p) \/ BoxEnds(p)
      PROVE BoxInv'
  BY <1>1, <1>2 DEF BoxNext
<1>4. CASE StartContainer(p)
  BY <1>4 DEF StartContainer, Stops, OwnContainer, Alone
<1>5. CASE LookUp(p)
  <2> DEFINE seen == {q \in BoxPacks : box[q] # "none" /\ (q = p \/ <<p, q>> \in Similar)}
  <2>1. /\ found' = [found EXCEPT ![p] = seen] /\ UNCHANGED <<box, entered, leaving, late, raced>>
        /\ starting' = [starting EXCEPT ![p] = IF seen = {} THEN "create" ELSE "start"]
    BY <1>5 DEF LookUp, Stops
  <2>2. Alone(p) /\ seen # {} => seen = {p} /\ box[p] # "none"
    BY DEF Alone
  <2>3. seen \in SUBSET BoxPacks
    OBVIOUS
  <2> HIDE DEF seen
  <2>4. BoxTypeOK'
    BY <2>1, <2>3
  <2>5. OwnContainer'
    BY <2>1, <2>2, <2>3 DEF OwnContainer, Alone
  <2>6. QED BY <2>4, <2>5
<1>6. CASE StartFound(p)
  BY <1>6 DEF StartFound, Stops, OwnContainer, Alone
<1>7. CASE CreateContainer(p)
  BY <1>7 DEF CreateContainer, Stops, OwnContainer, Alone
<1>8. CASE EnterContainer(p)
  BY <1>8 DEF EnterContainer, Stops, OwnContainer, Alone
<1>9. CASE StopBox(p)
  BY <1>9 DEF StopBox, Stops, OwnContainer, Alone
<1>10. CASE DockerStops(p) \/ BoxEnds(p)
  BY <1>10 DEF DockerStops, BoxEnds, Stops, OwnContainer, Alone
<1>11. CASE StartGivesUp(p)
  BY <1>11 DEF StartGivesUp, Stops, OwnContainer, Alone
<1>12. CASE DockerRemoves(p)
  BY <1>12 DEF DockerRemoves, OwnContainer, Alone
<1>13. CASE PopEntry(p)
  BY <1>13 DEF PopEntry, OwnContainer, Alone
<1>14. CASE StopGivesUp(p)
  BY <1>14 DEF StopGivesUp, OwnContainer, Alone
<1>15. CASE LateRemoval(p)
  BY <1>15 DEF LateRemoval, OwnContainer, Alone
<1>16. QED BY <1>3, <1>4, <1>5, <1>6, <1>7, <1>8, <1>9, <1>10, <1>11, <1>12, <1>13, <1>14, <1>15

\* Whatever is started, stopped or ends at the same time, the entry of a pack is
\* its own container and that exists, but for the exceptions the property names.
THEOREM EntriesAreContainers == BoxSpec => []EntriesExist
<1>1. BoxInv => EntriesExist
  BY DEF BoxInv, OwnContainer, Alone, EntriesExist
<1>2. QED BY <1>1, BoxBegins, BoxSteps, PTL DEF BoxSpec

-----------------------------------------------------------------------------
(***************************************************************************)
(* The limiter is right for any number of addresses and any limits: what   *)
(* it holds of an address is the end of what it has let through, and all   *)
(* before that is out of the window.                                       *)
(***************************************************************************)
ForgottenIsOld == \A ip \in Ips :
    LET d == Len(passed[ip]) - Len(Held(ip)) IN
    /\ d >= 0
    /\ \A k \in 1..Len(Held(ip)) : Held(ip)[k] = passed[ip][d + k]
    /\ \A i \in 1..d : passed[ip][i] + Window <= now

LimiterInv == LimiterTypeOK /\ ForgottenIsOld /\ WindowKept /\ IsFiniteSet(DOMAIN tracked)

LEMMA HeldType == ASSUME LimiterTypeOK, NEW ip \in Ips PROVE Held(ip) \in Seq(Nat)
  BY DEF LimiterTypeOK, Held

LEMMA LimiterInitInv == ASSUME LimitsOK, LimiterInit PROVE LimiterInv
<1>1. DOMAIN tracked = {} /\ now = 0 /\ \A ip \in Ips : passed[ip] = << >> /\ Held(ip) = << >>
  BY DEF LimiterInit, Held
<1>2. passed \in [Ips -> Seq(Nat)]
  BY DEF LimiterInit
<1>3. LimiterTypeOK
  BY <1>1, <1>2 DEF LimiterTypeOK
<1>4. ForgottenIsOld
  BY <1>1 DEF ForgottenIsOld
<1>5. Cardinality(DOMAIN tracked) = 0 /\ IsFiniteSet(DOMAIN tracked)
  BY <1>1, FS_EmptySet
<1>6. \A ip \in Ips : Len(passed[ip]) - MaxRequests <= 0
  BY <1>1, LimitsOK DEF LimitsOK
<1>7. WindowKept
  BY <1>5, <1>6, LimitsOK DEF WindowKept, LimitsOK
<1> QED
  BY <1>3, <1>4, <1>5, <1>7 DEF LimiterInv

\* The table keeps to its size.
LEMMA SlotsKept ==
  ASSUME LimitsOK, LimiterInv, NEW ip \in Ips, NEW gone,
         \/ gone = {} /\ (ip \in DOMAIN tracked \/ ~(Cardinality(DOMAIN tracked \ {ip}) >= MaxIps))
         \/ \E o \in DOMAIN tracked \ {ip} : gone = {o}
  PROVE  LET S == (DOMAIN tracked \cup {ip}) \ gone IN IsFiniteSet(S) /\ Cardinality(S) <= MaxIps
<1> DEFINE D == DOMAIN tracked
           Rest == D \ {ip}
<1>1. IsFiniteSet(D) /\ Cardinality(D) <= MaxIps /\ Cardinality(D) \in Nat
  BY FS_CardinalityType DEF LimiterInv, WindowKept
<1>2. IsFiniteSet(Rest) /\ Cardinality(Rest) <= Cardinality(D) /\ Cardinality(Rest) \in Nat
  <2>1. Rest \subseteq D
    OBVIOUS
  <2> QED
    BY <1>1, <2>1, FS_Subset, FS_CardinalityType
<1>3. IsFiniteSet(Rest \cup {ip}) /\ Cardinality(Rest \cup {ip}) = Cardinality(Rest) + 1
  <2>1. ip \notin Rest
    OBVIOUS
  <2> QED
    BY <1>2, <2>1, FS_AddElement
<1>4. CASE gone = {} /\ ip \in D
  <2>1. (D \cup {ip}) \ gone = D
    BY <1>4
  <2> QED
    BY <1>1, <2>1
<1>5. CASE gone = {} /\ ~(Cardinality(Rest) >= MaxIps)
  <2>1. (D \cup {ip}) \ gone = Rest \cup {ip}
    BY <1>5
  <2>2. Cardinality(Rest) + 1 <= MaxIps
    BY <1>2, <1>5 DEF LimitsOK
  <2> QED
    BY <1>3, <2>1, <2>2
<1>6. ASSUME NEW o \in Rest, gone = {o}
      PROVE  IsFiniteSet((D \cup {ip}) \ gone) /\ Cardinality((D \cup {ip}) \ gone) <= MaxIps
  <2>1. IsFiniteSet(Rest \ {o}) /\ Cardinality(Rest \ {o}) = Cardinality(Rest) - 1
    BY <1>2, FS_RemoveElement
  <2>2. (D \cup {ip}) \ gone = (Rest \ {o}) \cup {ip} /\ ip \notin Rest \ {o}
    BY <1>6
  <2>3. IsFiniteSet((Rest \ {o}) \cup {ip}) /\ Cardinality((Rest \ {o}) \cup {ip}) = Cardinality(Rest \ {o}) + 1
    BY <2>1, <2>2, FS_AddElement
  <2> QED
    BY <1>1, <1>2, <2>1, <2>2, <2>3 DEF LimitsOK
<1> QED
  BY <1>4, <1>5, <1>6

LEMMA RestOf ==
  ASSUME NEW s \in Seq(Nat), NEW n \in 0..Len(s)
  PROVE  LET rest == SubSeq(s, n + 1, Len(s)) IN
         rest \in Seq(Nat) /\ Len(rest) = Len(s) - n /\ \A k \in 1..Len(rest) : rest[k] = s[n + k]
<1>1. CASE n < Len(s)
  BY <1>1
<1>2. CASE n = Len(s)
  BY <1>2
<1> QED
  BY <1>1, <1>2

LEMMA AppendGives ==
  ASSUME NEW s \in Seq(Nat), NEW x \in Nat
  PROVE  /\ Append(s, x) \in Seq(Nat) /\ Len(Append(s, x)) = Len(s) + 1
         /\ Append(s, x)[Len(s) + 1] = x
         /\ \A i \in 1..Len(s) : Append(s, x)[i] = s[i]
  OBVIOUS

\* Old times leave what is held (h) of the requests that passed (p): the rest still
\* is their end, and what is before it is old.
LEMMA TimesLeave ==
  ASSUME NEW h \in Seq(Nat), NEW p \in Seq(Nat), NEW d \in Nat, NEW t \in Nat, NEW W \in Nat,
         Len(p) = d + Len(h),
         \A k \in 1..Len(h) : h[k] = p[d + k],
         \A i \in 1..d : p[i] + W <= t,
         NEW n \in 0..Len(h), \A i \in 1..n : h[i] + W <= t,
         NEW kept \in Seq(Nat), Len(kept) = Len(h) - n, \A k \in 1..Len(kept) : kept[k] = h[n + k]
  PROVE  /\ Len(p) = d + n + Len(kept)
         /\ \A k \in 1..Len(kept) : kept[k] = p[d + n + k]
         /\ \A i \in 1..(d + n) : p[i] + W <= t
<1>2. Len(h) \in Nat
  OBVIOUS
<1>3. ASSUME NEW k \in 1..Len(kept) PROVE kept[k] = p[d + n + k]
  <2>1. n + k \in 1..Len(h) /\ d + (n + k) = d + n + k
    BY <1>2
  <2> QED
    BY <2>1
<1>4. ASSUME NEW i \in 1..(d + n) PROVE p[i] + W <= t
  <2>1. CASE i <= d
    BY <2>1
  <2>2. CASE i > d
    <3>1. i - d \in 1..n /\ i - d \in 1..Len(h) /\ d + (i - d) = i
      BY <1>2, <2>2
    <3> QED
      BY <3>1
  <2> QED
    BY <2>1, <2>2
<1>5. Len(p) = d + n + Len(kept)
  BY <1>2
<1> QED
  BY <1>3, <1>4, <1>5

LEMMA OneMore ==
  ASSUME NEW a \in Int, NEW m \in Nat, a <= m + 1
  PROVE  a <= m \/ a = m + 1
  OBVIOUS

LEMMA IsAllowedInv ==
  ASSUME LimitsOK, LimiterInv, NEW ip \in Ips, IsAllowed(ip)
  PROVE  LimiterInv'
<1>1. PICK n \in 0..Len(Held(ip)) :
        LET kept == SubSeq(Held(ip), n + 1, Len(Held(ip)))
            allowed == Len(kept) < MaxRequests IN
        /\ Leave(Held(ip), n)
        /\ \E gone \in Evicted(ip, kept) :
             /\ tracked' = [o \in (DOMAIN tracked \cup {ip}) \ gone |->
                             IF o # ip THEN tracked[o] ELSE IF allowed THEN Append(kept, now) ELSE kept]
             /\ passed' = [o \in Ips |-> IF o \in gone THEN << >>
                                         ELSE IF o = ip /\ allowed THEN Append(passed[o], now) ELSE passed[o]]
        /\ UNCHANGED now
  BY DEF IsAllowed
<1> DEFINE kept == SubSeq(Held(ip), n + 1, Len(Held(ip)))
           allowed == Len(kept) < MaxRequests
           held == IF allowed THEN Append(kept, now) ELSE kept
           past == IF allowed THEN Append(passed[ip], now) ELSE passed[ip]
           d == Len(passed[ip]) - Len(Held(ip))
           e == d + n
<1>2. PICK gone \in Evicted(ip, kept) :
        /\ tracked' = [o \in (DOMAIN tracked \cup {ip}) \ gone |-> IF o # ip THEN tracked[o] ELSE held]
        /\ passed' = [o \in Ips |-> IF o \in gone THEN << >> ELSE IF o = ip THEN past ELSE passed[o]]
  BY <1>1
<1>3. Leave(Held(ip), n) /\ now' = now
  BY <1>1
<1>4. \/ gone = {} /\ (kept # << >> \/ ~(Cardinality(DOMAIN tracked \ {ip}) >= MaxIps))
      \/ \E o \in DOMAIN tracked \ {ip} : gone = {o}
  <2> HIDE DEF kept
  <2> QED
    BY DEF Evicted, Oldest
<1>5. /\ Held(ip) \in Seq(Nat) /\ passed[ip] \in Seq(Nat) /\ now \in Nat /\ MaxRequests \in Nat /\ Window \in Nat
      /\ passed \in [Ips -> Seq(Nat)] /\ DOMAIN tracked \subseteq Ips
      /\ \A o \in DOMAIN tracked : tracked[o] \in Seq(Nat)
  BY HeldType DEF LimiterInv, LimiterTypeOK, LimitsOK
<1>6. /\ d \in Nat /\ Len(passed[ip]) = d + Len(Held(ip))
      /\ \A k \in 1..Len(Held(ip)) : Held(ip)[k] = passed[ip][d + k]
      /\ \A i \in 1..d : passed[ip][i] + Window <= now
  <2>1. d >= 0 /\ d \in Int /\ Len(passed[ip]) \in Int /\ Len(Held(ip)) \in Int
    BY <1>5 DEF LimiterInv, ForgottenIsOld
  <2> QED
    BY <2>1 DEF LimiterInv, ForgottenIsOld
<1>7. \A i \in 1..(Len(passed[ip]) - MaxRequests) : passed[ip][i] + Window <= passed[ip][i + MaxRequests]
  BY DEF LimiterInv, WindowKept
<1>8. kept \in Seq(Nat) /\ Len(kept) = Len(Held(ip)) - n /\ \A k \in 1..Len(kept) : kept[k] = Held(ip)[n + k]
  BY <1>5, RestOf
<1>9. \A i \in 1..n : Held(ip)[i] + Window <= now
  BY <1>3 DEF Leave
<1> HIDE DEF kept, d
<1>10. /\ e \in Nat /\ Len(passed[ip]) = e + Len(kept)
       /\ \A k \in 1..Len(kept) : kept[k] = passed[ip][e + k]
       /\ \A i \in 1..e : passed[ip][i] + Window <= now
  <2>1. /\ Len(passed[ip]) = d + n + Len(kept)
        /\ \A k \in 1..Len(kept) : kept[k] = passed[ip][d + n + k]
        /\ \A i \in 1..(d + n) : passed[ip][i] + Window <= now
    <3> DEFINE h == Held(ip)
               p == passed[ip]
    <3>1. /\ h \in Seq(Nat) /\ p \in Seq(Nat) /\ n \in 0..Len(h) /\ Len(p) = d + Len(h)
          /\ \A k \in 1..Len(h) : h[k] = p[d + k]
          /\ \A i \in 1..d : p[i] + Window <= now
          /\ \A i \in 1..n : h[i] + Window <= now
          /\ Len(kept) = Len(h) - n /\ \A k \in 1..Len(kept) : kept[k] = h[n + k]
      BY <1>5, <1>6, <1>8, <1>9
    <3>2. d \in Nat /\ now \in Nat /\ Window \in Nat /\ kept \in Seq(Nat)
      BY <1>5, <1>6, <1>8
    <3> HIDE DEF h, p
    <3>3. /\ Len(p) = d + n + Len(kept)
          /\ \A k \in 1..Len(kept) : kept[k] = p[d + n + k]
          /\ \A i \in 1..(d + n) : p[i] + Window <= now
      BY <3>1, <3>2, TimesLeave
    <3> QED
      BY <3>3 DEF p
  <2>2. d + n \in Nat
    BY <1>5, <1>6
  <2> QED
    BY <2>1, <2>2
<1> HIDE DEF e
<1>11. /\ held \in Seq(Nat) /\ past \in Seq(Nat) /\ Len(past) = e + Len(held)
       /\ \A k \in 1..Len(held) : held[k] = past[e + k]
       /\ \A i \in 1..e : past[i] + Window <= now
       /\ \A i \in 1..(Len(past) - MaxRequests) : past[i] + Window <= past[i + MaxRequests]
  <2>1. CASE allowed
    <3>1. held = Append(kept, now) /\ past = Append(passed[ip], now)
      BY <2>1
    <3>2. /\ past \in Seq(Nat) /\ Len(past) = Len(passed[ip]) + 1 /\ past[Len(passed[ip]) + 1] = now
          /\ \A i \in 1..Len(passed[ip]) : past[i] = passed[ip][i]
      BY <1>5, <3>1, AppendGives
    <3>3. held \in Seq(Nat) /\ Len(held) = Len(kept) + 1 /\ held[Len(kept) + 1] = now
          /\ \A k \in 1..Len(kept) : held[k] = kept[k]
      BY <1>5, <1>8, <3>1, AppendGives
    <3>4. Len(kept) < MaxRequests
      BY <2>1
    <3> DEFINE p == passed[ip]
    <3>5. /\ p \in Seq(Nat) /\ Len(p) = e + Len(kept)
          /\ \A k \in 1..Len(kept) : kept[k] = p[e + k]
          /\ \A i \in 1..e : p[i] + Window <= now
          /\ \A i \in 1..(Len(p) - MaxRequests) : p[i] + Window <= p[i + MaxRequests]
          /\ Len(past) = Len(p) + 1 /\ past[Len(p) + 1] = now
          /\ \A i \in 1..Len(p) : past[i] = p[i]
      BY <1>5, <1>7, <1>10, <3>2
    <3>6. e \in Nat /\ now \in Nat /\ Window \in Nat /\ MaxRequests \in Nat /\ kept \in Seq(Nat)
      BY <1>5, <1>8, <1>10
    <3> HIDE DEF held, past, p, allowed
    <3>7. Len(past) = e + Len(held) /\ \A k \in 1..Len(held) : held[k] = past[e + k]
      <4>1. Len(kept) \in Nat /\ Len(p) \in Nat /\ Len(held) = Len(kept) + 1 /\ Len(past) = Len(p) + 1
        BY <3>3, <3>5, <3>6
      <4>2. ASSUME NEW k \in 1..Len(held) PROVE held[k] = past[e + k]
        <5>1. k \in 1..Len(kept) \/ k = Len(kept) + 1
          BY <4>1
        <5>2. CASE k \in 1..Len(kept)
          <6>1. e + k \in 1..Len(p)
            BY <3>5, <3>6, <4>1, <5>2
          <6>2. held[k] = kept[k] /\ kept[k] = p[e + k] /\ past[e + k] = p[e + k]
            BY <3>3, <3>5, <5>2, <6>1
          <6> QED
            BY <6>2
        <5>3. CASE k = Len(kept) + 1
          <6>1. e + k = Len(p) + 1
            BY <3>5, <3>6, <4>1, <5>3
          <6> QED
            BY <3>3, <3>5, <5>3, <6>1
        <5> QED
          BY <5>1, <5>2, <5>3
      <4>3. Len(past) = e + Len(held)
        BY <3>5, <3>6, <4>1
      <4> QED
        BY <4>2, <4>3
    <3>8. e <= Len(p) /\ Len(p) - MaxRequests < e
      <4>1. Len(kept) \in Nat /\ Len(p) = e + Len(kept)
        BY <3>5, <3>6
      <4> QED
        BY <3>4, <3>6, <4>1
    <3>9. \A i \in 1..e : past[i] + Window <= now
      <4> SUFFICES ASSUME NEW i \in 1..e PROVE past[i] + Window <= now
        OBVIOUS
      <4>1. i \in 1..Len(p)
        <5>1. Len(p) \in Nat
          BY <3>5
        <5> QED
          BY <3>6, <3>8, <5>1
      <4>2. past[i] = p[i] /\ p[i] + Window <= now
        BY <3>5, <4>1
      <4> QED
        BY <4>2
    <3>10. \A i \in 1..(Len(past) - MaxRequests) : past[i] + Window <= past[i + MaxRequests]
      <4> DEFINE M == MaxRequests
      <4> SUFFICES ASSUME NEW i \in 1..(Len(past) - M) PROVE past[i] + Window <= past[i + M]
        OBVIOUS
      <4>1. Len(p) \in Nat /\ Len(past) = Len(p) + 1 /\ M \in Nat /\ i \in Nat /\ i >= 1 /\ i + M <= Len(past)
        <5>1. Len(p) \in Nat /\ Len(past) = Len(p) + 1 /\ M \in Nat
          BY <3>5, <3>6
        <5> QED
          BY <5>1
      <4>2. CASE i + M <= Len(p)
        <5>1. i \in 1..(Len(p) - M) /\ i \in 1..Len(p) /\ i + M \in 1..Len(p)
          BY <4>1, <4>2
        <5>2. p[i] + Window <= p[i + M] /\ past[i] = p[i] /\ past[i + M] = p[i + M]
          BY <3>5, <5>1
        <5> QED
          BY <5>2
      <4>3. CASE i + M = Len(p) + 1
        <5>1. i \in 1..e
          <6>1. e \in Nat /\ Len(p) - M < e
            BY <3>6, <3>8
          <6> QED
            BY <4>1, <4>3, <6>1
        <5>2. past[i] + Window <= now
          BY <3>9, <5>1
        <5>3. past[i + M] = now
          BY <3>5, <4>3
        <5> QED
          BY <5>2, <5>3
      <4>4. i + M \in Int /\ i + M <= Len(p) + 1
        BY <4>1
      <4> QED
        BY <4>1, <4>2, <4>3, <4>4, OneMore
    <3> QED
      BY <3>2, <3>3, <3>7, <3>9, <3>10
  <2>2. CASE ~allowed
    <3>1. held = kept /\ past = passed[ip]
      BY <2>2
    <3> HIDE DEF held, past
    <3> QED
      BY <1>5, <1>7, <1>8, <1>10, <3>1
  <2> QED
    BY <2>1, <2>2
<1> HIDE DEF held, past
<1>12. ip \notin gone /\ gone \subseteq DOMAIN tracked
  BY <1>4
<1>13. DOMAIN tracked' = (DOMAIN tracked \cup {ip}) \ gone
  BY <1>2
<1>14. Held(ip)' = held /\ passed'[ip] = past
  BY <1>2, <1>12 DEF Held
<1>15. ASSUME NEW o \in Ips, o # ip, o \notin gone
       PROVE  Held(o)' = Held(o) /\ passed'[o] = passed[o]
  BY <1>2, <1>15 DEF Held
<1>16. ASSUME NEW o \in Ips, o \in gone
       PROVE  Held(o)' = << >> /\ passed'[o] = << >>
  BY <1>2, <1>13, <1>16 DEF Held
<1>17. LimiterTypeOK'
  <2>1. passed' \in [Ips -> Seq(Nat)]
    <3>1. << >> \in Seq(Nat)
      OBVIOUS
    <3>2. \A o \in Ips : passed[o] \in Seq(Nat)
      BY <1>5
    <3> QED
      BY <1>2, <1>11, <3>1, <3>2
  <2>2. DOMAIN tracked' \subseteq Ips
    BY <1>5, <1>13
  <2>3. ASSUME NEW o \in DOMAIN tracked' PROVE tracked'[o] \in Seq(Nat)
    BY <1>2, <1>5, <1>11, <1>13
  <2> QED
    BY <1>3, <1>5, <2>1, <2>2, <2>3 DEF LimiterTypeOK
<1>18. ForgottenIsOld'
  <2> SUFFICES ASSUME NEW o \in Ips
               PROVE  LET f == Len(passed'[o]) - Len(Held(o)') IN
                      /\ f >= 0
                      /\ \A k \in 1..Len(Held(o)') : Held(o)'[k] = passed'[o][f + k]
                      /\ \A i \in 1..f : passed'[o][i] + Window <= now'
    BY DEF ForgottenIsOld
  <2>1. CASE o = ip
    <3>1. Len(past) - Len(held) = e
      BY <1>10, <1>11
    <3>2. Held(o)' = held /\ passed'[o] = past /\ now' = now
      BY <1>3, <1>14, <2>1
    <3>3. e >= 0
      BY <1>10
    <3> QED
      BY <1>11, <3>1, <3>2, <3>3
  <2>2. CASE o # ip /\ o \notin gone
    <3>1. Held(o)' = Held(o) /\ passed'[o] = passed[o] /\ now' = now
      BY <1>3, <1>15, <2>2
    <3>2. LET f == Len(passed[o]) - Len(Held(o)) IN
          /\ f >= 0
          /\ \A k \in 1..Len(Held(o)) : Held(o)[k] = passed[o][f + k]
          /\ \A i \in 1..f : passed[o][i] + Window <= now
      BY DEF LimiterInv, ForgottenIsOld
    <3> QED
      BY <3>1, <3>2
  <2>3. CASE o \in gone
    BY <1>16, <2>3
  <2> QED
    BY <2>1, <2>2, <2>3
<1>19. ASSUME NEW o \in Ips
       PROVE  \A i \in 1..(Len(passed'[o]) - MaxRequests) : passed'[o][i] + Window <= passed'[o][i + MaxRequests]
  <2>1. CASE o = ip
    BY <1>11, <1>14, <2>1
  <2>2. CASE o # ip /\ o \notin gone
    BY <1>15, <2>2 DEF LimiterInv, WindowKept
  <2>3. CASE o \in gone
    <3>1. Len(passed'[o]) = 0
      BY <1>16, <2>3
    <3> QED
      BY <1>5, <3>1
  <2> QED
    BY <2>1, <2>2, <2>3
<1>20. IsFiniteSet(DOMAIN tracked') /\ Cardinality(DOMAIN tracked') <= MaxIps
  <2>1. kept # << >> => ip \in DOMAIN tracked
    <3>1. ip \notin DOMAIN tracked => Held(ip) = << >>
      BY DEF Held
    <3>2. Held(ip) = << >> => kept = << >>
      <4>1. Held(ip) = << >> => Len(kept) = 0
        BY <1>8
      <4> QED
        BY <1>8, <4>1
    <3> QED
      BY <3>1, <3>2
  <2>2. \/ gone = {} /\ (ip \in DOMAIN tracked \/ ~(Cardinality(DOMAIN tracked \ {ip}) >= MaxIps))
        \/ \E o \in DOMAIN tracked \ {ip} : gone = {o}
    BY <1>4, <2>1
  <2> QED
    BY <1>13, <2>2, SlotsKept
<1> QED
  BY <1>17, <1>18, <1>19, <1>20 DEF LimiterInv, WindowKept

LEMMA LimiterAlways == ASSUME LimitsOK PROVE LimiterSpec => []LimiterInv
<1>1. LimiterInit => LimiterInv
  BY LimiterInitInv
<1>2. LimiterInv /\ [LimiterNext]_limiterVars => LimiterInv'
  <2> SUFFICES ASSUME LimiterInv, [LimiterNext]_limiterVars PROVE LimiterInv'
    OBVIOUS
  <2>1. CASE Passes
    <3>1. now \in Nat /\ now' = now + 1 /\ tracked' = tracked /\ passed' = passed
      BY <2>1 DEF Passes, LimiterInv, LimiterTypeOK
    <3>2. \A ip \in Ips : Held(ip)' = Held(ip)
      BY <3>1 DEF Held
    <3>3. LimiterTypeOK' /\ WindowKept' /\ IsFiniteSet(DOMAIN tracked')
      BY <3>1 DEF LimiterInv, LimiterTypeOK, WindowKept
    <3>4. ForgottenIsOld'
      <4> SUFFICES ASSUME NEW ip \in Ips
                   PROVE  LET f == Len(passed[ip]) - Len(Held(ip)) IN
                          /\ f >= 0
                          /\ \A k \in 1..Len(Held(ip)) : Held(ip)[k] = passed[ip][f + k]
                          /\ \A i \in 1..f : passed[ip][i] + Window <= now + 1
        BY <3>1, <3>2 DEF ForgottenIsOld
      <4> DEFINE f == Len(passed[ip]) - Len(Held(ip))
      <4>1. f >= 0 /\ (\A k \in 1..Len(Held(ip)) : Held(ip)[k] = passed[ip][f + k])
            /\ \A i \in 1..f : passed[ip][i] + Window <= now
        BY DEF LimiterInv, ForgottenIsOld
      <4>2. passed[ip] \in Seq(Nat) /\ Held(ip) \in Seq(Nat) /\ Len(passed[ip]) \in Nat /\ Len(Held(ip)) \in Nat
        BY HeldType DEF LimiterInv, LimiterTypeOK
      <4>3. f <= Len(passed[ip]) /\ f \in Int
        BY <4>2
      <4> HIDE DEF f
      <4>4. ASSUME NEW i \in 1..f PROVE passed[ip][i] + Window <= now + 1
        <5>1. i \in 1..Len(passed[ip])
          BY <4>2, <4>3
        <5>2. passed[ip][i] \in Nat /\ passed[ip][i] + Window <= now
          BY <4>1, <4>2, <5>1
        <5> QED
          BY <3>1, <5>2, LimitsOK DEF LimitsOK
      <4> QED
        BY <4>1, <4>4 DEF f
    <3> QED
      BY <3>3, <3>4 DEF LimiterInv
  <2>2. CASE \E ip \in Ips : IsAllowed(ip)
    BY <2>2, IsAllowedInv
  <2>3. CASE UNCHANGED limiterVars
    BY <2>3 DEF limiterVars, LimiterInv, LimiterTypeOK, WindowKept, ForgottenIsOld, Held
  <2> QED
    BY <2>1, <2>2, <2>3 DEF LimiterNext
<1> QED
  BY <1>1, <1>2, PTL DEF LimiterSpec

\* Over any stretch of a window at most MaxRequests requests of an address are let
\* through (an eviction apart), and the limiter's table keeps to its size.
THEOREM WindowKeptAlways == ASSUME LimitsOK PROVE LimiterSpec => []WindowKept
<1>1. LimiterInv => WindowKept
  BY DEF LimiterInv
<1>2. QED BY <1>1, LimiterAlways, PTL

-----------------------------------------------------------------------------
(***************************************************************************)
(* UsageLimits.  No grant is used more often than its limits allow, but    *)
(* for the uses that the store admits it forgot.                           *)
(***************************************************************************)
\* What a record, of the file or of a process, knows of: all calls but the excused.
Knows(r) == total <= r.used + excused /\ (MaxDaily > 0 => \A d \in Days : uses[d] <= r.daily[d] + excused)

UsageInv ==
    /\ UsageTypeOK /\ LimitsKept
    /\ \A d \in Days : uses[d] <= total
    /\ IF file = Forged THEN total <= excused ELSE Knows(file)
    /\ \A u \in Users : cache[u] # NotLoaded => Knows(cache[u])

LEMMA UsageRecords ==
  ASSUME UsageConstants
  PROVE  /\ Unused \in Usage /\ Forged \notin Usage /\ NotLoaded \notin Usage /\ Unused # Forged
         /\ Unused.used = 0 /\ \A d \in Days : Unused.daily[d] = 0
         /\ \A r \in Usage : r.used \in Nat /\ r.daily \in [Days -> Nat]
<1>1. Unused.used = 0 /\ Unused.daily = [d \in Days |-> 0] /\ Forged.used = -1 /\ NotLoaded.used = -2
  BY DEF Unused, Forged, NotLoaded, Record
<1>2. \A r \in Usage : r.used \in Nat /\ r.daily \in [Days -> Nat]
  BY DEF Usage
<1>3. Unused \in Usage
  BY DEF Unused, Record, Usage
<1>4. QED BY <1>1, <1>2, <1>3

LEMMA UsageBegins == ASSUME UsageConstants PROVE UsageInit => UsageInv
<1>1. SUFFICES ASSUME UsageInit PROVE UsageInv
  OBVIOUS
<1>2. Unused \in Usage /\ Unused # Forged /\ Unused.used = 0 /\ \A d \in Days : Unused.daily[d] = 0
  BY UsageRecords
<1>3. UsageTypeOK
  BY <1>1, <1>2 DEF UsageInit, UsageTypeOK, UsageConstants, Days
<1>4. LimitsKept
  BY <1>1 DEF UsageInit, LimitsKept, UsageConstants
<1>5. Knows(file)
  BY <1>1, <1>2 DEF UsageInit, Knows
<1>6. QED BY <1>1, <1>2, <1>3, <1>4, <1>5 DEF UsageInit, UsageInv

\* Nothing is used, and what is excused does not shrink: what was known is known.
LEMMA KnownStays ==
  ASSUME UsageConstants, UsageTypeOK, NEW r \in Usage, Knows(r), uses' = uses, total' = total,
         NEW more \in Nat, excused' = excused + more
  PROVE  total' <= r.used + excused' /\ (MaxDaily > 0 => \A d \in Days : uses'[d] <= r.daily[d] + excused')
<1>1. r.used \in Nat /\ r.daily \in [Days -> Nat] /\ total \in Nat /\ excused \in Nat /\ uses \in [Days -> Nat]
  BY UsageRecords DEF UsageTypeOK
<1>2. \A n, m \in Nat : n <= m + excused => n <= m + excused'
  BY <1>1
<1>3. QED BY <1>1, <1>2 DEF Knows

LEMMA LoadUsageKeeps ==
  ASSUME UsageConstants, UsageInv, NEW u \in Users, LoadUsage(u) PROVE UsageInv'
<1> DEFINE loaded == IF file = Forged THEN Unused ELSE file
<1>1. UsageTypeOK /\ LimitsKept
  BY DEF UsageInv
<1>2. loaded \in Usage
  BY <1>1, UsageRecords DEF UsageTypeOK
<1>3. Knows(loaded)
  <2>1. CASE file = Forged
    <3>1. total <= excused /\ total \in Nat /\ excused \in Nat /\ uses \in [Days -> Nat]
      BY <1>1, <2>1 DEF UsageInv, UsageTypeOK
    <3>2. \A d \in Days : uses[d] <= 0 + excused
      BY <3>1 DEF UsageInv
    <3>3. loaded.used = 0 /\ \A d \in Days : loaded.daily[d] = 0
      BY <2>1, UsageRecords
    <3>4. QED BY <3>1, <3>2, <3>3 DEF Knows
  <2>2. CASE file # Forged
    BY <2>2 DEF UsageInv
  <2>3. QED BY <2>1, <2>2
<1>4. cache' = [cache EXCEPT ![u] = loaded] /\ UNCHANGED <<day, file, uses, total, excused, usageFaults>>
  BY DEF LoadUsage
<1> HIDE DEF loaded
<1>5. DOMAIN cache = Users /\ cache'[u] = loaded /\ \A v \in Users \ {u} : cache'[v] = cache[v]
  BY <1>1, <1>4 DEF UsageTypeOK
<1>6. UsageTypeOK'
  BY <1>1, <1>2, <1>4, <1>5 DEF UsageTypeOK
<1>7. \A r : Knows(r) => Knows(r)'
  BY <1>4 DEF Knows
<1>8. LimitsKept'
  BY <1>1, <1>4 DEF LimitsKept
<1>9. \A v \in Users : cache'[v] # NotLoaded => Knows(cache'[v])
  BY <1>3, <1>5 DEF UsageInv
<1>10. \A v \in Users : cache'[v] # NotLoaded =>
          /\ total <= cache'[v].used + excused
          /\ MaxDaily > 0 => \A d \in Days : uses[d] <= cache'[v].daily[d] + excused
  BY <1>9 DEF Knows
<1>11. QED BY <1>4, <1>6, <1>8, <1>10 DEF UsageInv, Knows

\* A call that is allowed is one that the record of its process has room for.
LEMMA AllowedFits ==
  ASSUME UsageConstants, UsageInv, NEW r \in Usage, Knows(r), Allows(r)
  PROVE  /\ Counted(r) \in Usage /\ total + 1 <= Counted(r).used + excused
         /\ MaxDaily > 0 => \A d \in Days : [uses EXCEPT ![day] = @ + 1][d] <= Counted(r).daily[d] + excused
         /\ MaxCount > 0 => total + 1 <= MaxCount + excused
         /\ MaxDaily > 0 => uses[day] + 1 <= MaxDaily + excused
         /\ day < Expires
<1>1. /\ r.used \in Nat /\ r.daily \in [Days -> Nat] /\ total \in Nat /\ excused \in Nat /\ uses \in [Days -> Nat]
      /\ day \in Days /\ MaxCount \in Nat /\ MaxDaily \in Nat
  BY UsageRecords DEF UsageInv, UsageTypeOK, UsageConstants
<1>2. /\ Counted(r).used = r.used + 1
      /\ Counted(r).daily = IF MaxDaily > 0 THEN [r.daily EXCEPT ![day] = @ + 1] ELSE r.daily
  BY DEF Counted, Record
<1>3. [r.daily EXCEPT ![day] = @ + 1] \in [Days -> Nat]
  BY <1>1
<1>4. Counted(r) \in Usage
  BY <1>1, <1>2, <1>3 DEF Counted, Record, Usage
<1>5. total <= r.used + excused /\ (MaxDaily > 0 => \A d \in Days : uses[d] <= r.daily[d] + excused)
  BY DEF Knows
<1>6. total + 1 <= Counted(r).used + excused
  BY <1>1, <1>2, <1>5
<1>7. ASSUME MaxDaily > 0, NEW d \in Days PROVE [uses EXCEPT ![day] = @ + 1][d] <= Counted(r).daily[d] + excused
  <2>1. uses[d] \in Nat /\ r.daily[d] \in Nat /\ uses[d] <= r.daily[d] + excused
    BY <1>1, <1>5, <1>7
  <2>2. CASE d = day
    <3>1. [uses EXCEPT ![day] = @ + 1][d] = uses[d] + 1 /\ Counted(r).daily[d] = r.daily[d] + 1
      BY <1>1, <1>2, <1>7, <2>2
    <3>2. QED BY <1>1, <2>1, <3>1
  <2>3. CASE d # day
    <3>1. [uses EXCEPT ![day] = @ + 1][d] = uses[d] /\ Counted(r).daily[d] = r.daily[d]
      BY <1>1, <1>2, <1>7, <2>3
    <3>2. QED BY <2>1, <3>1
  <2>4. QED BY <2>2, <2>3
<1>8. MaxCount > 0 => total + 1 <= MaxCount + excused
  <2>1. MaxCount > 0 => r.used < MaxCount
    BY DEF Allows
  <2>2. QED BY <1>1, <1>5, <2>1
<1>9. ASSUME MaxDaily > 0 PROVE uses[day] + 1 <= MaxDaily + excused
  <2>1. r.daily[day] < MaxDaily /\ uses[day] <= r.daily[day] + excused
    BY <1>1, <1>5, <1>9 DEF Allows
  <2>2. uses[day] \in Nat /\ r.daily[day] \in Nat
    BY <1>1
  <2>3. QED BY <1>1, <2>1, <2>2
<1>10. QED BY <1>4, <1>6, <1>7, <1>8, <1>9 DEF Allows

\* How many other processes there are to excuse: one at least for each that has loaded.
LEMMA OthersCounted ==
  ASSUME UsageConstants, NEW u \in Users, NEW n, n = Cardinality({v \in Users \ {u} : cache[v] # NotLoaded})
  PROVE  n \in Nat /\ ((\E v \in Users \ {u} : cache[v] # NotLoaded) => n >= 1)
<1>1. PICK others : others = {v \in Users \ {u} : cache[v] # NotLoaded}
  OBVIOUS
<1>2. IsFiniteSet(others)
  BY <1>1, FS_Subset DEF UsageConstants
<1>3. n \in Nat
  BY <1>1, <1>2, FS_CardinalityType
<1>4. n = 0 => others = {}
  BY <1>1, <1>2, FS_EmptySet
<1>5. QED BY <1>1, <1>3, <1>4

LEMMA ConsumeKeeps ==
  ASSUME UsageConstants, UsageInv, NEW u \in Users, Consume(u) PROVE UsageInv'
<1>1. UsageTypeOK /\ LimitsKept /\ cache[u] \in Usage /\ Knows(cache[u])
  BY DEF UsageInv, UsageTypeOK, Consume
<1>2. cache' = [cache EXCEPT ![u] = NotLoaded] /\ day' = day
  BY DEF Consume
<1>3. DOMAIN cache' = Users /\ cache'[u] = NotLoaded /\ \A v \in Users \ {u} : cache'[v] = cache[v]
  BY <1>1, <1>2 DEF UsageTypeOK
<1>4. CASE ~Allows(cache[u])
  <2>1. UNCHANGED <<file, uses, total, excused, usageFaults>>
    BY <1>4 DEF Consume
  <2>2. UsageTypeOK'
    BY <1>1, <1>2, <1>3, <2>1 DEF UsageTypeOK
  <2>3. LimitsKept'
    BY <1>1, <2>1 DEF LimitsKept
  <2>4. QED BY <1>3, <2>1, <2>2, <2>3 DEF UsageInv, Knows
<1>5. CASE Allows(cache[u])
  <2>1. uses' = [uses EXCEPT ![day] = @ + 1] /\ total' = total + 1
    BY <1>5 DEF Consume
  <2>2. PICK n : n = Cardinality({v \in Users \ {u} : cache[v] # NotLoaded})
    OBVIOUS
  <2>3. n \in Nat /\ ((\E v \in Users \ {u} : cache[v] # NotLoaded) => n >= 1)
    BY <2>2, OthersCounted
  <2>4. PICK more \in Nat :
          /\ excused' = excused + more /\ ((\E v \in Users \ {u} : cache[v] # NotLoaded) => more >= 1)
          /\ (file' = Counted(cache[u]) \/ (file' = file /\ more >= 1))
          /\ usageFaults' \in 0..MaxUsageFaults
    <3>1. CASE file' = Counted(cache[u]) /\ UNCHANGED usageFaults /\ excused' = excused + n
      BY <1>1, <2>3, <3>1 DEF UsageTypeOK
    <3>2. CASE UsageFault /\ excused' = excused + 1 /\ UNCHANGED file
      <4>1. usageFaults' \in 0..MaxUsageFaults
        BY <1>1, <3>2 DEF UsageFault, UsageTypeOK, UsageConstants
      <4>2. QED BY <3>2, <4>1
    <3>3. QED BY <1>5, <2>2, <3>1, <3>2 DEF Consume
  <2>5. /\ Counted(cache[u]) \in Usage /\ total + 1 <= Counted(cache[u]).used + excused
        /\ MaxDaily > 0 => \A d \in Days : uses'[d] <= Counted(cache[u]).daily[d] + excused
        /\ MaxCount > 0 => total + 1 <= MaxCount + excused
        /\ MaxDaily > 0 => uses[day] + 1 <= MaxDaily + excused
        /\ day < Expires
    BY <1>1, <1>5, <2>1, AllowedFits
  <2>6. /\ total \in Nat /\ excused \in Nat /\ uses \in [Days -> Nat] /\ day \in Days /\ excused' \in Nat
        /\ uses' \in [Days -> Nat] /\ total' \in Nat /\ Days \subseteq Nat
        /\ MaxCount \in Nat /\ MaxDaily \in Nat /\ Expires \in Nat
    BY <1>1, <2>1, <2>4 DEF UsageTypeOK, UsageConstants, Days
  <2>7. \A d \in Days : uses'[d] <= uses[d] + 1 /\ (d # day => uses'[d] = uses[d]) /\ uses[d] \in Nat /\ uses'[d] \in Nat
    BY <2>1, <2>6
  <2>8. UsageTypeOK'
    BY <1>1, <1>2, <1>3, <2>4, <2>5, <2>6 DEF UsageTypeOK
  <2>9. \A a, b \in Nat : a <= b + excused => a <= b + excused'
    BY <2>4, <2>6
  <2>10. LimitsKept'
    <3>1. MaxCount > 0 => total' <= MaxCount + excused'
      BY <2>1, <2>5, <2>6, <2>9
    <3>2. ASSUME MaxDaily > 0, NEW d \in Days PROVE uses'[d] <= MaxDaily + excused'
      <4>1. CASE d = day
        BY <2>1, <2>5, <2>6, <2>9, <3>2, <4>1
      <4>2. CASE d # day
        BY <1>1, <2>6, <2>7, <2>9, <3>2, <4>2 DEF LimitsKept
      <4>3. QED BY <4>1, <4>2
    <3>3. \A d \in Days : d >= Expires => d # day /\ uses[d] = 0
      BY <1>1, <2>5, <2>6 DEF LimitsKept
    <3>4. \A d \in Days : d >= Expires => uses'[d] = 0
      BY <2>7, <3>3
    <3>5. QED BY <3>1, <3>2, <3>4 DEF LimitsKept
  <2>11. \A d \in Days : uses'[d] <= total'
    <3>1. \A d \in Days : uses[d] <= total
      BY DEF UsageInv
    <3>2. QED BY <2>1, <2>6, <2>7, <3>1
  <2>12. ASSUME NEW r \in Usage, Knows(r), more >= 1
         PROVE  total' <= r.used + excused' /\ (MaxDaily > 0 => \A d \in Days : uses'[d] <= r.daily[d] + excused')
    <3>1. r.used \in Nat /\ r.daily \in [Days -> Nat]
      BY UsageRecords
    <3>2. \A a, b, c \in Nat : a <= b + excused /\ c <= a + 1 => c <= b + excused'
      BY <2>4, <2>6, <2>12
    <3>3. total' <= r.used + excused'
      <4>1. total <= r.used + excused
        BY <2>12 DEF Knows
      <4>2. excused' = excused + more /\ more \in Nat /\ more >= 1
        BY <2>4, <2>12
      <4>3. QED BY <2>1, <2>6, <3>1, <4>1, <4>2
    <3>4. ASSUME MaxDaily > 0, NEW d \in Days PROVE uses'[d] <= r.daily[d] + excused'
      <4>1. uses[d] <= r.daily[d] + excused /\ r.daily[d] \in Nat
        BY <2>12, <3>1, <3>4 DEF Knows
      <4>2. QED BY <2>7, <3>2, <4>1
    <3>5. QED BY <3>3, <3>4
  <2>13. ASSUME NEW v \in Users, cache'[v] # NotLoaded PROVE Knows(cache[v])' /\ cache'[v] = cache[v]
    <3>1. v # u /\ cache'[v] = cache[v] /\ more >= 1
      BY <1>3, <2>4, <2>13
    <3>2. cache[v] \in Usage /\ Knows(cache[v])
      BY <1>1, <2>13, <3>1 DEF UsageInv, UsageTypeOK
    <3>3. QED BY <2>12, <3>1, <3>2 DEF Knows
  <2>14. IF file' = Forged THEN total' <= excused' ELSE Knows(file)'
    <3>1. CASE file' = Counted(cache[u])
      <4>1. Counted(cache[u]).used \in Nat /\ Counted(cache[u]).daily \in [Days -> Nat] /\ file' # Forged
        BY <2>5, <3>1, UsageRecords
      <4>2. total' <= Counted(cache[u]).used + excused'
        BY <2>1, <2>5, <2>6, <2>9, <4>1
      <4>3. MaxDaily > 0 => \A d \in Days : uses'[d] <= Counted(cache[u]).daily[d] + excused'
        BY <2>5, <2>7, <2>9, <4>1
      <4>4. QED BY <3>1, <4>1, <4>2, <4>3 DEF Knows
    <3>2. CASE file' = file /\ more >= 1
      <4>1. CASE file = Forged
        <5>1. total <= excused
          BY <4>1 DEF UsageInv
        <5>2. QED BY <2>1, <2>4, <2>6, <3>2, <4>1, <5>1
      <4>2. CASE file # Forged
        <5>1. file \in Usage /\ Knows(file)
          BY <1>1, <4>2 DEF UsageInv, UsageTypeOK
        <5>2. QED BY <2>12, <3>2, <4>2, <5>1 DEF Knows
      <4>3. QED BY <4>1, <4>2
    <3>3. QED BY <2>4, <3>1, <3>2
  <2>15. QED BY <2>8, <2>10, <2>11, <2>13, <2>14 DEF UsageInv
<1>6. QED BY <1>4, <1>5

LEMMA ResetUsageKeeps ==
  ASSUME UsageConstants, UsageInv, NEW u \in Users, ResetUsage(u) PROVE UsageInv'
<1>1. UsageTypeOK
  BY DEF UsageInv
<1>2. Unused \in Usage /\ Unused # Forged /\ Unused.used = 0 /\ \A d \in Days : Unused.daily[d] = 0
  BY UsageRecords
<1>3. file' = Unused /\ uses' = [d \in Days |-> 0] /\ total' = 0 /\ excused' = 0 /\ UNCHANGED <<day, cache, usageFaults>>
      /\ \A v \in Users : cache[v] = NotLoaded
  BY DEF ResetUsage
<1>4. UsageTypeOK'
  BY <1>1, <1>2, <1>3 DEF UsageTypeOK
<1>5. LimitsKept'
  BY <1>3 DEF LimitsKept, UsageConstants
<1>6. Knows(file)'
  BY <1>2, <1>3 DEF Knows
<1>7. QED BY <1>2, <1>3, <1>4, <1>5, <1>6 DEF UsageInv

LEMMA DamageUsageKeeps ==
  ASSUME UsageConstants, UsageInv, DamageUsage PROVE UsageInv'
<1>1. UsageTypeOK /\ LimitsKept
  BY DEF UsageInv
<1>2. file' = Forged /\ excused' = excused + total /\ UNCHANGED <<day, cache, uses, total>> /\ UsageFault
  BY DEF DamageUsage
<1>3. total \in Nat /\ excused \in Nat /\ uses \in [Days -> Nat] /\ excused' \in Nat /\ total' <= excused'
      /\ MaxCount \in Nat /\ MaxDaily \in Nat /\ usageFaults' \in 0..MaxUsageFaults
  BY <1>1, <1>2 DEF UsageTypeOK, UsageFault, UsageConstants
<1>4. UsageTypeOK'
  BY <1>1, <1>2, <1>3 DEF UsageTypeOK
<1>5. \A n, m \in Nat : n <= m + excused => n <= m + excused'
  BY <1>2, <1>3
<1>6. LimitsKept'
  BY <1>1, <1>2, <1>3, <1>5 DEF LimitsKept
<1>7. ASSUME NEW v \in Users, cache'[v] # NotLoaded PROVE Knows(cache[v])'
  <2>1. cache[v] \in Usage /\ Knows(cache[v])
    BY <1>1, <1>2, <1>7 DEF UsageInv, UsageTypeOK
  <2>2. QED BY <1>1, <1>2, <1>3, <2>1, KnownStays DEF Knows
<1>8. QED BY <1>2, <1>3, <1>4, <1>6, <1>7 DEF UsageInv

LEMMA UsageSteps == ASSUME UsageConstants PROVE UsageInv /\ [UsageNext]_usageVars => UsageInv'
<1>1. SUFFICES ASSUME UsageInv, [UsageNext]_usageVars PROVE UsageInv'
  OBVIOUS
<1>2. CASE UNCHANGED <<file, cache, uses, total, excused, usageFaults>> /\ day' \in Days
  <2>1. UsageTypeOK'
    BY <1>1, <1>2 DEF UsageInv, UsageTypeOK
  <2>2. LimitsKept'
    BY <1>1, <1>2 DEF UsageInv, LimitsKept
  <2>3. QED BY <1>1, <1>2, <2>1, <2>2 DEF UsageInv, Knows
<1>3. CASE NextDay
  BY <1>1, <1>2, <1>3 DEF NextDay, UsageInv, UsageTypeOK, Days, UsageConstants
<1>4. CASE UNCHANGED usageVars
  BY <1>1, <1>2, <1>4 DEF usageVars, UsageInv, UsageTypeOK
<1>5. QED
  BY <1>1, <1>3, <1>4, LoadUsageKeeps, ConsumeKeeps, ResetUsageKeeps, DamageUsageKeeps DEF UsageNext

\* LimitsKept (capability_usage_store.py): the calls allowed under a limited
\* grant, in all and on each day, exceed its limits by no more than the calls
\* that overlapped another one or whose count was lost; none after it expires.
THEOREM GrantLimitsKept == ASSUME UsageConstants PROVE UsageSpec => []LimitsKept
<1>1. UsageInv => LimitsKept
  BY DEF UsageInv
<1>2. QED BY <1>1, UsageBegins, UsageSteps, PTL DEF UsageSpec

-----------------------------------------------------------------------------
(***************************************************************************)
(* PackApi: setup.  A link serves one exchange, and what is on disk is of  *)
(* an exchange, for any number of links and kills.                         *)
(***************************************************************************)
\* A link that may still be used was not; the one of the running request was
\* taken out, and is exchanged from the moment that there are tokens.
UsedOnce ==
    /\ \A s \in LinkStates : exchanged[s] <= 1 /\ (pkce[s] # Gone => exchanged[s] = 0)
    /\ at.step = "exchange" => at.link \in LinkStates /\ pkce[at.link] = Gone /\ exchanged[at.link] = 0
    /\ at.step \in {"tokens", "write tokens"} => at.link \in LinkStates /\ exchanged[at.link] = 1
    /\ tokenFile \in LinkStates => exchanged[tokenFile] = 1

\* A file that is cut is being written, unless there was a fault.
CutWhileWritten == setupFaults = 0 =>
    /\ tokenFile = Cut => at.step = "write tokens"
    /\ profileFile = "cut" => at.step = "write profile"
    /\ told => profileFile = "whole" \/ at.step = "write profile"

SetupInv == SetupTypeOK /\ UsedOnce /\ CutWhileWritten

LEMMA LinksAreNoFiles ==
  ASSUME SetupConstants
  PROVE  NoFile \notin LinkStates /\ Cut \notin LinkStates /\ NoFile # Cut
<1>1. NoFile \notin LinkStates /\ Cut \notin LinkStates
  BY DEF SetupConstants
<1>2. NoFile # Cut
  BY DEF NoFile, Cut
<1>3. QED BY <1>1, <1>2

LEMMA SetupBegins == ASSUME SetupConstants PROVE SetupInit => SetupInv
<1> SUFFICES ASSUME SetupInit PROVE SetupInv
  OBVIOUS
<1> USE DEF SetupConstants, SetupInit
<1>1. Resting \in SetupRequest
  BY DEF Resting, SetupRequest
<1>2. SetupTypeOK
  <2>1. LastMinute \in Nat /\ MaxSetupFaults \in Nat
    OBVIOUS
  <2>2. Unissued \in 0..Gone
    BY <2>1 DEF Unissued, Gone
  <2>3. pkce \in [LinkStates -> 0..Gone] /\ exchanged \in [LinkStates -> Nat]
    BY <2>2
  <2>4. minute \in 0..LastMinute /\ setupFaults \in 0..MaxSetupFaults
    BY <2>1
  <2>5. at \in SetupRequest
    BY <1>1
  <2>6. QED BY <2>3, <2>4, <2>5 DEF SetupTypeOK
<1>3. UsedOnce /\ CutWhileWritten
  <2>1. \A s \in LinkStates : exchanged[s] = 0
    OBVIOUS
  <2>2. at.step = "rest"
    BY DEF Resting
  <2>3. QED BY <2>1, <2>2, LinksAreNoFiles DEF UsedOnce, CutWhileWritten
<1>4. QED BY <1>2, <1>3 DEF SetupInv

\* A request goes from one step to another with its link, or is over.
LEMMA RequestSteps ==
  ASSUME at \in SetupRequest,
         NEW d \in {"rest", "exchange", "tokens", "write tokens", "profile", "write profile"}
  PROVE  /\ Resting \in SetupRequest /\ Resting.step = "rest"
         /\ [at EXCEPT !.step = d] \in SetupRequest
         /\ [at EXCEPT !.step = d].step = d /\ [at EXCEPT !.step = d].link = at.link
  BY DEF SetupRequest, Resting

\* Starting a link and taking one out leave the exchanges alone.
LEMMA LinksKeep ==
  ASSUME SetupConstants, SetupInv, NEW s \in LinkStates, OauthStart(s) \/ OauthCallback(s)
  PROVE  SetupInv'
<1> USE DEF SetupConstants
<1>0. SetupTypeOK /\ UsedOnce /\ CutWhileWritten
  BY DEF SetupInv
<1>1. minute \in Nat /\ minute < Unissued /\ Unissued < Gone /\ 0 <= minute /\ Gone \in Nat /\ Unissued \in Nat
  BY <1>0 DEF SetupTypeOK, Unissued, Gone
<1>2. CASE OauthStart(s)
  <2>1. /\ pkce' = [o \in LinkStates |-> IF o = s THEN minute
                                         ELSE IF pkce[o] + LinkLife < minute THEN Gone ELSE pkce[o]]
        /\ pkce[s] = Unissued /\ at = Resting
        /\ UNCHANGED <<minute, at, tokenFile, profileFile, exchanged, told, setupFaults>>
    BY <1>2 DEF OauthStart
  <2>2. SetupTypeOK'
    <3>1. pkce' \in [LinkStates -> 0..Gone]
      BY <2>1, <1>0, <1>1 DEF SetupTypeOK
    <3>2. QED BY <2>1, <3>1, <1>0, <1>1 DEF SetupTypeOK, Gone
  <2>3. \A o \in LinkStates : pkce'[o] # Gone => exchanged'[o] = 0
    <3> SUFFICES ASSUME NEW o \in LinkStates, pkce'[o] # Gone PROVE exchanged[o] = 0
      BY <2>1
    <3>1. pkce[o] # Gone
      BY <2>1, <1>1
    <3>2. QED BY <3>1, <1>0 DEF UsedOnce
  <2>4. UsedOnce'
    BY <2>1, <2>3, <1>0 DEF UsedOnce, Resting, Gone
  <2>5. QED BY <2>1, <2>2, <2>4, <1>0 DEF CutWhileWritten, SetupInv
<1>3. CASE OauthCallback(s)
  <2>1. /\ pkce' = [pkce EXCEPT ![s] = Gone] /\ pkce[s] <= minute /\ at = Resting
        /\ at' \in {Resting, [Resting EXCEPT !.step = "exchange", !.link = s]}
        /\ UNCHANGED <<minute, tokenFile, profileFile, exchanged, told, setupFaults>>
    BY <1>3 DEF OauthCallback
  <2>2. /\ at' \in SetupRequest
        /\ at'.step = "rest" \/ (at'.step = "exchange" /\ at'.link = s)
    <3>1. CASE at' = Resting
      BY <3>1 DEF SetupRequest, Resting
    <3>2. CASE at' = [Resting EXCEPT !.step = "exchange", !.link = s]
      <4>1. at' = [step |-> "exchange", link |-> s, profile |-> FALSE]
        BY <3>2 DEF Resting
      <4>2. QED BY <4>1 DEF SetupRequest
    <3>3. QED BY <2>1, <3>1, <3>2
  <2>3. pkce' \in [LinkStates -> 0..Gone] /\ pkce'[s] = Gone /\ \A o \in LinkStates \ {s} : pkce'[o] = pkce[o]
    BY <2>1, <1>0, <1>1 DEF SetupTypeOK
  <2>4. exchanged[s] = 0
    <3>1. pkce[s] # Gone
      BY <2>1, <1>0, <1>1 DEF SetupTypeOK
    <3>2. QED BY <3>1, <1>0 DEF UsedOnce
  <2>5. SetupTypeOK'
    BY <2>1, <2>2, <2>3, <1>0, <1>1 DEF SetupTypeOK, Gone
  <2>6. UsedOnce'
    BY <2>1, <2>2, <2>3, <2>4, <1>0 DEF UsedOnce, Gone
  <2>7. CutWhileWritten'
    BY <2>1, <2>2, <1>0 DEF CutWhileWritten, Resting
  <2>8. QED BY <2>5, <2>6, <2>7 DEF SetupInv
<1>4. QED BY <1>2, <1>3

\* A code is exchanged once, since its link is taken out first.
LEMMA ExchangeKeeps ==
  ASSUME SetupConstants, SetupInv, NEW profile \in BOOLEAN, Exchange(profile)
  PROVE  SetupInv'
<1> USE DEF SetupConstants
<1>0. SetupTypeOK /\ UsedOnce /\ CutWhileWritten
  BY DEF SetupInv
<1>1. /\ at.step = "exchange" /\ exchanged' = [exchanged EXCEPT ![at.link] = @ + 1]
      /\ at' \in {[at EXCEPT !.step = "tokens", !.profile = profile], Resting}
      /\ UNCHANGED <<minute, pkce, tokenFile, profileFile, told, setupFaults>>
  BY DEF Exchange
<1>2. at.link \in LinkStates /\ pkce[at.link] = Gone /\ exchanged[at.link] = 0
  BY <1>0, <1>1 DEF UsedOnce
<1>3. /\ exchanged' \in [LinkStates -> Nat] /\ exchanged'[at.link] = 1
      /\ \A o \in LinkStates \ {at.link} : exchanged'[o] = exchanged[o]
  BY <1>0, <1>1, <1>2 DEF SetupTypeOK
<1>4. /\ at' \in SetupRequest
      /\ at'.step = "rest" \/ (at'.step = "tokens" /\ at'.link = at.link)
  <2>1. CASE at' = Resting
    BY <2>1 DEF SetupRequest, Resting
  <2>2. CASE at' = [at EXCEPT !.step = "tokens", !.profile = profile]
    <3>1. at \in SetupRequest
      BY <1>0 DEF SetupTypeOK
    <3>2. at' = [step |-> "tokens", link |-> at.link, profile |-> profile]
      BY <3>1, <2>2 DEF SetupRequest
    <3>3. QED BY <3>1, <3>2 DEF SetupRequest
  <2>3. QED BY <1>1, <2>1, <2>2
<1>5. SetupTypeOK'
  BY <1>0, <1>1, <1>3, <1>4 DEF SetupTypeOK, Gone
<1>6. UsedOnce'
  <2>1. \A o \in LinkStates : exchanged'[o] <= 1 /\ (pkce'[o] # Gone => exchanged'[o] = 0)
    BY <1>0, <1>1, <1>2, <1>3 DEF UsedOnce
  <2>2. tokenFile' \in LinkStates => exchanged'[tokenFile'] = 1
    BY <1>0, <1>1, <1>2, <1>3 DEF UsedOnce
  <2>3. QED BY <2>1, <2>2, <1>1, <1>2, <1>3, <1>4 DEF UsedOnce, Gone
<1>7. CutWhileWritten'
  BY <1>0, <1>1, <1>4 DEF CutWhileWritten
<1>8. QED BY <1>5, <1>6, <1>7 DEF SetupInv

\* The steps that write the files, and the others that leave the links alone.
LEMMA WritesKeep ==
  ASSUME SetupConstants, SetupInv,
         ExchangeFails \/ OpenTokens \/ SaveTokens \/ CompleteSetup \/ OpenProfile \/ SaveProfile
  PROVE  SetupInv'
<1> USE DEF SetupConstants
<1>0. SetupTypeOK /\ UsedOnce /\ CutWhileWritten
  BY DEF SetupInv
<1>1. at \in SetupRequest /\ setupFaults \in Nat
  BY <1>0 DEF SetupTypeOK
<1>2. UNCHANGED <<minute, pkce, exchanged>>
  BY DEF ExchangeFails, OpenTokens, SaveTokens, CompleteSetup, OpenProfile, SaveProfile
<1>3. setupFaults' = setupFaults \/ (setupFaults < MaxSetupFaults /\ setupFaults' = setupFaults + 1)
  BY DEF ExchangeFails, OpenTokens, SaveTokens, CompleteSetup, OpenProfile, SaveProfile, SetupFault
<1>4. setupFaults' \in 0..MaxSetupFaults /\ (setupFaults' = 0 => setupFaults = 0 /\ setupFaults' = setupFaults)
  BY <1>0, <1>3 DEF SetupTypeOK
<1>5. AfterTokens => /\ at' \in SetupRequest
                     /\ at'.step = "rest" \/ (at'.step = "profile" /\ at'.link = at.link)
  BY <1>1, RequestSteps DEF AfterTokens
<1>6. CASE ExchangeFails
  <2>1. at' = Resting /\ at.step = "exchange" /\ UNCHANGED <<tokenFile, profileFile, told, setupFaults>>
    BY <1>6 DEF ExchangeFails
  <2>2. at' \in SetupRequest /\ at'.step = "rest"
    BY <2>1, <1>1, RequestSteps
  <2>3. SetupTypeOK' /\ UsedOnce' /\ CutWhileWritten'
    BY <2>1, <2>2, <1>0, <1>2 DEF SetupTypeOK, UsedOnce, CutWhileWritten, Gone
  <2>4. QED BY <2>3 DEF SetupInv
<1>7. CASE OpenTokens
  <2>1. at.step = "tokens" /\ UNCHANGED <<profileFile, told>>
    BY <1>7 DEF OpenTokens
  <2>2. CASE tokenFile' = Cut /\ at' = [at EXCEPT !.step = "write tokens"]
    <3>1. at' \in SetupRequest /\ at'.step = "write tokens" /\ at'.link = at.link
      BY <2>2, <1>1, RequestSteps
    <3>2. SetupTypeOK' /\ UsedOnce' /\ CutWhileWritten'
      BY <2>1, <2>2, <3>1, <1>0, <1>2, <1>4 DEF SetupTypeOK, UsedOnce, CutWhileWritten, Gone, Cut
    <3>3. QED BY <3>2 DEF SetupInv
  <2>3. CASE SetupFault /\ AfterTokens /\ UNCHANGED tokenFile
    <3>1. setupFaults' # 0
      BY <2>3, <1>1 DEF SetupFault
    <3>2. SetupTypeOK' /\ UsedOnce' /\ CutWhileWritten'
      BY <2>1, <2>3, <3>1, <1>0, <1>2, <1>4, <1>5 DEF SetupTypeOK, UsedOnce, CutWhileWritten, Gone
    <3>3. QED BY <3>2 DEF SetupInv
  <2>4. QED BY <2>2, <2>3, <1>7 DEF OpenTokens
<1>8. CASE SaveTokens
  <2>1. at.step = "write tokens" /\ AfterTokens /\ UNCHANGED <<profileFile, told>>
    BY <1>8 DEF SaveTokens
  <2>2. at.link \in LinkStates /\ exchanged[at.link] = 1
    BY <2>1, <1>0 DEF UsedOnce
  <2>3. CASE tokenFile' = at.link
    <3>1. tokenFile' \in LinkStates /\ tokenFile' # Cut
      BY <2>2, <2>3
    <3>2. SetupTypeOK' /\ UsedOnce' /\ CutWhileWritten'
      BY <2>1, <2>2, <2>3, <3>1, <1>0, <1>2, <1>4, <1>5 DEF SetupTypeOK, UsedOnce, CutWhileWritten, Gone
    <3>3. QED BY <3>2 DEF SetupInv
  <2>4. CASE SetupFault /\ UNCHANGED tokenFile
    <3>1. setupFaults' # 0
      BY <2>4, <1>1 DEF SetupFault
    <3>2. SetupTypeOK' /\ UsedOnce' /\ CutWhileWritten'
      BY <2>1, <2>4, <3>1, <1>0, <1>2, <1>4, <1>5 DEF SetupTypeOK, UsedOnce, CutWhileWritten, Gone
    <3>3. QED BY <3>2 DEF SetupInv
  <2>5. QED BY <2>3, <2>4, <1>8 DEF SaveTokens
<1>9. CASE CompleteSetup
  <2>1. at = Resting /\ at' = [Resting EXCEPT !.step = "profile"] /\ UNCHANGED <<tokenFile, profileFile, told, setupFaults>>
    BY <1>9 DEF CompleteSetup
  <2>2. at.step = "rest" /\ at' \in SetupRequest /\ at'.step = "profile"
    BY <2>1 DEF Resting, SetupRequest
  <2>3. SetupTypeOK' /\ UsedOnce' /\ CutWhileWritten'
    BY <2>1, <2>2, <1>0, <1>2 DEF SetupTypeOK, UsedOnce, CutWhileWritten, Gone
  <2>4. QED BY <2>3 DEF SetupInv
<1>10. CASE OpenProfile
  <2>1. at.step = "profile" /\ UNCHANGED <<tokenFile, told>>
    BY <1>10 DEF OpenProfile
  <2>2. CASE profileFile' = "cut" /\ at' = [at EXCEPT !.step = "write profile"]
    <3>1. at' \in SetupRequest /\ at'.step = "write profile" /\ at'.link = at.link
      BY <2>2, <1>1, RequestSteps
    <3>2. SetupTypeOK' /\ UsedOnce' /\ CutWhileWritten'
      BY <2>1, <2>2, <3>1, <1>0, <1>2, <1>4 DEF SetupTypeOK, UsedOnce, CutWhileWritten, Gone
    <3>3. QED BY <3>2 DEF SetupInv
  <2>3. CASE SetupFault /\ at' = Resting /\ UNCHANGED profileFile
    <3>1. setupFaults' # 0
      BY <2>3, <1>1 DEF SetupFault
    <3>4. at' \in SetupRequest /\ at'.step = "rest"
      BY <2>3 DEF SetupRequest, Resting
    <3>2. SetupTypeOK' /\ UsedOnce' /\ CutWhileWritten'
      BY <2>1, <2>3, <3>1, <3>4, <1>0, <1>2, <1>4 DEF SetupTypeOK, UsedOnce, CutWhileWritten, Gone
    <3>3. QED BY <3>2 DEF SetupInv
  <2>4. QED BY <2>2, <2>3, <1>10 DEF OpenProfile
<1>11. CASE SaveProfile
  <2>1. /\ at.step = "write profile" /\ at' = Resting /\ UNCHANGED tokenFile
        /\ at' \in SetupRequest /\ at'.step = "rest"
    BY <1>11, <1>1, RequestSteps DEF SaveProfile
  <2>2. CASE profileFile' = "whole" /\ told' = (told \/ at.link = NoFile)
    <3>1. SetupTypeOK'
      BY <2>1, <2>2, <1>0, <1>2, <1>4 DEF SetupTypeOK, Gone
    <3>2. UsedOnce' /\ CutWhileWritten'
      BY <2>1, <2>2, <1>0, <1>2, <1>4 DEF UsedOnce, CutWhileWritten, Gone
    <3>3. QED BY <3>1, <3>2 DEF SetupInv
  <2>3. CASE SetupFault /\ UNCHANGED <<profileFile, told>>
    <3>1. setupFaults' # 0
      BY <2>3, <1>1 DEF SetupFault
    <3>2. SetupTypeOK' /\ UsedOnce' /\ CutWhileWritten'
      BY <2>1, <2>3, <3>1, <1>0, <1>2, <1>4 DEF SetupTypeOK, UsedOnce, CutWhileWritten, Gone
    <3>3. QED BY <3>2 DEF SetupInv
  <2>4. QED BY <2>2, <2>3, <1>11 DEF SaveProfile
<1>12. QED BY <1>6, <1>7, <1>8, <1>9, <1>10, <1>11

LEMMA SetupSteps == ASSUME SetupConstants PROVE SetupInv /\ [SetupNext]_setupVars => SetupInv'
<1> SUFFICES ASSUME SetupInv, [SetupNext]_setupVars PROVE SetupInv'
  OBVIOUS
<1>0. SetupTypeOK /\ UsedOnce /\ CutWhileWritten
  BY DEF SetupInv
<1>1. CASE UNCHANGED setupVars
  BY <1>1, <1>0 DEF setupVars, SetupInv, SetupTypeOK, UsedOnce, CutWhileWritten, Gone
<1>2. CASE MinutePasses
  <2>1. /\ minute' = minute + 1 /\ minute < LastMinute
        /\ UNCHANGED <<pkce, at, tokenFile, profileFile, exchanged, told, setupFaults>>
    BY <1>2 DEF MinutePasses
  <2>2. SetupTypeOK'
    BY <2>1, <1>0 DEF SetupTypeOK, Gone, SetupConstants
  <2>3. QED BY <2>1, <2>2, <1>0 DEF SetupInv, UsedOnce, CutWhileWritten, Gone
<1>3. CASE KernelKilled
  <2>1. /\ SetupFault /\ at' = Resting
        /\ pkce' = [s \in LinkStates |-> IF pkce[s] = Unissued THEN Unissued ELSE Gone]
        /\ UNCHANGED <<minute, tokenFile, profileFile, exchanged, told>>
    BY <1>3 DEF KernelKilled
  <2>2. at' \in SetupRequest /\ at'.step = "rest"
    BY <2>1 DEF Resting, SetupRequest
  <2>3. setupFaults' \in 0..MaxSetupFaults /\ setupFaults' # 0
    BY <2>1, <1>0 DEF SetupFault, SetupTypeOK, SetupConstants
  <2>4. pkce' \in [LinkStates -> 0..Gone] /\ \A s \in LinkStates : pkce'[s] # Gone => pkce[s] = Unissued /\ Unissued # Gone
    BY <2>1, <1>0 DEF Unissued, Gone, SetupTypeOK, SetupConstants
  <2>5. SetupTypeOK'
    BY <2>1, <2>2, <2>3, <2>4, <1>0 DEF SetupTypeOK, Gone
  <2>6. UsedOnce' /\ CutWhileWritten'
    BY <2>1, <2>2, <2>3, <2>4, <1>0 DEF UsedOnce, CutWhileWritten, Gone
  <2>7. QED BY <2>5, <2>6 DEF SetupInv
<1>4. QED BY <1>1, <1>2, <1>3, LinksKeep, ExchangeKeeps, WritesKeep DEF SetupNext

\* A link is exchanged once, the tokens on disk are of an exchange, and between two
\* requests the files are whole and setup is as the user was told, unless a write
\* failed or the kernel was killed: for any number of links and of minutes.
THEOREM LinksServeOnce == ASSUME SetupConstants PROVE SetupSpec => []LinksOnce
<1>1. SetupInv => LinksOnce
  <2>1. at = Resting => at.step = "rest"
    BY DEF Resting
  <2>2. QED BY <2>1 DEF SetupInv, UsedOnce, CutWhileWritten, LinksOnce
<1>2. QED BY <1>1, SetupBegins, SetupSteps, PTL DEF SetupSpec

-----------------------------------------------------------------------------
(***************************************************************************)
(* StoreRegistry.  Pages of any size, and a table that changes between     *)
(* them: what is up to the cursor and was there all along has been given,  *)
(* and nothing beyond the cursor has.                                      *)
(***************************************************************************)
PagingSound == scan.pc = "paging" =>
    /\ scan.asked = Prefixed /\ ~scan.again
    /\ \A k \in steady \cap Prefixed : k <= scan.cursor => k \in scan.given
    /\ \A k \in scan.given : k <= scan.cursor

ListInv == ListTypeOK /\ PagingSound /\ ListingComplete

\* How many of a set are below a number.
Below(S, k) == {j \in S : j < k}

LEMMA BelowGrows ==
  ASSUME NEW S \in SUBSET Nat, IsFiniteSet(S), NEW i \in S, NEW k \in Nat, i < k
  PROVE  Cardinality(Below(S, i)) < Cardinality(Below(S, k))
<1>1. IsFiniteSet(Below(S, i)) /\ IsFiniteSet(Below(S, k))
  BY FS_Subset DEF Below
<1>2. Cardinality(Below(S, i)) \in Nat /\ Cardinality(Below(S, k)) \in Nat
  BY <1>1, FS_CardinalityType
<1>3. \A j \in S : j < i => j < k
  <2>1. \A j \in S : j \in Nat
    OBVIOUS
  <2>2. QED BY <2>1
<1>4. Below(S, i) \subseteq Below(S, k)
  BY <1>3 DEF Below
<1>5. i \in Below(S, k) /\ i \notin Below(S, i)
  BY DEF Below
<1>6. Cardinality(Below(S, i)) <= Cardinality(Below(S, k)) /\ Cardinality(Below(S, i)) # Cardinality(Below(S, k))
  BY <1>1, <1>4, <1>5, FS_Subset
<1>7. QED BY <1>2, <1>6

LEMMA LastIsThere ==
  ASSUME NEW S \in SUBSET Nat, IsFiniteSet(S), S # {}
  PROVE  LastOf(S) \in S /\ \A j \in S : j <= LastOf(S)
<1> DEFINE c == Cardinality(S)
           T == {c - Cardinality(Below(S, k)) : k \in S}
<1>1. c \in Nat /\ \A k \in S : Cardinality(Below(S, k)) \in 0..c
  <2>1. ASSUME NEW k \in S PROVE IsFiniteSet(Below(S, k)) /\ Cardinality(Below(S, k)) <= c
    BY FS_Subset DEF Below
  <2>2. c \in Nat /\ \A k \in S : Cardinality(Below(S, k)) \in Nat
    BY <2>1, FS_CardinalityType
  <2>3. QED BY <2>1, <2>2
<1>2. T \in SUBSET Nat /\ T # {}
  <2>1. \A k \in S : c - Cardinality(Below(S, k)) \in Nat
    BY <1>1
  <2> HIDE DEF c
  <2>2. QED BY <2>1
<1>3. PICK d \in T : \A e \in T : d <= e
  BY <1>2, LeastIsThere
<1>4. PICK k \in S : d = c - Cardinality(Below(S, k))
  BY <1>3
<1>5. ASSUME NEW j \in S PROVE j <= k
  <2>1. SUFFICES ASSUME k < j PROVE FALSE
    OBVIOUS
  <2>2. Cardinality(Below(S, k)) < Cardinality(Below(S, j))
    BY <2>1, BelowGrows
  <2>3. c - Cardinality(Below(S, k)) <= c - Cardinality(Below(S, j))
    BY <1>3, <1>4
  <2>4. QED BY <1>1, <2>2, <2>3
<1>6. QED BY <1>5 DEF LastOf

\* The first of a set are in it, and with one of them all that are below it.
LEMMA FirstAreLow ==
  ASSUME NEW S \in SUBSET Nat, IsFiniteSet(S), NEW n \in Nat
  PROVE  /\ FirstOf(n, S) \in SUBSET S
         /\ \A k \in FirstOf(n, S) : \A j \in S : j < k => j \in FirstOf(n, S)
         /\ \A k \in S : Cardinality(Below(S, k)) \in Nat
<1>1. ASSUME NEW k \in S PROVE Cardinality(Below(S, k)) \in Nat
  <2>1. Below(S, k) \in SUBSET S
    BY DEF Below
  <2>2. QED BY <2>1, FS_Subset, FS_CardinalityType
<1>2. FirstOf(n, S) = {k \in S : Cardinality(Below(S, k)) < n}
  BY DEF FirstOf, Below
<1>3. ASSUME NEW k \in S, Cardinality(Below(S, k)) < n, NEW j \in S, j < k PROVE Cardinality(Below(S, j)) < n
  <2>1. Cardinality(Below(S, j)) < Cardinality(Below(S, k))
    BY <1>3, BelowGrows
  <2>2. QED BY <1>1, <1>3, <2>1
<1>4. QED BY <1>1, <1>2, <1>3

\* A page has all of what is left, or a first part of it that is not empty.
LEMMA PageGives ==
  ASSUME ListConstants, ListTypeOK, NEW cursor \in Nat, NEW limit \in Int
  PROVE  LET page == Page(cursor, limit) IN
         /\ page.keys \in SUBSET Matching(cursor) /\ page.more \in BOOLEAN
         /\ ~page.more => page.keys = Matching(cursor)
         /\ page.more => /\ LastOf(page.keys) \in page.keys
                         /\ \A k \in page.keys : k <= LastOf(page.keys)
                         /\ \A k \in Matching(cursor) : k <= LastOf(page.keys) => k \in page.keys
<1> DEFINE M == Matching(cursor)
           page == Page(cursor, limit)
<1>1. PICK size \in Nat \ {0} : size = IF limit < 1 THEN 1 ELSE limit
  OBVIOUS
<1> DEFINE fetched == FirstOf(size + 1, M)
           keys == FirstOf(size, fetched)
<1>2. page.keys = keys /\ page.more = (Cardinality(fetched) > size)
  BY <1>1 DEF Page
<1>3. M \in SUBSET Nat /\ IsFiniteSet(M)
  <2>1. M \in SUBSET ListKeys
    BY DEF Matching, ListTypeOK
  <2>2. QED BY <2>1, FS_Subset DEF ListConstants
<1> HIDE DEF M, page
<1>4. /\ fetched \in SUBSET M /\ \A k \in fetched : \A j \in M : j < k => j \in fetched
      /\ \A k \in M : Cardinality(Below(M, k)) \in Nat
  BY <1>3, FirstAreLow
<1>5. fetched \in SUBSET Nat /\ IsFiniteSet(fetched) /\ Cardinality(fetched) \in Nat
  BY <1>3, <1>4, FS_Subset, FS_CardinalityType
<1>6. \A k \in M : k \in fetched <=> Cardinality(Below(M, k)) < size + 1
  BY DEF FirstOf, Below
<1>7. \A k \in fetched : k \in keys <=> Cardinality(Below(fetched, k)) < size
  BY DEF FirstOf, Below
<1> HIDE DEF fetched
<1>8. /\ keys \in SUBSET fetched /\ \A k \in keys : \A j \in fetched : j < k => j \in keys
      /\ \A k \in fetched : Cardinality(Below(fetched, k)) \in Nat
  BY <1>5, FirstAreLow
<1>9. IsFiniteSet(keys) /\ keys \in SUBSET Nat
  BY <1>5, <1>8, FS_Subset
<1> HIDE DEF keys
<1>10. ASSUME Cardinality(fetched) <= size PROVE keys = M
  <2>1. ASSUME NEW k \in fetched PROVE k \in keys
    <3>1. Below(fetched, k) \in SUBSET fetched /\ k \notin Below(fetched, k)
      BY <1>5 DEF Below
    <3>2. Cardinality(Below(fetched, k)) <= Cardinality(fetched) /\ Cardinality(Below(fetched, k)) # Cardinality(fetched)
      BY <1>5, <3>1, FS_Subset
    <3>3. QED BY <1>5, <1>7, <1>8, <1>10, <3>2
  <2>2. ASSUME M \ fetched # {} PROVE FALSE
    <3>1. PICK k \in M \ fetched : \A j \in M \ fetched : k <= j
      BY <1>3, <2>2, LeastIsThere
    <3>2. Below(M, k) \in SUBSET fetched
      <4>1. \A j \in M : j < k => ~(k <= j)
        BY <1>3, <3>1
      <4>2. QED BY <3>1, <4>1 DEF Below
    <3>3. Cardinality(Below(M, k)) <= Cardinality(fetched)
      BY <1>5, <3>2, FS_Subset
    <3>4. Cardinality(Below(M, k)) \in Nat /\ ~(Cardinality(Below(M, k)) < size + 1)
      BY <1>4, <1>6, <3>1
    <3>5. QED BY <1>5, <1>10, <3>3, <3>4
  <2>3. QED BY <1>4, <1>8, <2>1, <2>2
<1>11. ASSUME Cardinality(fetched) > size PROVE keys # {}
  <2>1. fetched # {}
    BY <1>5, <1>11, FS_EmptySet
  <2>2. PICK k \in fetched : \A j \in fetched : k <= j
    BY <1>5, <2>1, LeastIsThere
  <2>3. \A j \in fetched : ~(j < k)
    BY <1>5, <2>2
  <2>4. Below(fetched, k) = {}
    BY <2>3 DEF Below
  <2>5. Cardinality(Below(fetched, k)) < size
    BY <2>4, FS_EmptySet
  <2>6. QED BY <1>7, <2>5
<1>12. ASSUME keys # {}
       PROVE  /\ LastOf(keys) \in keys /\ \A k \in keys : k <= LastOf(keys)
              /\ \A k \in M : k <= LastOf(keys) => k \in keys
  <2>1. LastOf(keys) \in keys /\ \A k \in keys : k <= LastOf(keys)
    BY <1>9, <1>12, LastIsThere
  <2>2. ASSUME NEW k \in M, k <= LastOf(keys) PROVE k \in keys
    <3>1. k = LastOf(keys) \/ k < LastOf(keys)
      <4>1. k \in Nat /\ LastOf(keys) \in Nat
        BY <1>3, <1>9, <2>1
      <4>2. QED BY <2>2, <4>1
    <3>2. CASE k < LastOf(keys)
      BY <1>4, <1>8, <2>1, <3>2
    <3>3. QED BY <2>1, <3>1, <3>2
  <2>3. QED BY <2>1, <2>2
<1>13. (Cardinality(fetched) > size) \in BOOLEAN /\ (~(Cardinality(fetched) > size) => Cardinality(fetched) <= size)
  BY <1>5
<1>14. keys \in SUBSET M
  BY <1>4, <1>8
<1>15. QED
  BY <1>2, <1>10, <1>11, <1>12, <1>13, <1>14 DEF M, page

ScanStates == [pc: {"idle", "paging", "done", "cut"}, cursor: ListKeys \cup {NoCursor},
               asked: SUBSET ListKeys, given: SUBSET ListKeys, again: BOOLEAN]

\* One more page of a listing that is sound up to its cursor.
LEMMA DeliverKeeps ==
  ASSUME ListConstants, ListTypeOK, NEW cursor \in ListKeys \cup {NoCursor}, NEW limit \in Limits,
         NEW given \in SUBSET ListKeys, NEW S \in SUBSET present,
         \A k \in S \cap Prefixed : k <= cursor => k \in given,
         \A k \in given : k <= cursor,
         Deliver(Page(cursor, limit), given, FALSE),
         present' = present, steady' = S
  PROVE  ListInv'
<1> DEFINE page == Page(cursor, limit)
           M == Matching(cursor)
<1>1. cursor \in Nat /\ limit \in Int /\ ListKeys \subseteq Nat /\ Prefixed \in SUBSET ListKeys /\ present \in SUBSET ListKeys
  BY DEF ListConstants, NoCursor, ListTypeOK
<1>2. /\ page.keys \in SUBSET M /\ page.more \in BOOLEAN
      /\ ~page.more => page.keys = M
      /\ page.more => /\ LastOf(page.keys) \in page.keys
                      /\ \A k \in page.keys : k <= LastOf(page.keys)
                      /\ \A k \in M : k <= LastOf(page.keys) => k \in page.keys
  BY <1>1, PageGives
<1>3. /\ M \in SUBSET ListKeys /\ \A k \in M : k > cursor
      /\ \A k \in present \cap Prefixed : k <= cursor \/ k \in M
  <2>1. \A k \in present \cap Prefixed : k \in Nat
    BY <1>1
  <2>2. \A k \in present \cap Prefixed : k <= cursor \/ k > cursor
    BY <1>1, <2>1
  <2>3. QED BY <1>1, <2>2 DEF Matching
<1>4. scan' = [pc |-> IF page.more THEN "paging" ELSE "done",
               cursor |-> IF page.more THEN LastOf(page.keys) ELSE NoCursor,
               asked |-> Prefixed, given |-> given \cup page.keys,
               again |-> FALSE \/ page.keys \cap given # {}]
  BY DEF Deliver
<1> HIDE DEF page, M
<1>5. page.keys \cap given = {}
  <2>1. \A k \in page.keys : k \in Nat /\ k > cursor
    BY <1>1, <1>2, <1>3
  <2>2. \A k \in given : k \in Nat /\ ~(k > cursor)
    BY <1>1
  <2>3. QED BY <2>1, <2>2
<1>6. page.keys \in SUBSET ListKeys /\ (page.more => LastOf(page.keys) \in ListKeys)
  BY <1>2, <1>3
<1>7. scan' \in ScanStates
  BY <1>1, <1>2, <1>4, <1>5, <1>6 DEF ScanStates, NoCursor
<1>8. ListTypeOK'
  BY <1>1, <1>7 DEF ListTypeOK, ScanStates
<1>9. CASE page.more
  <2>1. /\ scan'.pc = "paging" /\ scan'.cursor = LastOf(page.keys) /\ scan'.asked = Prefixed
        /\ scan'.given = given \cup page.keys /\ ~scan'.again
    BY <1>4, <1>5, <1>9
  <2>2. LastOf(page.keys) \in Nat /\ LastOf(page.keys) > cursor
    BY <1>1, <1>2, <1>3, <1>9
  <2>3. ASSUME NEW k \in S \cap Prefixed, k <= LastOf(page.keys) PROVE k \in given \cup page.keys
    <3>1. k \in present \cap Prefixed
      OBVIOUS
    <3>2. QED BY <1>2, <1>3, <1>9, <2>3, <3>1
  <2>4. ASSUME NEW k \in given \cup page.keys PROVE k <= LastOf(page.keys)
    <3>1. CASE k \in page.keys
      BY <1>2, <1>9, <3>1
    <3>2. CASE k \in given
      <4>1. k \in Nat /\ k <= cursor
        BY <1>1, <3>2
      <4>2. QED BY <1>1, <2>2, <4>1
    <3>3. QED BY <3>1, <3>2
  <2>5. PagingSound' /\ ListingComplete'
    BY <2>1, <2>3, <2>4 DEF PagingSound, ListingComplete
  <2>6. QED BY <1>8, <2>5 DEF ListInv
<1>10. CASE ~page.more
  <2>1. /\ scan'.pc = "done" /\ scan'.asked = Prefixed /\ scan'.given = given \cup page.keys /\ ~scan'.again
    BY <1>4, <1>5, <1>10
  <2>2. ASSUME NEW k \in S \cap Prefixed PROVE k \in given \cup page.keys
    <3>1. k \in present \cap Prefixed
      OBVIOUS
    <3>2. QED BY <1>2, <1>3, <1>10, <3>1
  <2>3. PagingSound' /\ ListingComplete'
    BY <2>1, <2>2 DEF PagingSound, ListingComplete
  <2>4. QED BY <1>8, <2>3 DEF ListInv
<1>11. QED BY <1>2, <1>9, <1>10

LEMMA ListBegins == ASSUME ListConstants PROVE ListInit => ListInv
<1>1. SUFFICES ASSUME ListInit PROVE ListInv
  OBVIOUS
<1>2. present = {} /\ steady = {} /\ scan = [pc |-> "idle", cursor |-> NoCursor, asked |-> {}, given |-> {}, again |-> FALSE]
  BY <1>1 DEF ListInit
<1>3. ListTypeOK
  BY <1>2 DEF ListTypeOK
<1>4. PagingSound /\ ListingComplete
  BY <1>2 DEF PagingSound, ListingComplete
<1>5. QED BY <1>3, <1>4 DEF ListInv

LEMMA ListSteps == ASSUME ListConstants PROVE ListInv /\ [ListNext]_listVars => ListInv'
<1> SUFFICES ASSUME ListInv, [ListNext]_listVars PROVE ListInv'
  OBVIOUS
<1>1. ListTypeOK /\ PagingSound /\ ListingComplete
  BY DEF ListInv
<1>2. present \in SUBSET ListKeys /\ steady \in SUBSET present /\ scan \in ScanStates
  BY <1>1 DEF ListTypeOK, ScanStates
<1>3. CASE UNCHANGED listVars
  BY <1>1, <1>3 DEF listVars, ListInv, ListTypeOK, PagingSound, ListingComplete
<1>4. ASSUME NEW k \in ListKeys, PutKey(k) PROVE ListInv'
  <2>1. present' = present \cup {k} /\ UNCHANGED <<scan, steady>>
    BY <1>4 DEF PutKey
  <2>2. QED BY <1>1, <2>1 DEF ListInv, ListTypeOK, PagingSound, ListingComplete
<1>5. ASSUME NEW k \in ListKeys, DropKey(k) PROVE ListInv'
  <2>1. present' = present \ {k} /\ steady' = steady \ {k} /\ UNCHANGED scan
    BY <1>5 DEF DropKey
  <2>2. ListTypeOK'
    BY <1>1, <2>1 DEF ListTypeOK
  <2>3. steady' \subseteq steady
    BY <2>1
  <2>4. PagingSound' /\ ListingComplete'
    BY <1>1, <2>1, <2>3 DEF PagingSound, ListingComplete
  <2>5. QED BY <2>2, <2>4 DEF ListInv
<1>6. ASSUME NEW limit \in Limits, StartList(limit) PROVE ListInv'
  <2>1. Deliver(Page(NoCursor, limit), {}, FALSE) /\ steady' = present /\ present' = present
    BY <1>6 DEF StartList
  <2>2. \A k \in present \cap Prefixed : ~(k <= NoCursor)
    BY <1>2 DEF NoCursor, ListConstants
  <2>3. {} \in SUBSET ListKeys /\ NoCursor \in ListKeys \cup {NoCursor} /\ present \in SUBSET present
    OBVIOUS
  <2>4. \A k \in present \cap Prefixed : k <= NoCursor => k \in {}
    BY <2>2
  <2>5. \A k \in {} : k <= NoCursor
    OBVIOUS
  <2>6. QED BY <1>1, <2>1, <2>3, <2>4, <2>5, DeliverKeeps
<1>7. ASSUME NEW limit \in Limits, NextPage(limit) PROVE ListInv'
  <2>1. /\ scan.pc = "paging" /\ Deliver(Page(scan.cursor, limit), scan.given, scan.again)
        /\ steady' = steady /\ present' = present
    BY <1>7 DEF NextPage
  <2>2. /\ scan.again = FALSE /\ scan.cursor \in ListKeys \cup {NoCursor} /\ scan.given \in SUBSET ListKeys
        /\ \A k \in steady \cap Prefixed : k <= scan.cursor => k \in scan.given
        /\ \A k \in scan.given : k <= scan.cursor
    BY <1>1, <1>2, <2>1 DEF PagingSound, ScanStates
  <2>3. Deliver(Page(scan.cursor, limit), scan.given, FALSE)
    BY <2>1, <2>2
  <2>4. QED BY <1>1, <1>2, <2>1, <2>2, <2>3, DeliverKeeps
<1>8. CASE WholeList
  <2>1. /\ scan' = [pc |-> "done", cursor |-> NoCursor, asked |-> Prefixed, given |-> Matching(NoCursor), again |-> FALSE]
        /\ steady' = present /\ present' = present
    BY <1>8 DEF WholeList
  <2>2. \A k \in present \cap Prefixed : k \in Matching(NoCursor)
    BY <1>2 DEF Matching, NoCursor, ListConstants
  <2>3. Matching(NoCursor) \in SUBSET ListKeys /\ Prefixed \in SUBSET ListKeys
    BY <1>2 DEF Matching, ListConstants
  <2>4. ListTypeOK'
    BY <1>2, <2>1, <2>3 DEF ListTypeOK
  <2>5. PagingSound' /\ ListingComplete'
    BY <2>1, <2>2 DEF PagingSound, ListingComplete
  <2>6. QED BY <2>4, <2>5 DEF ListInv
<1>9. ASSUME NEW keys \in SUBSET ListKeys, BatchGet(keys) PROVE ListInv'
  <2> DEFINE there == keys \cap present
             fits == FirstOf(MaxBatch, there)
  <2>1. /\ scan' = [pc |-> IF fits = there THEN "done" ELSE "cut", cursor |-> NoCursor, asked |-> keys,
                    given |-> fits, again |-> FALSE]
        /\ steady' = present /\ present' = present
    BY <1>9 DEF BatchGet
  <2>2. fits \in SUBSET ListKeys
    BY <1>2 DEF FirstOf
  <2> HIDE DEF fits
  <2>3. ListTypeOK'
    BY <1>2, <2>1, <2>2 DEF ListTypeOK
  <2>4. PagingSound' /\ ListingComplete'
    BY <2>1 DEF PagingSound, ListingComplete
  <2>5. QED BY <2>3, <2>4 DEF ListInv
<1>10. QED BY <1>3, <1>4, <1>5, <1>6, <1>7, <1>8, <1>9 DEF ListNext

LEMMA ListAlways == ASSUME ListConstants PROVE ListSpec => []ListInv
BY ListBegins, ListSteps, PTL DEF ListSpec

\* A listing page by page gives every key that was there all along, and none twice,
\* for any keys, any limits and any changes between the pages.
THEOREM ListingsAreComplete == ASSUME ListConstants PROVE ListSpec => []ListingComplete
<1>1. ListInv => ListingComplete
  BY DEF ListInv
<1>2. QED BY <1>1, ListAlways, PTL

-----------------------------------------------------------------------------
(***************************************************************************)
(* PackApi, the tables of pack routes.  Whichever thread resets a table    *)
(* has not added a route to it yet, and adds all of them before it ends:   *)
(* what one thread takes out or sets back, it or the other one adds again. *)
(***************************************************************************)
\* A thread will add the route j; a thread has been there, now or before.
Coming(j) == \E l \in Loaders : loading[l] \in 1..(j + 3)
Passed(j) == filled \/ \E l \in Loaders : loading[l] > j + 3

LastOfKey(j) == \A i \in Reached : KeyOf(routes[i]) = KeyOf(routes[j]) => i <= j
IsExact(r) == r.name \in r.covers

TablesFollow == \A j \in Reached : Passed(j) => Coming(j) \/
    /\ LastOfKey(j) => Index(listed, KeyOf(routes[j])) = j
    /\ LastOfKey(j) /\ IsExact(routes[j]) => Index(exact, KeyOf(routes[j])) = j
    /\ ~IsExact(routes[j]) => \E n \in DOMAIN templates : templates[n] = j

\* The routes are those of a file, below the prefix of their pack.
RoutesLoaded == \E f \in RouteFiles : routes = Loaded(f)

\* Threads add what compiles, and the kernel's loads for a server that has started.
LoadersSound ==
    /\ templates \in Seq(DOMAIN routes)
    /\ \A l \in Loaders : \A m \in DOMAIN routes : m + 3 < loading[l] => routes[m].sound
    /\ subscribed <= started /\ (loading["kernel"] > 0 => subscribed > 0)

OwnFlows == serving # Idle => serving.route \in DOMAIN routes /\ routes[serving.route].flowOf = serving.path[2]

RouteInv == RouteTypeOK /\ RoutesLoaded /\ LoadersSound /\ TablesFollow /\ OwnFlows

LEMMA RouteFacts ==
  ASSUME RouteConstants, RoutesLoaded
  PROVE  /\ Len(routes) \in Nat /\ DOMAIN routes = 1..Len(routes)
         /\ \A i \in DOMAIN routes : routes[i].under = routes[i].pack
         /\ \A i, j \in DOMAIN routes :
              /\ IsExact(routes[i]) => routes[i].covers = {routes[i].name}
              /\ KeyOf(routes[i]) = KeyOf(routes[j]) => routes[i].covers = routes[j].covers
<1>1. PICK f \in RouteFiles : routes = Loaded(f)
  BY DEF RoutesLoaded
<1> DEFINE X == {f[i] : i \in DOMAIN f}
           K == {i \in DOMAIN f : Accepted(f[i])}
<1>2. f \in Seq(X) /\ K \in SUBSET DOMAIN f
  BY DEF RouteConstants
<1>3. routes = Selected(f, K)
  BY <1>1 DEF Loaded
<1>4. \A i \in K : f[i].under = f[i].pack
  BY DEF Accepted
<1>5. \A i, j \in K : /\ IsExact(f[i]) => f[i].covers = {f[i].name}
                      /\ KeyOf(f[i]) = KeyOf(f[j]) => f[i].covers = f[j].covers
  BY DEF RouteConstants, IsExact
<1> HIDE DEF X, K
<1>6. /\ Selected(f, K) \in Seq(X) /\ DOMAIN Selected(f, K) = 1..Cardinality(K)
      /\ Len(Selected(f, K)) = Cardinality(K) /\ Cardinality(K) \in 0..Len(f)
      /\ \A n \in DOMAIN Selected(f, K) : \E i \in K : n = Place(K, i) /\ Selected(f, K)[n] = f[i]
  BY <1>2, SelectedKeeps
<1>7. \A n \in DOMAIN routes : \E i \in K : routes[n] = f[i]
  BY <1>3, <1>6
<1>8. Len(f) \in Nat
  BY <1>2
<1>9. Len(routes) \in Nat /\ DOMAIN routes = 1..Len(routes)
  BY <1>3, <1>6, <1>8
<1>10. \A i \in DOMAIN routes : routes[i].under = routes[i].pack
  BY <1>4, <1>7
<1>11. ASSUME NEW m \in DOMAIN routes, NEW n \in DOMAIN routes
       PROVE  /\ IsExact(routes[m]) => routes[m].covers = {routes[m].name}
              /\ KeyOf(routes[m]) = KeyOf(routes[n]) => routes[m].covers = routes[n].covers
  BY <1>5, <1>7
<1>12. QED BY <1>9, <1>10, <1>11

\* Matching finds a route with the path, if there is one.
LEMMA MatchGives ==
  ASSUME RouteTypeOK, LoadersSound, DOMAIN routes \in SUBSET (Nat \ {0}), NEW path
  PROVE  /\ Index(exact, path) # 0 => Match(path) = Index(exact, path)
         /\ (\E n \in DOMAIN templates : path \in PathsOf(routes[templates[n]])) => Match(path) # 0
         /\ Match(path) # 0 => Match(path) \in DOMAIN routes /\ path[2] = routes[Match(path)].under
<1> DEFINE fitting == {i \in DOMAIN templates : path \in PathsOf(routes[templates[i]])}
           least == CHOOSE i \in fitting : \A j \in fitting : i <= j
<1>1. Match(path) = IF Index(exact, path) # 0 THEN exact[path] ELSE IF fitting = {} THEN 0 ELSE templates[least]
  BY DEF Match
<1>2. DOMAIN templates \in SUBSET Nat /\ \A n \in DOMAIN templates : templates[n] \in DOMAIN routes
  BY DEF LoadersSound
<1>3. ASSUME fitting # {} PROVE least \in fitting
  <2>1. fitting \in SUBSET Nat
    BY <1>2
  <2>2. \E i \in fitting : \A j \in fitting : i <= j
    BY <1>3, <2>1, LeastIsThere
  <2>3. QED BY <2>2
<1>4. \A i \in fitting : templates[i] \in DOMAIN routes /\ path \in PathsOf(routes[templates[i]])
  BY <1>2
<1>5. ASSUME Index(exact, path) # 0
      PROVE  exact[path] = Index(exact, path) /\ exact[path] \in DOMAIN routes /\ KeyOf(routes[exact[path]]) = path
  BY <1>5 DEF Index, RouteTypeOK
<1>6. \A r : path \in PathsOf(r) \/ path = KeyOf(r) => path[2] = r.under
  BY DEF PathsOf, KeyOf
<1>7. (\E n \in DOMAIN templates : path \in PathsOf(routes[templates[n]])) => fitting # {}
  OBVIOUS
<1> HIDE DEF fitting, least
<1>8. QED BY <1>1, <1>3, <1>4, <1>5, <1>6, <1>7

LEMMA RouteBegins == ASSUME RouteConstants PROVE RouteInit => RouteInv
<1>1. SUFFICES ASSUME RouteInit PROVE RouteInv
  OBVIOUS
<1>2. /\ RoutesLoaded /\ listed = << >> /\ exact = << >> /\ templates = << >> /\ loading = [l \in Loaders |-> 0]
      /\ httpServer = "down" /\ subscribed = 0 /\ serving = Idle /\ started = 0 /\ filled = FALSE /\ MaxServers \in Nat
  BY <1>1 DEF RouteInit, RoutesLoaded, RouteConstants
<1>3. Len(routes) \in Nat /\ DOMAIN routes = 1..Len(routes)
  BY <1>2, RouteFacts
<1>4. \A l \in Loaders : loading[l] = 0
  BY <1>2
<1>5. RouteTypeOK
  <2>1. loading \in [Loaders -> 0..(Len(routes) + 4)]
    BY <1>2, <1>3
  <2>2. serving.route = 0
    BY <1>2 DEF Idle
  <2>3. DOMAIN listed = {} /\ DOMAIN exact = {} /\ DOMAIN templates = {}
    BY <1>2
  <2>4. \A f \in {listed, exact} : DOMAIN f = {}
    BY <2>3
  <2>5. 0 \in 0..MaxServers /\ FALSE \in BOOLEAN
    BY <1>2
  <2>6. subscribed \in 0..MaxServers /\ started \in 0..MaxServers /\ filled \in BOOLEAN
    BY <1>2, <2>5
  <2>7. QED BY <1>2, <2>1, <2>2, <2>3, <2>4, <2>6 DEF RouteTypeOK
<1>6. LoadersSound
  BY <1>2, <1>3, <1>4 DEF LoadersSound, Loaders
<1>7. TablesFollow
  <2>1. \A j \in Reached : ~Passed(j)
    BY <1>2, <1>3, <1>4 DEF Passed, Reached
  <2>2. QED BY <2>1 DEF TablesFollow
<1>8. OwnFlows
  BY <1>2 DEF OwnFlows
<1>9. QED BY <1>2, <1>5, <1>6, <1>7, <1>8 DEF RouteInv

\* A step of no thread's load leaves the tables as they are; one that starts a load
\* has all of it before it.
LEMMA NoLoadStep ==
  ASSUME RouteConstants, RouteInv, UNCHANGED <<routes, listed, exact, templates, filled>>,
         loading' \in [Loaders -> 0..(Len(routes) + 4)],
         \A l \in Loaders : loading'[l] = loading[l] \/ (loading'[l] = 1 /\ loading[l] = 0)
  PROVE  TablesFollow' /\ \A l \in Loaders : \A m \in DOMAIN routes : m + 3 < loading'[l] => routes[m].sound
<1>1. /\ RouteTypeOK /\ RoutesLoaded /\ LoadersSound /\ TablesFollow
      /\ Len(routes) \in Nat /\ DOMAIN routes = 1..Len(routes)
  BY RouteFacts DEF RouteInv
<1>2. \A l \in Loaders : loading[l] \in Nat /\ loading'[l] \in Nat
  BY <1>1 DEF RouteTypeOK
<1>3. Reached \in SUBSET (1..Len(routes)) /\ Reached' = Reached
  BY <1>1 DEF Reached
<1>4. ASSUME NEW j \in Reached PROVE /\ Passed(j)' => Passed(j)
                                     /\ Coming(j) => Coming(j)'
  <2>1. j \in Nat
    BY <1>3
  <2>2. Passed(j)' => Passed(j)
    BY <1>2, <2>1 DEF Passed
  <2>3. Coming(j) => Coming(j)'
    BY <1>2, <2>1 DEF Coming
  <2>4. QED BY <2>2, <2>3
<1>5. \A j \in Reached : LastOfKey(j)' <=> LastOfKey(j)
  BY <1>3 DEF LastOfKey
<1>6. TablesFollow'
  BY <1>1, <1>3, <1>4, <1>5 DEF TablesFollow
<1>7. ASSUME NEW l \in Loaders, NEW m \in DOMAIN routes, m + 3 < loading'[l] PROVE routes[m].sound
  <2>1. loading'[l] = loading[l]
    BY <1>1, <1>2, <1>7
  <2>2. QED BY <1>1, <1>7, <2>1 DEF LoadersSound
<1>8. QED BY <1>6, <1>7

LEMMA ResetStep == ASSUME RouteConstants, RouteInv, NEW l \in Loaders, ResetTable(l) PROVE RouteInv'
<1>1. /\ RouteTypeOK /\ RoutesLoaded /\ LoadersSound /\ OwnFlows /\ MaxServers \in Nat
      /\ Len(routes) \in Nat /\ DOMAIN routes = 1..Len(routes)
  BY RouteFacts DEF RouteInv, RouteConstants
<1>2. /\ UNCHANGED <<routes, httpServer, subscribed, serving, started, filled>>
      /\ loading[l] \in 1..3 /\ loading' = [loading EXCEPT ![l] = @ + 1]
      /\ listed' \in {listed, << >>} /\ exact' \in {exact, << >>} /\ templates' \in {templates, << >>}
  BY DEF ResetTable
<1>3. \A o \in Loaders : loading[o] \in 0..(Len(routes) + 4)
  BY <1>1 DEF RouteTypeOK
<1>4. loading' \in [Loaders -> 0..(Len(routes) + 4)] /\ loading'[l] \in 2..4
      /\ \A o \in Loaders : o # l => loading'[o] = loading[o]
  <2>1. loading[l] + 1 \in 0..(Len(routes) + 4) /\ loading[l] + 1 \in 2..4
    BY <1>1, <1>2
  <2>2. loading \in [Loaders -> 0..(Len(routes) + 4)]
    BY <1>1 DEF RouteTypeOK
  <2>3. QED BY <1>2, <2>1, <2>2
<1>5. RouteTypeOK'
  <2>1. \A f \in {listed, exact} : \A k \in DOMAIN f : f[k] \in DOMAIN routes /\ KeyOf(routes[f[k]]) = k
    BY <1>1 DEF RouteTypeOK
  <2>2. \A f \in {listed', exact'} : \A k \in DOMAIN f : f[k] \in DOMAIN routes /\ KeyOf(routes[f[k]]) = k
    BY <1>2, <2>1
  <2>3. \A n \in DOMAIN templates' : templates'[n] \in DOMAIN routes
    BY <1>1, <1>2 DEF RouteTypeOK
  <2>4. QED BY <1>1, <1>2, <1>4, <2>2, <2>3 DEF RouteTypeOK
<1>6. LoadersSound'
  <2>1. templates' \in Seq(DOMAIN routes)
    <3>1. templates \in Seq(DOMAIN routes) /\ << >> \in Seq(DOMAIN routes)
      BY <1>1 DEF LoadersSound
    <3>2. QED BY <1>2, <3>1
  <2>2. ASSUME NEW o \in Loaders, NEW m \in DOMAIN routes, m + 3 < loading'[o] PROVE routes[m].sound
    <3>1. o # l
      BY <1>1, <1>4, <2>2
    <3>2. QED BY <1>1, <1>4, <2>2, <3>1 DEF LoadersSound
  <2>3. loading'["kernel"] > 0 => loading["kernel"] > 0
    BY <1>2, <1>3, <1>4 DEF Loaders
  <2>4. QED BY <1>1, <1>2, <2>1, <2>2, <2>3 DEF LoadersSound
<1>7. TablesFollow'
  <2>1. ASSUME NEW j \in Reached' PROVE Coming(j)'
    <3>1. j \in 1..Len(routes)
      BY <1>1, <1>2 DEF Reached
    <3>2. loading'[l] \in 1..(j + 3)
      BY <1>1, <1>4, <3>1
    <3>3. QED BY <3>2 DEF Coming
  <2>2. QED BY <2>1 DEF TablesFollow
<1>8. OwnFlows'
  BY <1>1, <1>2 DEF OwnFlows
<1>9. RoutesLoaded'
  BY <1>1, <1>2 DEF RoutesLoaded
<1>10. QED BY <1>5, <1>6, <1>7, <1>8, <1>9 DEF RouteInv

\* A route in a table: the key has it, and no other key changes.
LEMMA TableHas ==
  ASSUME NEW f, NEW key, NEW i
  PROVE  LET g == Assigned(f, key, i) IN
         /\ Index(g, key) = i /\ \A k : k # key => Index(g, k) = Index(f, k)
         /\ \A k \in DOMAIN g : (k = key /\ g[k] = i) \/ (k \in DOMAIN f /\ g[k] = f[k])
<1> DEFINE g == Assigned(f, key, i)
<1>1. DOMAIN g = {key} \cup DOMAIN f /\ \A k \in DOMAIN g : g[k] = IF k = key THEN i ELSE f[k]
  BY DEF Assigned
<1> HIDE DEF g
<1>2. Index(g, key) = i /\ \A k : k # key => Index(g, k) = Index(f, k)
  BY <1>1 DEF Index
<1>3. \A k \in DOMAIN g : (k = key /\ g[k] = i) \/ (k \in DOMAIN f /\ g[k] = f[k])
  BY <1>1
<1>4. QED BY <1>2, <1>3 DEF g

LEMMA AddStep == ASSUME RouteConstants, RouteInv, NEW l \in Loaders, AddRoute(l) PROVE RouteInv'
<1>1. /\ RouteTypeOK /\ RoutesLoaded /\ LoadersSound /\ OwnFlows /\ TablesFollow
      /\ Len(routes) \in Nat /\ DOMAIN routes = 1..Len(routes)
  BY RouteFacts DEF RouteInv
<1>2. \A o \in Loaders : loading[o] \in 0..(Len(routes) + 4)
  BY <1>1 DEF RouteTypeOK
<1>3. PICK i \in DOMAIN routes : i = loading[l] - 3
  BY DEF AddRoute
<1> DEFINE key == KeyOf(routes[i])
<1>4. /\ UNCHANGED <<routes, httpServer, subscribed, serving, started, filled>>
      /\ routes[i].sound /\ loading' = [loading EXCEPT ![l] = @ + 1]
      /\ listed' = Assigned(listed, key, i)
      /\ IF IsExact(routes[i]) THEN exact' = Assigned(exact, key, i) /\ templates' = templates
         ELSE templates' = Append(templates, i) /\ exact' = exact
  BY <1>3 DEF AddRoute, IsExact
<1>5. i \in 1..Len(routes) /\ loading[l] = i + 3
  BY <1>1, <1>2, <1>3
<1>6. loading' \in [Loaders -> 0..(Len(routes) + 4)] /\ loading'[l] = i + 4
      /\ \A o \in Loaders : o # l => loading'[o] = loading[o]
  <2>1. loading[l] + 1 = i + 4 /\ i + 4 \in 0..(Len(routes) + 4)
    BY <1>1, <1>5
  <2>2. loading \in [Loaders -> 0..(Len(routes) + 4)]
    BY <1>1 DEF RouteTypeOK
  <2>3. QED BY <1>4, <2>1, <2>2
<1>7. i \in Reached
  <2>1. ASSUME NEW j \in 1..i PROVE routes[j].sound
    <3>1. j = i \/ (j \in DOMAIN routes /\ j + 3 < loading[l])
      BY <1>1, <1>5
    <3>2. QED BY <1>1, <1>4, <3>1 DEF LoadersSound
  <2>2. QED BY <2>1 DEF Reached
<1> HIDE DEF key
<1>8. /\ Index(listed', key) = i /\ \A k : k # key => Index(listed', k) = Index(listed, k)
      /\ \A k \in DOMAIN listed' : (k = key /\ listed'[k] = i) \/ (k \in DOMAIN listed /\ listed'[k] = listed[k])
  BY <1>4, TableHas
<1>9. /\ IsExact(routes[i]) => Index(exact', key) = i
      /\ \A k : k # key => Index(exact', k) = Index(exact, k)
      /\ \A k \in DOMAIN exact' : (k = key /\ exact'[k] = i) \/ (k \in DOMAIN exact /\ exact'[k] = exact[k])
  <2>1. CASE IsExact(routes[i])
    BY <1>4, <2>1, TableHas
  <2>2. CASE ~IsExact(routes[i])
    BY <1>4, <2>2
  <2>3. QED BY <2>1, <2>2
<1>10. /\ templates' \in Seq(DOMAIN routes)
       /\ ~IsExact(routes[i]) => \E n \in DOMAIN templates' : templates'[n] = i
       /\ \A n \in DOMAIN templates : n \in DOMAIN templates' /\ templates'[n] = templates[n]
  <2>1. templates \in Seq(DOMAIN routes)
    BY <1>1 DEF LoadersSound
  <2>2. CASE IsExact(routes[i])
    BY <1>4, <2>1, <2>2
  <2>3. CASE ~IsExact(routes[i])
    <3>1. templates' = Append(templates, i) /\ Len(templates) \in Nat
      BY <1>4, <2>1, <2>3
    <3>2. templates' \in Seq(DOMAIN routes) /\ DOMAIN templates' = 1..(Len(templates) + 1)
      BY <2>1, <3>1
    <3>3. templates'[Len(templates) + 1] = i /\ Len(templates) + 1 \in DOMAIN templates'
      BY <2>1, <3>1, <3>2
    <3>4. \A n \in DOMAIN templates : n \in DOMAIN templates' /\ templates'[n] = templates[n]
      BY <2>1, <3>1, <3>2
    <3>5. QED BY <3>2, <3>3, <3>4
  <2>4. QED BY <2>2, <2>3
<1>11. RouteTypeOK'
  <2>1. /\ \A k \in DOMAIN listed : listed[k] \in DOMAIN routes /\ KeyOf(routes[listed[k]]) = k
        /\ \A k \in DOMAIN exact : exact[k] \in DOMAIN routes /\ KeyOf(routes[exact[k]]) = k
    BY <1>1 DEF RouteTypeOK
  <2>2. key = KeyOf(routes[i])
    BY DEF key
  <2>3. /\ \A k \in DOMAIN listed' : listed'[k] \in DOMAIN routes /\ KeyOf(routes[listed'[k]]) = k
        /\ \A k \in DOMAIN exact' : exact'[k] \in DOMAIN routes /\ KeyOf(routes[exact'[k]]) = k
    BY <1>8, <1>9, <2>1, <2>2
  <2>4. \A f \in {listed', exact'} : \A k \in DOMAIN f : f[k] \in DOMAIN routes /\ KeyOf(routes[f[k]]) = k
    BY <2>3
  <2>5. \A n \in DOMAIN templates' : templates'[n] \in DOMAIN routes
    BY <1>10
  <2>6. routes' = routes
    BY <1>4
  <2>7. \A f \in {listed', exact'} : \A k \in DOMAIN f : f[k] \in DOMAIN routes' /\ KeyOf(routes'[f[k]]) = k
    BY <2>4, <2>6
  <2>8. QED BY <1>1, <1>4, <1>6, <2>5, <2>6, <2>7 DEF RouteTypeOK
<1>12. LoadersSound'
  <2>1. ASSUME NEW o \in Loaders, NEW m \in DOMAIN routes, m + 3 < loading'[o] PROVE routes[m].sound
    <3>1. CASE o # l
      BY <1>1, <1>6, <2>1, <3>1 DEF LoadersSound
    <3>2. CASE o = l
      <4>1. m \in 1..i
        BY <1>1, <1>5, <1>6, <2>1, <3>2
      <4>2. QED BY <1>7, <4>1 DEF Reached
    <3>3. QED BY <3>1, <3>2
  <2>2. loading'["kernel"] > 0 => loading["kernel"] > 0
    BY <1>2, <1>5, <1>6 DEF Loaders
  <2>3. QED BY <1>1, <1>4, <1>10, <2>1, <2>2 DEF LoadersSound
<1>13. TablesFollow'
  <2>1. Reached' = Reached /\ Reached \in SUBSET (1..Len(routes)) /\ routes' = routes /\ filled' = filled
    BY <1>1, <1>4 DEF Reached
  <2>2. SUFFICES ASSUME NEW j \in Reached, ~Coming(j)'
                 PROVE  /\ LastOfKey(j) => Index(listed', KeyOf(routes[j])) = j
                        /\ LastOfKey(j) /\ IsExact(routes[j]) => Index(exact', KeyOf(routes[j])) = j
                        /\ ~IsExact(routes[j]) => \E n \in DOMAIN templates' : templates'[n] = j
    <3>1. \A j \in Reached : LastOfKey(j)' <=> LastOfKey(j)
      BY <2>1 DEF LastOfKey
    <3>2. QED BY <2>1, <3>1 DEF TablesFollow
  <2>3. j \in 1..Len(routes)
    BY <2>1
  <2>4. j <= i
    <3>1. SUFFICES ASSUME j > i PROVE Coming(j)'
      BY <2>2, <2>3, <1>5
    <3>2. loading'[l] \in 1..(j + 3)
      BY <1>5, <1>6, <2>3, <3>1
    <3>3. QED BY <3>2 DEF Coming
  <2>5. CASE j = i
    BY <1>8, <1>9, <1>10, <2>5 DEF key
  <2>6. CASE j < i
    <3>1. loading[l] > j + 3
      BY <1>5, <2>3, <2>6
    <3>2. ~Coming(j)
      <4>1. SUFFICES ASSUME NEW o \in Loaders, loading[o] \in 1..(j + 3) PROVE FALSE
        BY DEF Coming
      <4>2. o # l
        BY <3>1, <4>1, <2>3
      <4>3. loading'[o] \in 1..(j + 3)
        BY <1>6, <4>1, <4>2
      <4>4. QED BY <2>2, <4>3 DEF Coming
    <3>3. Passed(j)
      BY <3>1 DEF Passed
    <3>4. /\ LastOfKey(j) => Index(listed, KeyOf(routes[j])) = j
          /\ LastOfKey(j) /\ IsExact(routes[j]) => Index(exact, KeyOf(routes[j])) = j
          /\ ~IsExact(routes[j]) => \E n \in DOMAIN templates : templates[n] = j
      BY <1>1, <3>2, <3>3 DEF TablesFollow
    <3>5. LastOfKey(j) => KeyOf(routes[j]) # key
      <4>1. ~(i <= j)
        BY <1>5, <2>3, <2>6
      <4>2. QED BY <1>7, <4>1 DEF LastOfKey, key
    <3>6. QED BY <1>8, <1>9, <1>10, <3>4, <3>5
  <2>7. QED BY <1>5, <2>3, <2>4, <2>5, <2>6
<1>14. RoutesLoaded' /\ OwnFlows'
  BY <1>1, <1>4 DEF RoutesLoaded, OwnFlows
<1>15. QED BY <1>11, <1>12, <1>13, <1>14 DEF RouteInv

LEMMA EndStep == ASSUME RouteConstants, RouteInv, NEW l \in Loaders, LoadEnds(l) PROVE RouteInv'
<1>1. /\ RouteTypeOK /\ RoutesLoaded /\ LoadersSound /\ OwnFlows /\ TablesFollow /\ MaxServers \in Nat
      /\ Len(routes) \in Nat /\ DOMAIN routes = 1..Len(routes)
  BY RouteFacts DEF RouteInv, RouteConstants
<1>2. /\ \A o \in Loaders : loading[o] \in 0..(Len(routes) + 4)
      /\ subscribed \in 0..MaxServers /\ started \in 0..MaxServers
  BY <1>1 DEF RouteTypeOK
<1>3. PICK i \in Nat \ {0} : loading[l] = i + 3
  <2>1. loading[l] - 3 \in Nat \ {0} /\ loading[l] = (loading[l] - 3) + 3
    BY <1>1, <1>2 DEF LoadEnds
  <2>2. QED BY <2>1
<1>4. /\ UNCHANGED <<routes, listed, exact, templates, httpServer, serving, started>>
      /\ i \in DOMAIN routes => ~routes[i].sound
      /\ filled' = TRUE
      /\ subscribed' = IF l = "kernel" THEN subscribed - 1 ELSE subscribed
      /\ loading' = [loading EXCEPT ![l] = IF subscribed' > 0 /\ l = "kernel" THEN 1 ELSE 0]
  <2>1. loading[l] - 3 = i
    BY <1>3
  <2>2. QED BY <2>1 DEF LoadEnds, EndLoad
<1>5. subscribed' \in 0..MaxServers /\ subscribed' <= started
  <2>1. l = "kernel" => subscribed > 0
    BY <1>1, <1>3 DEF LoadersSound
  <2>2. subscribed <= started
    BY <1>1 DEF LoadersSound
  <2>3. QED BY <1>1, <1>2, <1>4, <2>1, <2>2
<1>6. /\ loading' \in [Loaders -> 0..(Len(routes) + 4)]
      /\ loading'[l] \in 0..1 /\ loading'[l] = (IF subscribed' > 0 /\ l = "kernel" THEN 1 ELSE 0)
      /\ \A o \in Loaders : o # l => loading'[o] = loading[o]
  <2>1. loading \in [Loaders -> 0..(Len(routes) + 4)]
    BY <1>1 DEF RouteTypeOK
  <2>2. 0 \in 0..(Len(routes) + 4) /\ 1 \in 0..(Len(routes) + 4)
    BY <1>1
  <2>3. QED BY <1>4, <2>1, <2>2
<1>7. RouteTypeOK'
  <2>1. \A f \in {listed', exact'} : \A k \in DOMAIN f : f[k] \in DOMAIN routes' /\ KeyOf(routes'[f[k]]) = k
    BY <1>1, <1>4 DEF RouteTypeOK
  <2>2. QED BY <1>1, <1>4, <1>5, <1>6, <2>1 DEF RouteTypeOK
<1>8. LoadersSound'
  <2>1. ASSUME NEW o \in Loaders, NEW m \in DOMAIN routes, m + 3 < loading'[o] PROVE routes[m].sound
    <3>1. o # l
      BY <1>1, <1>6, <2>1
    <3>2. QED BY <1>1, <1>6, <2>1, <3>1 DEF LoadersSound
  <2>2. loading'["kernel"] > 0 => subscribed' > 0
    <3>1. CASE l = "kernel"
      BY <1>6, <3>1
    <3>2. CASE l # "kernel"
      BY <1>1, <1>4, <1>6, <3>2 DEF LoadersSound, Loaders
    <3>3. QED BY <3>1, <3>2
  <2>3. QED BY <1>1, <1>4, <1>5, <2>1, <2>2 DEF LoadersSound
<1>9. TablesFollow'
  <2>1. Reached' = Reached /\ Reached \in SUBSET (1..Len(routes)) /\ UNCHANGED <<routes, listed, exact, templates>>
    BY <1>1, <1>4 DEF Reached
  <2>2. ASSUME NEW j \in Reached PROVE Passed(j) /\ (Coming(j) => Coming(j)')
    <3>1. j \in 1..Len(routes) /\ j < i
      <4>1. ~(i \in 1..j)
        BY <1>1, <1>4, <2>1, <2>2 DEF Reached
      <4>2. j \in 1..Len(routes)
        BY <2>1, <2>2
      <4>3. QED BY <4>1, <4>2
    <3>2. loading[l] > j + 3
      BY <1>3, <3>1
    <3>3. ASSUME NEW o \in Loaders, loading[o] \in 1..(j + 3) PROVE Coming(j)'
      <4>1. o # l
        BY <3>1, <3>2, <3>3
      <4>2. loading'[o] \in 1..(j + 3)
        BY <1>6, <3>3, <4>1
      <4>3. QED BY <4>2 DEF Coming
    <3>4. QED BY <3>2, <3>3 DEF Passed, Coming
  <2>3. \A j \in Reached : LastOfKey(j)' <=> LastOfKey(j)
    BY <2>1 DEF LastOfKey
  <2>4. QED BY <1>1, <2>1, <2>2, <2>3 DEF TablesFollow
<1>10. RoutesLoaded' /\ OwnFlows'
  BY <1>1, <1>4 DEF RoutesLoaded, OwnFlows
<1>11. QED BY <1>7, <1>8, <1>9, <1>10 DEF RouteInv

\* The server's own steps, and the requests.
LEMMA ServerStep ==
  ASSUME RouteConstants, RouteInv,
         StartServer \/ StopServer \/ Stopped \/ SystemReady \/ ReloadRoutes \/ FlowAnswers \/ \E path \in Paths : PackRequest(path)
  PROVE  RouteInv'
<1>1. /\ RouteTypeOK /\ RoutesLoaded /\ LoadersSound /\ OwnFlows /\ MaxServers \in Nat
      /\ Len(routes) \in Nat /\ DOMAIN routes = 1..Len(routes)
      /\ \A i \in DOMAIN routes : routes[i].under = routes[i].pack
  BY RouteFacts DEF RouteInv, RouteConstants
<1>2. UNCHANGED <<routes, listed, exact, templates, filled>>
  BY DEF StartServer, StopServer, Stopped, SystemReady, ReloadRoutes, FlowAnswers, PackRequest
<1>3. /\ \A o \in Loaders : loading[o] \in 0..(Len(routes) + 4)
      /\ loading \in [Loaders -> 0..(Len(routes) + 4)]
      /\ subscribed \in 0..MaxServers /\ started \in 0..MaxServers
  BY <1>1 DEF RouteTypeOK
<1>4. /\ loading' \in [Loaders -> 0..(Len(routes) + 4)]
      /\ \A o \in Loaders : loading'[o] = loading[o] \/ (loading'[o] = 1 /\ loading[o] = 0)
      /\ loading'["kernel"] > 0 => loading["kernel"] > 0 \/ (subscribed > 0 /\ subscribed' = subscribed)
  <2>1. 1 \in 0..(Len(routes) + 4)
    BY <1>1
  <2>2. CASE SystemReady
    BY <1>3, <2>1, <2>2 DEF SystemReady, Loaders
  <2>3. CASE ReloadRoutes
    BY <1>3, <2>1, <2>3 DEF ReloadRoutes, Loaders, Free
  <2>4. CASE loading' = loading
    BY <1>3, <2>4
  <2>5. QED BY <2>2, <2>3, <2>4 DEF StartServer, StopServer, Stopped, FlowAnswers, PackRequest
<1>5. TablesFollow' /\ \A o \in Loaders : \A m \in DOMAIN routes : m + 3 < loading'[o] => routes[m].sound
  BY <1>2, <1>4, NoLoadStep
<1>6. /\ subscribed' \in 0..MaxServers /\ started' \in 0..MaxServers /\ subscribed' <= started'
      /\ subscribed > 0 => subscribed' > 0
      /\ httpServer' \in {"down", "up", "stopping"}
  <2>1. subscribed <= started /\ httpServer \in {"down", "up", "stopping"}
    BY <1>1 DEF LoadersSound, RouteTypeOK
  <2>2. CASE StartServer
    BY <1>1, <1>3, <2>1, <2>2 DEF StartServer
  <2>3. CASE UNCHANGED <<subscribed, started>> /\ httpServer' \in {httpServer, "down", "stopping"}
    BY <1>1, <1>3, <2>1, <2>3
  <2>4. QED BY <2>2, <2>3 DEF StopServer, Stopped, SystemReady, ReloadRoutes, FlowAnswers, PackRequest
<1>7. serving' = serving \/ serving' = Idle
      \/ (serving'.route \in DOMAIN routes /\ routes[serving'.route].flowOf = serving'.path[2])
  <2>1. ASSUME NEW path \in Paths, PackRequest(path)
        PROVE  serving'.route \in DOMAIN routes /\ routes[serving'.route].flowOf = serving'.path[2]
    <3>1. PICK r : r = Match(path)
      OBVIOUS
    <3>2. r # 0 /\ routes[r].flowOf = routes[r].pack /\ serving' = [path |-> path, route |-> r]
      BY <2>1, <3>1 DEF PackRequest
    <3>3. DOMAIN routes \in SUBSET (Nat \ {0})
      BY <1>1
    <3>4. Match(path) # 0 => Match(path) \in DOMAIN routes /\ path[2] = routes[Match(path)].under
      BY <1>1, <3>3, MatchGives
    <3>5. QED BY <1>1, <3>1, <3>2, <3>4
  <2>2. QED BY <2>1 DEF StartServer, StopServer, Stopped, SystemReady, ReloadRoutes, FlowAnswers
<1>8. RouteTypeOK'
  <2>1. \A f \in {listed', exact'} : \A k \in DOMAIN f : f[k] \in DOMAIN routes' /\ KeyOf(routes'[f[k]]) = k
    BY <1>1, <1>2 DEF RouteTypeOK
  <2>2. serving'.route \in {0} \cup DOMAIN routes
    BY <1>1, <1>7 DEF RouteTypeOK, Idle
  <2>3. QED BY <1>1, <1>2, <1>4, <1>6, <2>1, <2>2 DEF RouteTypeOK
<1>9. LoadersSound'
  <2>1. loading'["kernel"] > 0 => subscribed' > 0
    BY <1>1, <1>4, <1>6 DEF LoadersSound
  <2>2. templates' \in Seq(DOMAIN routes')
    BY <1>1, <1>2 DEF LoadersSound
  <2>3. QED BY <1>2, <1>5, <1>6, <2>1, <2>2 DEF LoadersSound
<1>10. OwnFlows' /\ RoutesLoaded'
  BY <1>1, <1>2, <1>7 DEF OwnFlows, RoutesLoaded
<1>11. QED BY <1>5, <1>8, <1>9, <1>10 DEF RouteInv

LEMMA RouteSteps == ASSUME RouteConstants PROVE RouteInv /\ [RouteNext]_routeVars => RouteInv'
<1>1. SUFFICES ASSUME RouteInv, [RouteNext]_routeVars PROVE RouteInv'
  OBVIOUS
<1>2. CASE StartServer \/ StopServer \/ Stopped \/ SystemReady \/ ReloadRoutes \/ FlowAnswers \/ \E path \in Paths : PackRequest(path)
  BY <1>1, <1>2, ServerStep
<1>3. ASSUME NEW l \in Loaders, ResetTable(l) \/ AddRoute(l) \/ LoadEnds(l) PROVE RouteInv'
  BY <1>1, <1>3, ResetStep, AddStep, EndStep
<1>4. CASE UNCHANGED routeVars
  BY <1>1, <1>4 DEF routeVars, RouteInv, RouteTypeOK, RoutesLoaded, LoadersSound, TablesFollow, OwnFlows,
     Passed, Coming, LastOfKey, Reached
<1>5. QED BY <1>1, <1>2, <1>3, <1>4 DEF RouteNext

LEMMA RouteAlways == ASSUME RouteConstants PROVE RouteSpec => []RouteInv
BY RouteBegins, RouteSteps, PTL DEF RouteSpec

\* Of two routes of a key, the last is the one that the tables have.
LEMMA LastIndexIs ==
  ASSUME NEW S \in SUBSET Nat, IsFiniteSet(S), S # {}
  PROVE  LastIndex(S) \in S /\ \A j \in S : j <= LastIndex(S)
BY LastIsThere DEF LastIndex, LastOf

\* The loads of the server's and the kernel's thread interleave, and start again;
\* once they are over the tables have every route that was reached.
THEOREM RoutesAreWhole == ASSUME RouteConstants PROVE RouteSpec => []RoutesWhole
<1>1. RouteInv => RoutesWhole
  <2>1. SUFFICES ASSUME RouteInv PROVE RoutesWhole
    OBVIOUS
  <2>2. /\ RouteTypeOK /\ RoutesLoaded /\ LoadersSound /\ OwnFlows /\ TablesFollow
        /\ Len(routes) \in Nat /\ DOMAIN routes = 1..Len(routes)
        /\ \A i, j \in DOMAIN routes :
              /\ IsExact(routes[i]) => routes[i].covers = {routes[i].name}
              /\ KeyOf(routes[i]) = KeyOf(routes[j]) => routes[i].covers = routes[j].covers
    BY <2>1, RouteFacts DEF RouteInv
  <2>3. Reached \in SUBSET (1..Len(routes))
    BY <2>2 DEF Reached
  <2>4. ASSUME filled, loading = [o \in Loaders |-> 0], NEW i \in Reached
        PROVE  LET same == {j \in Reached : KeyOf(routes[j]) = KeyOf(routes[i])} IN
               /\ Index(listed, KeyOf(routes[i])) = LastIndex(same)
               /\ \A path \in PathsOf(routes[i]) : Match(path) # 0
               /\ routes[i].name \in routes[i].covers => Match(KeyOf(routes[i])) = LastIndex(same)
    <3> DEFINE same == {j \in Reached : KeyOf(routes[j]) = KeyOf(routes[i])}
    <3>1. PICK k : k = LastIndex(same)
      OBVIOUS
    <3>2. k \in same /\ \A j \in same : j <= k
      <4>1. same \in SUBSET (1..Len(routes)) /\ same # {}
        BY <2>3
      <4>2. IsFiniteSet(1..Len(routes)) /\ 1..Len(routes) \in SUBSET Nat
        BY <2>2, FS_Interval
      <4>3. IsFiniteSet(same) /\ same \in SUBSET Nat
        BY <4>1, <4>2, FS_Subset
      <4> HIDE DEF same
      <4>4. QED BY <3>1, <4>1, <4>3, LastIndexIs
    <3>3. k \in Reached /\ KeyOf(routes[k]) = KeyOf(routes[i]) /\ i \in DOMAIN routes /\ k \in DOMAIN routes
      BY <3>2, <2>2, <2>3
    <3>4. LastOfKey(k)
      BY <3>2, <3>3 DEF LastOfKey
    <3>5. \A j \in Reached : Passed(j) /\ ~Coming(j)
      BY <2>4, <2>3 DEF Passed, Coming
    <3>6. Index(listed, KeyOf(routes[k])) = k /\ (IsExact(routes[k]) => Index(exact, KeyOf(routes[k])) = k)
      BY <2>2, <3>3, <3>4, <3>5 DEF TablesFollow
    <3>7. routes[i].covers = routes[k].covers /\ routes[i].name = routes[k].name
      BY <2>2, <3>3 DEF KeyOf
    <3>8. DOMAIN routes \in SUBSET (Nat \ {0}) /\ k # 0
      BY <2>2, <3>3
    <3>9. ASSUME IsExact(routes[i]) PROVE Match(KeyOf(routes[i])) = k
      <4>1. Index(exact, KeyOf(routes[i])) = k
        BY <3>3, <3>6, <3>7, <3>9 DEF IsExact
      <4>2. QED BY <2>2, <3>8, <4>1, MatchGives
    <3>10. ASSUME NEW path \in PathsOf(routes[i]) PROVE Match(path) # 0
      <4>1. CASE IsExact(routes[i])
        <5>1. routes[i].covers = {routes[i].name}
          BY <2>2, <3>3, <4>1
        <5>2. path = KeyOf(routes[i])
          BY <3>10, <5>1 DEF PathsOf, KeyOf
        <5>3. QED BY <3>8, <3>9, <4>1, <5>2
      <4>2. CASE ~IsExact(routes[i])
        <5>1. PICK n \in DOMAIN templates : templates[n] = i
          BY <2>2, <3>5, <4>2 DEF TablesFollow
        <5>2. path \in PathsOf(routes[templates[n]])
          BY <3>10, <5>1
        <5>3. QED BY <2>2, <3>8, <5>2, MatchGives
      <4>3. QED BY <4>1, <4>2
    <3>11. QED BY <3>1, <3>3, <3>6, <3>9, <3>10 DEF IsExact
  <2>5. QED BY <2>2, <2>4 DEF RoutesWhole, OwnFlows
<1>2. QED BY <1>1, RouteAlways, PTL

-----------------------------------------------------------------------------
(***************************************************************************)
(* InterfaceRegistry.  What an override cuts off is above what was there   *)
(* before it began: overrides that end in any order spare the rest.        *)
(***************************************************************************)
Entry == [id: 1..MaxEntries, owner: Owners, kind: {"plain", "absent", "override"}, expires: 0..Never]
Overrides == [Overriders -> [phase: {"no", "counted", "on"}, length: 0..MaxEntries]]

EntriesShaped ==
    /\ store \in Seq(Entry) /\ Len(store) <= lastId
    /\ override \in Overrides

\* An entry from outside is below what any override will cut off.
OutsideBelow == \A id \in outside \ removed : \E i \in DOMAIN store :
    store[i].id = id /\ \A t \in Overriders : override[t] # NoOverride => i <= override[t].length

\* An override's entry is above what it has counted, which still is there.
OverridesAbove == ~disturbed =>
    /\ \A i \in DOMAIN store : store[i].kind = "override" =>
         \E t \in Overriders : override[t] # NoOverride /\ override[t].length < i
    /\ \A t \in Overriders : override[t] # NoOverride => override[t].length <= Len(store)

OneAbsent == \A i, j \in DOMAIN store :
    store[i].kind = "absent" /\ store[j].kind = "absent" /\ Valid(store[i]) /\ Valid(store[j]) => i = j

InterfaceInv == InterfaceTypeOK /\ EntriesShaped /\ OutsideBelow /\ OverridesAbove /\ OneAbsent

LEMMA NoOverrideType == ASSUME InterfaceConstants PROVE NoOverride \in [phase: {"no", "counted", "on"}, length: 0..MaxEntries]
BY DEF NoOverride, InterfaceConstants

LEMMA InterfaceBegins == ASSUME InterfaceConstants PROVE InterfaceInit => InterfaceInv
<1>1. SUFFICES ASSUME InterfaceInit PROVE InterfaceInv
  OBVIOUS
<1>2. /\ store = << >> /\ lastId = 0 /\ instant = 0 /\ override = [t \in Overriders |-> NoOverride]
      /\ outside = {} /\ removed = {} /\ disturbed = FALSE /\ MaxEntries \in Nat /\ MaxTicks \in Nat
  BY <1>1 DEF InterfaceInit, InterfaceConstants
<1>3. \A t \in Overriders : override[t] = NoOverride /\ override[t].phase = "no" /\ override[t].length = 0
  BY <1>2 DEF NoOverride
<1>4. InterfaceTypeOK
  <2>1. DOMAIN store = {} /\ outside \cup removed = {}
    BY <1>2
  <2>2. lastId \in 0..MaxEntries /\ instant \in 0..MaxTicks
    BY <1>2
  <2>3. QED BY <1>2, <1>3, <2>1, <2>2 DEF InterfaceTypeOK
<1>5. EntriesShaped
  BY <1>2, NoOverrideType DEF EntriesShaped, Overrides
<1>6. OutsideBelow /\ OverridesAbove /\ OneAbsent
  BY <1>2, <1>3 DEF OutsideBelow, OverridesAbove, OneAbsent
<1>7. QED BY <1>4, <1>5, <1>6 DEF InterfaceInv

\* A new entry goes to the end and has a number of its own.
LEMMA EnterGives ==
  ASSUME InterfaceConstants, InterfaceInv, NEW owner \in Owners, NEW kind \in {"plain", "absent", "override"},
         NEW expires \in 0..Never, Enter(owner, kind, expires)
  PROVE  LET e == [id |-> lastId + 1, owner |-> owner, kind |-> kind, expires |-> expires] IN
         /\ e \in Entry /\ lastId' = lastId + 1 /\ lastId' \in 1..MaxEntries
         /\ store' \in Seq(Entry) /\ Len(store') = Len(store) + 1 /\ Len(store') <= lastId'
         /\ DOMAIN store = 1..Len(store) /\ DOMAIN store' = 1..(Len(store) + 1) /\ Len(store) \in Nat
         /\ \A i \in DOMAIN store : i \in DOMAIN store' /\ store'[i] = store[i]
         /\ store'[Len(store) + 1] = e
         /\ \A i \in DOMAIN store' : store'[i].id <= lastId'
<1> DEFINE e == [id |-> lastId + 1, owner |-> owner, kind |-> kind, expires |-> expires]
<1>1. lastId < MaxEntries /\ lastId' = lastId + 1 /\ store' = Append(store, e)
  BY DEF Enter
<1>2. /\ lastId \in 0..MaxEntries /\ MaxEntries \in Nat /\ store \in Seq(Entry) /\ Len(store) <= lastId
      /\ \A i \in DOMAIN store : store[i].id \in 1..lastId
  BY DEF InterfaceInv, InterfaceTypeOK, EntriesShaped, InterfaceConstants
<1>3. e \in Entry /\ lastId' \in 1..MaxEntries
  BY <1>1, <1>2 DEF Entry
<1>4. e.id = lastId + 1
  OBVIOUS
<1> HIDE DEF e
<1>5. /\ store' \in Seq(Entry) /\ Len(store') = Len(store) + 1 /\ Len(store) \in Nat
      /\ DOMAIN store = 1..Len(store) /\ DOMAIN store' = 1..(Len(store) + 1)
      /\ \A i \in DOMAIN store : i \in DOMAIN store' /\ store'[i] = store[i]
      /\ store'[Len(store) + 1] = e
  BY <1>1, <1>2, <1>3
<1>6. \A i \in DOMAIN store' : i \in DOMAIN store \/ i = Len(store) + 1
  BY <1>5
<1>7. \A i \in DOMAIN store' : store'[i].id <= lastId'
  BY <1>1, <1>2, <1>4, <1>5, <1>6
<1>8. QED BY <1>1, <1>2, <1>3, <1>5, <1>7 DEF e

LEMMA RegisterKeeps ==
  ASSUME InterfaceConstants, InterfaceInv, NEW owner \in Owners, NEW kind \in {"plain", "absent"},
         NEW expires \in 0..Never, Enter(owner, kind, expires),
         kind = "absent" => \A i \in DOMAIN store : ~Valid(store[i]),
         outside' = IF Overridden THEN outside ELSE outside \cup {lastId + 1},
         UNCHANGED <<instant, override, removed, disturbed>>
  PROVE  InterfaceInv'
<1> DEFINE e == [id |-> lastId + 1, owner |-> owner, kind |-> kind, expires |-> expires]
           n == Len(store) + 1
<1>1. InterfaceTypeOK /\ EntriesShaped /\ OutsideBelow /\ OverridesAbove /\ OneAbsent
  BY DEF InterfaceInv
<1>2. /\ lastId' = lastId + 1 /\ lastId' \in 1..MaxEntries
      /\ store' \in Seq(Entry) /\ Len(store') = n /\ Len(store') <= lastId'
      /\ DOMAIN store = 1..Len(store) /\ DOMAIN store' = 1..n /\ Len(store) \in Nat
      /\ \A i \in DOMAIN store : i \in DOMAIN store' /\ store'[i] = store[i]
      /\ store'[n] = e
      /\ \A i \in DOMAIN store' : store'[i].id <= lastId'
  BY EnterGives, kind \in {"plain", "absent", "override"}
<1>3. e.id = lastId + 1 /\ e.kind = kind
  OBVIOUS
<1> HIDE DEF e
<1>4. EntriesShaped'
  BY <1>1, <1>2 DEF EntriesShaped
<1>5. InterfaceTypeOK'
  <2>1. lastId' \in 0..MaxEntries /\ instant' \in 0..MaxTicks /\ disturbed' \in BOOLEAN
        /\ (outside \cup removed)' \subseteq 1..MaxEntries
    BY <1>1, <1>2 DEF InterfaceTypeOK
  <2>2. /\ \A i \in DOMAIN store' : store'[i] \in Entry
        /\ \A t \in Overriders : override'[t].phase \in {"no", "counted", "on"} /\ override'[t].length \in 0..MaxEntries
    BY <1>2, <1>4 DEF EntriesShaped, Overrides
  <2>3. \A i \in DOMAIN store' : store'[i].id \in 1..lastId' /\ store'[i].owner \in Owners
           /\ store'[i].kind \in {"plain", "absent", "override"} /\ store'[i].expires \in 0..Never
    BY <1>2, <2>2 DEF Entry
  <2>4. QED BY <2>1, <2>2, <2>3 DEF InterfaceTypeOK, Never
<1>6. OutsideBelow'
  <2>1. SUFFICES ASSUME NEW id \in outside' \ removed'
                 PROVE  \E i \in DOMAIN store' : store'[i].id = id
                          /\ \A t \in Overriders : override'[t] # NoOverride => i <= override'[t].length
    BY DEF OutsideBelow
  <2>2. CASE id \in outside
    BY <1>1, <1>2, <2>1, <2>2 DEF OutsideBelow
  <2>3. CASE ~Overridden /\ id = lastId + 1
    <3>1. \A t \in Overriders : override'[t] = NoOverride
      BY <2>3 DEF Overridden
    <3>2. n \in DOMAIN store' /\ store'[n].id = id
      BY <1>2, <1>3, <2>3
    <3>3. QED BY <3>1, <3>2
  <2>4. QED BY <2>1, <2>2, <2>3
<1>7. OverridesAbove'
  <2>1. SUFFICES ASSUME ~disturbed
                 PROVE  /\ \A i \in DOMAIN store' : store'[i].kind = "override" =>
                             \E t \in Overriders : override[t] # NoOverride /\ override[t].length < i
                        /\ \A t \in Overriders : override[t] # NoOverride => override[t].length <= Len(store')
    BY DEF OverridesAbove
  <2>2. \A i \in DOMAIN store' : store'[i].kind = "override" => i \in DOMAIN store /\ store[i].kind = "override"
    BY <1>2, <1>3
  <2>3. \A t \in Overriders : override[t].length \in Int
    BY <1>1 DEF EntriesShaped, Overrides
  <2>4. QED BY <1>1, <1>2, <2>1, <2>2, <2>3 DEF OverridesAbove
<1>8. OneAbsent'
  <2>1. SUFFICES ASSUME NEW i \in DOMAIN store', NEW j \in DOMAIN store',
                        store'[i].kind = "absent", store'[j].kind = "absent",
                        instant <= store'[i].expires, instant <= store'[j].expires
                 PROVE  i = j
    BY DEF OneAbsent, Valid
  <2>2. \A k \in DOMAIN store : instant <= store'[k].expires => Valid(store[k])
    BY <1>2 DEF Valid
  <2>3. \A k \in DOMAIN store' : k = n \/ k \in DOMAIN store
    BY <1>2
  <2>4. CASE kind = "absent"
    BY <2>1, <2>2, <2>3, <2>4
  <2>5. CASE kind # "absent"
    <3>1. i \in DOMAIN store /\ j \in DOMAIN store
      BY <1>2, <1>3, <2>1, <2>3, <2>5
    <3>2. QED BY <1>1, <1>2, <2>1, <2>2, <3>1 DEF OneAbsent
  <2>6. QED BY <2>4, <2>5
<1>9. QED BY <1>4, <1>5, <1>6, <1>7, <1>8 DEF InterfaceInv

LEMMA UnregisterKeeps ==
  ASSUME InterfaceConstants, InterfaceInv, NEW owners, Unregister(owners)
  PROVE  InterfaceInv'
<1> DEFINE K == {i \in DOMAIN store : store[i].owner \notin owners}
<1>1. InterfaceTypeOK /\ EntriesShaped /\ OutsideBelow /\ OverridesAbove /\ OneAbsent
  BY DEF InterfaceInv
<1>2. /\ store' = Selected(store, K) /\ UNCHANGED <<lastId, instant, override, outside>>
      /\ removed' = removed \cup {store[i].id : i \in {j \in DOMAIN store : store[j].owner \in owners}}
      /\ disturbed' = (disturbed \/ Overridden)
  BY DEF Unregister
<1>3. /\ store \in Seq(Entry) /\ Len(store) \in Nat /\ DOMAIN store = 1..Len(store) /\ K \in SUBSET DOMAIN store
  BY <1>1 DEF EntriesShaped
<1>4. /\ store' \in Seq(Entry) /\ Len(store') \in 0..Len(store)
      /\ \A i \in K : Place(K, i) \in DOMAIN store' /\ Place(K, i) <= i /\ store'[Place(K, i)] = store[i]
      /\ \A n \in DOMAIN store' : \E i \in K : n = Place(K, i) /\ store'[n] = store[i]
  <2> HIDE DEF K
  <2>1. /\ Selected(store, K) \in Seq(Entry) /\ Len(Selected(store, K)) = Cardinality(K) /\ Cardinality(K) \in 0..Len(store)
        /\ \A i \in K : /\ Place(K, i) \in DOMAIN Selected(store, K) /\ Place(K, i) <= i
                        /\ Selected(store, K)[Place(K, i)] = store[i]
        /\ \A n \in DOMAIN Selected(store, K) : \E i \in K : n = Place(K, i) /\ Selected(store, K)[n] = store[i]
    BY <1>3, SelectedKeeps
  <2>2. QED BY <1>2, <2>1
<1> HIDE DEF K
<1>5. EntriesShaped'
  <2>1. lastId \in Nat /\ Len(store) <= lastId
    BY <1>1 DEF EntriesShaped, InterfaceTypeOK
  <2>2. Len(store') <= lastId'
    BY <1>2, <1>3, <1>4, <2>1
  <2>3. QED BY <1>1, <1>2, <1>4, <2>2 DEF EntriesShaped
<1>6. InterfaceTypeOK'
  <2>1. \A n \in DOMAIN store' : \E i \in DOMAIN store : store'[n] = store[i]
    BY <1>3, <1>4
  <2>2. {store[i].id : i \in {j \in DOMAIN store : store[j].owner \in owners}} \subseteq 1..MaxEntries
    <3>1. \A i \in DOMAIN store : store[i] \in Entry
      BY <1>3
    <3>2. \A i \in DOMAIN store : store[i].id \in 1..MaxEntries
      BY <3>1 DEF Entry
    <3>3. QED BY <3>2
  <2>3. (outside \cup removed)' \subseteq 1..MaxEntries
    BY <1>1, <1>2, <2>2 DEF InterfaceTypeOK
  <2>4. lastId' \in 0..MaxEntries /\ instant' \in 0..MaxTicks /\ disturbed' \in BOOLEAN
    BY <1>1, <1>2 DEF InterfaceTypeOK, Overridden
  <2>5. QED BY <1>1, <1>2, <2>1, <2>3, <2>4 DEF InterfaceTypeOK, Never
<1>7. OutsideBelow'
  <2>1. SUFFICES ASSUME NEW id \in outside' \ removed'
                 PROVE  \E i \in DOMAIN store' : store'[i].id = id
                          /\ \A t \in Overriders : override[t] # NoOverride => i <= override[t].length
    BY <1>2 DEF OutsideBelow
  <2>2. PICK i \in DOMAIN store : store[i].id = id
                 /\ \A t \in Overriders : override[t] # NoOverride => i <= override[t].length
    BY <1>1, <1>2, <2>1 DEF OutsideBelow
  <2>3. i \in K
    BY <1>2, <2>1, <2>2 DEF K
  <2>4. Place(K, i) \in DOMAIN store' /\ Place(K, i) <= i /\ store'[Place(K, i)].id = id
    BY <1>4, <2>2, <2>3
  <2>5. /\ Place(K, i) \in Int /\ i \in Int
        /\ \A t \in Overriders : override[t].length \in Int
    BY <1>1, <1>3, <1>4, <2>2, <2>4 DEF EntriesShaped, Overrides
  <2>6. \A t \in Overriders : override[t] # NoOverride => Place(K, i) <= override[t].length
    BY <2>2, <2>4, <2>5
  <2>7. QED BY <2>4, <2>6
<1>8. OverridesAbove'
  <2>1. SUFFICES ASSUME ~disturbed'
                 PROVE  /\ \A n \in DOMAIN store' : store'[n].kind # "override"
                        /\ \A t \in Overriders : override[t] = NoOverride
    BY <1>2 DEF OverridesAbove
  <2>2. ~disturbed /\ \A t \in Overriders : override[t] = NoOverride
    BY <1>2, <2>1 DEF Overridden
  <2>3. \A i \in DOMAIN store : store[i].kind # "override"
    BY <1>1, <2>2 DEF OverridesAbove
  <2>4. QED BY <1>3, <1>4, <2>2, <2>3
<1>9. OneAbsent'
  <2>1. SUFFICES ASSUME NEW m \in DOMAIN store', NEW n \in DOMAIN store', store'[m].kind = "absent", store'[n].kind = "absent",
                        instant <= store'[m].expires, instant <= store'[n].expires
                 PROVE  m = n
    BY <1>2 DEF OneAbsent, Valid
  <2>2. PICK i \in K : m = Place(K, i) /\ store'[m] = store[i]
    BY <1>4
  <2>3. PICK j \in K : n = Place(K, j) /\ store'[n] = store[j]
    BY <1>4
  <2>4. i = j
    BY <1>1, <1>3, <2>1, <2>2, <2>3 DEF OneAbsent, Valid
  <2>5. QED BY <2>2, <2>3, <2>4
<1>10. QED BY <1>5, <1>6, <1>7, <1>8, <1>9 DEF InterfaceInv

LEMMA CountEntriesKeeps ==
  ASSUME InterfaceConstants, InterfaceInv, NEW t \in Overriders, CountEntries(t)
  PROVE  InterfaceInv'
<1> DEFINE o == [phase |-> "counted", length |-> Len(store)]
<1>1. InterfaceTypeOK /\ EntriesShaped /\ OutsideBelow /\ OverridesAbove /\ OneAbsent
  BY DEF InterfaceInv
<1>2. /\ override' = [override EXCEPT ![t] = o] /\ override[t] = NoOverride
      /\ UNCHANGED <<store, lastId, instant, outside, removed, disturbed>>
  BY DEF CountEntries
<1>3. /\ store \in Seq(Entry) /\ Len(store) \in 0..MaxEntries /\ DOMAIN store = 1..Len(store) /\ override \in Overrides
      /\ MaxEntries \in Nat
  <2>1. store \in Seq(Entry) /\ Len(store) <= lastId /\ lastId \in 0..MaxEntries /\ override \in Overrides /\ MaxEntries \in Nat
    BY <1>1 DEF EntriesShaped, InterfaceTypeOK, InterfaceConstants
  <2>2. QED BY <2>1
<1>4. /\ o \in [phase: {"no", "counted", "on"}, length: 0..MaxEntries] /\ o.length = Len(store) /\ o.phase = "counted"
  BY <1>3
<1> HIDE DEF o
<1>5. override' \in Overrides /\ \A u \in Overriders : override'[u] = IF u = t THEN o ELSE override[u]
  BY <1>2, <1>3, <1>4 DEF Overrides
<1>6. EntriesShaped'
  BY <1>1, <1>2, <1>5 DEF EntriesShaped
<1>7. InterfaceTypeOK'
  <2>1. \A u \in Overriders : override'[u].phase \in {"no", "counted", "on"} /\ override'[u].length \in 0..MaxEntries
    BY <1>5 DEF Overrides
  <2>2. QED BY <1>1, <1>2, <2>1 DEF InterfaceTypeOK, Never
<1>8. OutsideBelow'
  <2>1. \A i \in DOMAIN store : i <= Len(store)
    BY <1>3
  <2>2. QED BY <1>1, <1>2, <1>4, <1>5, <2>1 DEF OutsideBelow
<1>9. OverridesAbove'
  <2>1. Len(store) <= Len(store)
    BY <1>3
  <2>2. QED BY <1>1, <1>2, <1>4, <1>5, <2>1 DEF OverridesAbove
<1>10. OneAbsent'
  BY <1>1, <1>2 DEF OneAbsent, Valid
<1>11. QED BY <1>6, <1>7, <1>8, <1>9, <1>10 DEF InterfaceInv

LEMMA BeginOverrideKeeps ==
  ASSUME InterfaceConstants, InterfaceInv, NEW t \in Overriders, NEW owner \in Owners, BeginOverride(t, owner)
  PROVE  InterfaceInv'
<1> DEFINE e == [id |-> lastId + 1, owner |-> owner, kind |-> "override", expires |-> Never]
           n == Len(store) + 1
<1>1. InterfaceTypeOK /\ EntriesShaped /\ OutsideBelow /\ OverridesAbove /\ OneAbsent
  BY DEF InterfaceInv
<1>2. /\ override[t].phase = "counted" /\ Enter(owner, "override", Never)
      /\ override' = [override EXCEPT ![t].phase = "on"] /\ UNCHANGED <<instant, outside, removed, disturbed>>
  BY DEF BeginOverride
<1>3. /\ lastId' = lastId + 1 /\ lastId' \in 1..MaxEntries
      /\ store' \in Seq(Entry) /\ Len(store') = n /\ Len(store') <= lastId'
      /\ DOMAIN store = 1..Len(store) /\ DOMAIN store' = 1..n /\ Len(store) \in Nat
      /\ \A i \in DOMAIN store : i \in DOMAIN store' /\ store'[i] = store[i]
      /\ store'[n] = e
      /\ \A i \in DOMAIN store' : store'[i].id <= lastId'
  <2>1. Never \in 0..Never /\ "override" \in {"plain", "absent", "override"}
    BY DEF Never, InterfaceConstants
  <2>2. QED BY <1>2, <2>1, EnterGives
<1>4. e.kind = "override"
  OBVIOUS
<1> HIDE DEF e
<1>5. /\ override \in Overrides /\ override' \in Overrides
      /\ \A u \in Overriders : override'[u].length = override[u].length /\ (u # t => override'[u] = override[u])
      /\ override'[t].phase = "on"
  BY <1>1, <1>2 DEF EntriesShaped, Overrides
<1>6. /\ override[t] # NoOverride /\ override'[t] # NoOverride
      /\ \A u \in Overriders : override'[u] # NoOverride <=> override[u] # NoOverride
  BY <1>2, <1>5 DEF NoOverride
<1>7. EntriesShaped'
  BY <1>3, <1>5 DEF EntriesShaped
<1>8. InterfaceTypeOK'
  <2>1. lastId' \in 0..MaxEntries /\ instant' \in 0..MaxTicks /\ disturbed' \in BOOLEAN
        /\ (outside \cup removed)' \subseteq 1..MaxEntries
    BY <1>1, <1>2, <1>3 DEF InterfaceTypeOK
  <2>2. /\ \A i \in DOMAIN store' : store'[i] \in Entry
        /\ \A u \in Overriders : override'[u].phase \in {"no", "counted", "on"} /\ override'[u].length \in 0..MaxEntries
    BY <1>3, <1>7 DEF EntriesShaped, Overrides
  <2>3. \A i \in DOMAIN store' : store'[i].id \in 1..lastId' /\ store'[i].owner \in Owners
           /\ store'[i].kind \in {"plain", "absent", "override"} /\ store'[i].expires \in 0..Never
    BY <1>3, <2>2 DEF Entry
  <2>4. QED BY <2>1, <2>2, <2>3 DEF InterfaceTypeOK, Never
<1>9. OutsideBelow'
  BY <1>1, <1>2, <1>3, <1>5, <1>6 DEF OutsideBelow
<1>10. OverridesAbove'
  <2>1. SUFFICES ASSUME ~disturbed
                 PROVE  /\ \A i \in DOMAIN store' : store'[i].kind = "override" =>
                             \E u \in Overriders : override'[u] # NoOverride /\ override'[u].length < i
                        /\ \A u \in Overriders : override'[u] # NoOverride => override'[u].length <= Len(store')
    BY <1>2 DEF OverridesAbove
  <2>2. \A u \in Overriders : override[u].length \in Int
    BY <1>5 DEF Overrides
  <2>3. \A u \in Overriders : override[u] # NoOverride => override[u].length <= Len(store)
    BY <1>1, <2>1 DEF OverridesAbove
  <2>4. override'[t].length < n
    BY <1>3, <1>5, <1>6, <2>2, <2>3
  <2>5. \A i \in DOMAIN store' : i = n \/ i \in DOMAIN store
    BY <1>3
  <2>6. \A i \in DOMAIN store : store[i].kind = "override" =>
          \E u \in Overriders : override[u] # NoOverride /\ override[u].length < i
    BY <1>1, <2>1 DEF OverridesAbove
  <2>7. \A i \in DOMAIN store' : store'[i].kind = "override" =>
          \E u \in Overriders : override'[u] # NoOverride /\ override'[u].length < i
    BY <1>3, <1>5, <1>6, <2>4, <2>5, <2>6
  <2>8. \A u \in Overriders : override'[u] # NoOverride => override'[u].length <= Len(store')
    BY <1>3, <1>5, <1>6, <2>2, <2>3
  <2>9. QED BY <2>7, <2>8
<1>11. OneAbsent'
  <2>1. \A i \in DOMAIN store' : store'[i].kind = "absent" => i \in DOMAIN store /\ store'[i] = store[i]
    BY <1>3, <1>4
  <2>2. QED BY <1>1, <1>2, <2>1 DEF OneAbsent, Valid
<1>12. QED BY <1>7, <1>8, <1>9, <1>10, <1>11 DEF InterfaceInv

LEMMA EndOverrideKeeps ==
  ASSUME InterfaceConstants, InterfaceInv, NEW t \in Overriders, EndOverride(t)
  PROVE  InterfaceInv'
<1> DEFINE n == override[t].length
<1>1. InterfaceTypeOK /\ EntriesShaped /\ OutsideBelow /\ OverridesAbove /\ OneAbsent
  BY DEF InterfaceInv
<1>2. /\ override[t].phase = "on" /\ override' = [override EXCEPT ![t] = NoOverride]
      /\ store' = IF Len(store) > n THEN SubSeq(store, 1, n) ELSE store
      /\ disturbed' = (disturbed \/ \E u \in Overriders : override[u].length > n)
      /\ UNCHANGED <<lastId, instant, outside, removed>>
  BY DEF EndOverride
<1>3. /\ store \in Seq(Entry) /\ Len(store) \in Nat /\ DOMAIN store = 1..Len(store)
      /\ override \in Overrides /\ n \in 0..MaxEntries /\ n \in Nat
      /\ \A u \in Overriders : override[u].length \in Nat
  BY <1>1 DEF EntriesShaped, Overrides, InterfaceConstants
<1>4. override[t] # NoOverride
  BY <1>2 DEF NoOverride
<1>5. override' \in Overrides /\ \A u \in Overriders : override'[u] = IF u = t THEN NoOverride ELSE override[u]
  BY <1>2, <1>3, NoOverrideType DEF Overrides
<1> HIDE DEF n
<1>6. /\ store' \in Seq(Entry) /\ Len(store') = (IF Len(store) > n THEN n ELSE Len(store)) /\ DOMAIN store' = 1..Len(store')
      /\ \A i \in DOMAIN store' : i \in DOMAIN store /\ store'[i] = store[i]
      /\ \A i \in DOMAIN store : i <= n => i \in DOMAIN store'
  BY <1>2, <1>3
<1>7. EntriesShaped'
  <2>1. lastId \in Nat /\ Len(store) <= lastId
    BY <1>1 DEF EntriesShaped, InterfaceTypeOK
  <2>2. Len(store') <= lastId'
    BY <1>2, <1>3, <1>6, <2>1
  <2>3. QED BY <1>5, <1>6, <2>2 DEF EntriesShaped
<1>8. InterfaceTypeOK'
  <2>1. \A u \in Overriders : override'[u].phase \in {"no", "counted", "on"} /\ override'[u].length \in 0..MaxEntries
    BY <1>5 DEF Overrides
  <2>2. QED BY <1>1, <1>2, <1>6, <2>1 DEF InterfaceTypeOK, Never
<1>9. OutsideBelow'
  <2>1. SUFFICES ASSUME NEW id \in outside \ removed
                 PROVE  \E i \in DOMAIN store' : store'[i].id = id
                          /\ \A u \in Overriders : override'[u] # NoOverride => i <= override'[u].length
    BY <1>2 DEF OutsideBelow
  <2>2. PICK i \in DOMAIN store : store[i].id = id
                 /\ \A u \in Overriders : override[u] # NoOverride => i <= override[u].length
    BY <1>1, <2>1 DEF OutsideBelow
  <2>3. i \in DOMAIN store' /\ store'[i].id = id
    BY <1>4, <1>6, <2>2 DEF n
  <2>4. QED BY <1>5, <2>2, <2>3
<1>10. OverridesAbove'
  <2>1. SUFFICES ASSUME ~disturbed'
                 PROVE  /\ \A i \in DOMAIN store' : store'[i].kind = "override" =>
                             \E u \in Overriders : override'[u] # NoOverride /\ override'[u].length < i
                        /\ \A u \in Overriders : override'[u] # NoOverride => override'[u].length <= Len(store')
    BY DEF OverridesAbove
  <2>2. ~disturbed /\ \A u \in Overriders : ~(override[u].length > n)
    BY <1>2, <2>1
  <2>3. /\ \A i \in DOMAIN store : store[i].kind = "override" =>
             \E u \in Overriders : override[u] # NoOverride /\ override[u].length < i
        /\ \A u \in Overriders : override[u] # NoOverride => override[u].length <= Len(store)
    BY <1>1, <2>2 DEF OverridesAbove
  <2>4. Len(store') = n
    BY <1>3, <1>4, <1>6, <2>3 DEF n
  <2>5. ASSUME NEW i \in DOMAIN store', store'[i].kind = "override"
        PROVE  \E u \in Overriders : override'[u] # NoOverride /\ override'[u].length < i
    <3>1. PICK u \in Overriders : override[u] # NoOverride /\ override[u].length < i
      BY <1>6, <2>3, <2>5
    <3>2. i <= n /\ i \in Int
      BY <1>3, <1>6, <2>4, <2>5
    <3>3. u # t
      BY <1>3, <3>1, <3>2 DEF n
    <3>4. QED BY <1>5, <3>1, <3>3
  <2>6. \A u \in Overriders : override'[u] # NoOverride => override'[u].length <= Len(store')
    BY <1>3, <1>5, <2>2, <2>4
  <2>7. QED BY <2>5, <2>6
<1>11. OneAbsent'
  BY <1>1, <1>2, <1>6 DEF OneAbsent, Valid
<1>12. QED BY <1>7, <1>8, <1>9, <1>10, <1>11 DEF InterfaceInv

LEMMA InterfaceSteps == ASSUME InterfaceConstants PROVE InterfaceInv /\ [InterfaceNext]_interfaceVars => InterfaceInv'
<1> SUFFICES ASSUME InterfaceInv, [InterfaceNext]_interfaceVars PROVE InterfaceInv'
  OBVIOUS
<1>1. InterfaceTypeOK /\ EntriesShaped /\ OutsideBelow /\ OverridesAbove /\ OneAbsent
  BY DEF InterfaceInv
<1>2. CASE UNCHANGED interfaceVars
  BY <1>1, <1>2 DEF interfaceVars, InterfaceInv, InterfaceTypeOK, EntriesShaped, OutsideBelow, OverridesAbove, OneAbsent,
                    Valid, Never
<1>3. CASE TimePasses
  <2>1. /\ instant < MaxTicks /\ instant' = instant + 1 /\ instant \in Nat /\ MaxTicks \in Nat
        /\ UNCHANGED <<store, lastId, override, outside, removed, disturbed>>
    BY <1>1, <1>3 DEF TimePasses, InterfaceTypeOK, InterfaceConstants
  <2>2. InterfaceTypeOK'
    BY <1>1, <2>1 DEF InterfaceTypeOK, Never
  <2>3. EntriesShaped' /\ OutsideBelow' /\ OverridesAbove'
    BY <1>1, <2>1 DEF EntriesShaped, OutsideBelow, OverridesAbove
  <2>4. OneAbsent'
    <3>1. \A i \in DOMAIN store : store[i].expires \in Int
      BY <1>1 DEF InterfaceTypeOK
    <3>2. \A i \in DOMAIN store : instant' <= store[i].expires => instant <= store[i].expires
      BY <2>1, <3>1
    <3>3. QED BY <1>1, <2>1, <3>2 DEF OneAbsent, Valid
  <2>5. QED BY <2>2, <2>3, <2>4 DEF InterfaceInv
<1>4. Never \in 0..Never /\ Never \in Nat /\ Ttl \in Nat /\ MaxTicks \in Nat
  BY DEF Never, InterfaceConstants
<1>5. ASSUME NEW o \in Owners, Register(o) PROVE InterfaceInv'
  <2>1. /\ Enter(o, "plain", Never) /\ outside' = IF Overridden THEN outside ELSE outside \cup {lastId + 1}
        /\ UNCHANGED <<instant, override, removed, disturbed>>
    BY <1>5 DEF Register
  <2>2. QED BY <1>4, <2>1, RegisterKeeps
<1>6. ASSUME NEW o \in Owners, NEW ttl \in {0, Ttl}, RegisterIfAbsent(o, ttl) PROVE InterfaceInv'
  <2>1. PICK expires \in 0..Never : Enter(o, "absent", expires)
    <3>1. (IF ttl = 0 THEN Never ELSE instant + ttl) \in 0..Never
      BY <1>1, <1>4 DEF InterfaceTypeOK, Never
    <3>2. QED BY <1>6, <3>1 DEF RegisterIfAbsent
  <2>2. /\ outside' = IF Overridden THEN outside ELSE outside \cup {lastId + 1}
        /\ \A i \in DOMAIN store : ~Valid(store[i])
        /\ UNCHANGED <<instant, override, removed, disturbed>>
    BY <1>6 DEF RegisterIfAbsent
  <2>3. QED BY <2>1, <2>2, RegisterKeeps
<1>7. ASSUME NEW o \in Owners, Unregister({o}) PROVE InterfaceInv'
  BY <1>7, UnregisterKeeps
<1>8. CASE Unregister(Owners)
  BY <1>8, UnregisterKeeps
<1>9. ASSUME NEW t \in Overriders, CountEntries(t) \/ EndOverride(t) \/ \E o \in Owners : BeginOverride(t, o) PROVE InterfaceInv'
  BY <1>9, CountEntriesKeeps, EndOverrideKeeps, BeginOverrideKeeps
<1>10. QED BY <1>2, <1>3, <1>5, <1>6, <1>7, <1>8, <1>9 DEF InterfaceNext

LEMMA InterfaceAlways == ASSUME InterfaceConstants PROVE InterfaceSpec => []InterfaceInv
BY InterfaceBegins, InterfaceSteps, PTL DEF InterfaceSpec

\* What was registered outside overrides stays until it is unregistered, overrides
\* that ended leave nothing, and of register_if_absent one entry is valid at most,
\* for any number of threads, owners, entries and ticks.
THEOREM EntriesAreKept == ASSUME InterfaceConstants PROVE InterfaceSpec => []EntriesKept
<1>1. InterfaceInv => EntriesKept
  BY DEF InterfaceInv, OutsideBelow, OverridesAbove, OneAbsent, EntriesKept, Overridden
<1>2. QED BY <1>1, InterfaceAlways, PTL

-----------------------------------------------------------------------------
(***************************************************************************)
(* UsageLimits: the sliding window.  Threads record their times late, but  *)
(* none by more than the delay; what the window has forgotten was out of   *)
(* it, so that what it holds bounds what was let through.                  *)
(***************************************************************************)
\* Who asks has read the clock not longer than the delay ago.
AskedLately == \A c \in Callers :
    asking[c] # NotAsking => asking[c] <= clock /\ clock - asking[c] <= Delay

\* The times held are those of the last requests let through, each as late as the
\* delay allows; the requests before them are too old to count.
ForgottenTooOld == LET d == Len(admitted) - Len(window) IN
    /\ d >= 0
    /\ \A k \in 1..Len(window) : admitted[d + k] <= window[k] + Delay
    /\ \A i \in 1..d : admitted[i] + Width < clock + Delay

RateInv == RateTypeOK /\ AskedLately /\ ForgottenTooOld /\ BudgetKept

\* The requests that count for the one numbered i.
Counting(times, i) == {j \in DOMAIN times : j <= i /\ times[i] - times[j] <= Width - Delay}

LEMMA RateBegins == ASSUME RateConstants PROVE RateInit => RateInv
<1>1. SUFFICES ASSUME RateInit PROVE RateInv
  OBVIOUS
<1>2. /\ clock = 0 /\ window = << >> /\ admitted = << >> /\ asking = [c \in Callers |-> NotAsking]
      /\ MaxClock \in Nat
  BY <1>1 DEF RateInit, RateConstants
<1>3. RateTypeOK
  BY <1>2 DEF RateTypeOK
<1>4. AskedLately /\ ForgottenTooOld /\ BudgetKept
  BY <1>2 DEF AskedLately, ForgottenTooOld, BudgetKept
<1>5. QED BY <1>3, <1>4 DEF RateInv

\* What is pruned is at the beginning, and old.
LEMMA PrunedAreOld ==
  ASSUME RateConstants, RateTypeOK, NEW cutoff \in Int
  PROVE  \E n \in 0..Len(window) : /\ Pruned(cutoff) = SubSeq(window, n + 1, Len(window))
                                   /\ \A i \in 1..n : window[i] < cutoff
<1> DEFINE m == Len(window)
           kept == {i \in DOMAIN window : \E j \in 1..i : window[j] >= cutoff}
           n == m - Cardinality(kept)
<1>1. m \in Nat /\ DOMAIN window = 1..m /\ \A i \in 1..m : window[i] \in Nat
  BY DEF RateTypeOK, RateConstants
<1>2. IsFiniteSet(1..m) /\ Cardinality(1..m) = m /\ kept \in SUBSET (1..m)
  BY <1>1, FS_Interval
<1>3. IsFiniteSet(kept) /\ Cardinality(kept) <= m
  BY <1>2, FS_Subset
<1>4. Cardinality(kept) \in Nat
  BY <1>3, FS_CardinalityType
<1>5. n \in 0..m
  BY <1>1, <1>3, <1>4
<1>6. ASSUME NEW i \in 1..n PROVE window[i] < cutoff
  <2>1. i \in 1..m /\ i \in Nat /\ window[i] \in Int
    BY <1>1, <1>5
  <2>2. ASSUME i \in kept PROVE FALSE
    <3>1. PICK j \in 1..i : window[j] >= cutoff
      BY <2>2
    <3>2. \A k \in i..m : k \in 1..m /\ j \in 1..k
      BY <1>1, <2>1, <3>1
    <3>3. i..m \in SUBSET kept
      BY <1>1, <3>1, <3>2
    <3>4. Cardinality(i..m) = m - i + 1
      BY <1>1, <2>1, FS_Interval
    <3>5. Cardinality(i..m) <= Cardinality(kept)
      BY <1>3, <3>3, FS_Subset
    <3>6. QED BY <1>1, <1>4, <1>5, <2>1, <3>4, <3>5
  <2>3. ~(window[i] >= cutoff)
    BY <1>1, <2>1, <2>2
  <2>4. QED BY <2>1, <2>3
<1>7. Pruned(cutoff) = SubSeq(window, n + 1, m)
  BY DEF Pruned
<1> HIDE DEF n
<1>8. QED BY <1>5, <1>6, <1>7

\* A request is let through: before it no more than Limit - 1 count.
LEMMA OneMoreCounts ==
  ASSUME RateConstants, NEW a \in Seq(0..MaxClock), NEW moment \in 0..MaxClock, NEW d \in 0..Len(a),
         Len(a) - d < Limit,
         \A i \in 1..d : a[i] + Width < moment + Delay,
         \A i \in DOMAIN a : Cardinality(Counting(a, i)) <= Limit
  PROVE  \A i \in DOMAIN Append(a, moment) : Cardinality(Counting(Append(a, moment), i)) <= Limit
<1> DEFINE b == Append(a, moment)
           m == Len(a) + 1
<1>2. Limit \in Nat /\ Width \in Nat /\ Delay \in Nat /\ MaxClock \in Nat
  BY DEF RateConstants
<1>1. /\ Len(a) \in Nat /\ DOMAIN a = 1..Len(a) /\ DOMAIN b = 1..m /\ b[m] = moment
      /\ \A i \in 1..Len(a) : b[i] = a[i] /\ a[i] \in 0..MaxClock
  BY <1>2
<1> HIDE DEF b
<1>3. ASSUME NEW i \in 1..Len(a) PROVE Cardinality(Counting(b, i)) <= Limit
  <2>1. \A j \in 1..m : j <= i => j \in 1..Len(a) /\ b[j] = a[j]
    BY <1>1
  <2>2. b[i] = a[i]
    BY <1>1
  <2>3. Counting(b, i) \subseteq Counting(a, i)
    BY <1>1, <2>1, <2>2 DEF Counting
  <2>4. Counting(a, i) \subseteq Counting(b, i)
    <3>1. \A j \in 1..Len(a) : j \in 1..m /\ b[j] = a[j]
      BY <1>1
    <3>2. QED BY <1>1, <2>2, <3>1 DEF Counting
  <2>5. Counting(b, i) = Counting(a, i)
    BY <2>3, <2>4
  <2>6. QED BY <1>1, <2>5
<1>4. Cardinality(Counting(b, m)) <= Limit
  <2>1. Counting(b, m) \in SUBSET ((d + 1)..m)
    <3>1. SUFFICES ASSUME NEW j \in Counting(b, m) PROVE j \in (d + 1)..m
      OBVIOUS
    <3>2. j \in 1..m /\ b[m] - b[j] <= Width - Delay
      BY <1>1, <3>1 DEF Counting
    <3>3. j \notin 1..d
      <4>1. SUFFICES ASSUME j \in 1..d PROVE FALSE
        OBVIOUS
      <4>2. j \in 1..Len(a) /\ b[j] = a[j] /\ a[j] \in Int /\ a[j] + Width < moment + Delay
        BY <1>1, <1>2, <4>1
      <4>3. QED BY <1>1, <1>2, <3>2, <4>2
    <3>4. QED BY <1>1, <3>2, <3>3
  <2>2. IsFiniteSet((d + 1)..m) /\ Cardinality((d + 1)..m) = m - d
    BY <1>1, FS_Interval
  <2>3. Cardinality(Counting(b, m)) <= m - d
    BY <2>1, <2>2, FS_Subset
  <2>4. Counting(b, m) \in SUBSET (1..m) /\ Cardinality(Counting(b, m)) \in Nat
    BY <2>1, <2>2, <1>1, FS_Subset, FS_CardinalityType
  <2>5. QED BY <1>1, <1>2, <2>3, <2>4
<1>5. \A i \in 1..m : i \in 1..Len(a) \/ i = m
  BY <1>1
<1>6. QED BY <1>1, <1>3, <1>4, <1>5 DEF b

LEMMA BudgetCounts == BudgetKept <=> \A i \in DOMAIN admitted : Cardinality(Counting(admitted, i)) <= Limit
BY DEF BudgetKept, Counting

\* Times are numbers, and a sequence of them is one of numbers within the bound.
LEMMA TimesTyped ==
  ASSUME NEW M \in Nat
  PROVE  /\ \A s \in Seq(0..M) : s \in Seq(Nat) /\ \A k \in 1..Len(s) : s[k] \in 0..M
         /\ \A s \in Seq(Nat) : (\A k \in 1..Len(s) : s[k] \in 0..M) => s \in Seq(0..M)
<1>1. ASSUME NEW s \in Seq(0..M) PROVE s \in Seq(Nat) /\ \A k \in 1..Len(s) : s[k] \in 0..M
  OBVIOUS
<1>2. ASSUME NEW s \in Seq(Nat), \A k \in 1..Len(s) : s[k] \in 0..M PROVE s \in Seq(0..M)
  BY <1>2
<1>3. QED BY <1>1, <1>2

\* Old times leave the window: the rest still is the end of what was let through,
\* and what is before it is too old.
LEMMA LateTimesLeave ==
  ASSUME admitted \in Seq(Nat), window \in Seq(Nat), clock \in Nat, Width \in Nat, Delay \in Nat, ForgottenTooOld,
         NEW n \in 0..Len(window), NEW asked \in Nat, asked <= clock, \A i \in 1..n : window[i] < asked - Width,
         NEW left \in Seq(Nat), Len(left) = Len(window) - n, \A k \in 1..Len(left) : left[k] = window[n + k]
  PROVE  \E e \in 0..Len(admitted) : /\ Len(admitted) = e + Len(left)
                                     /\ \A k \in 1..Len(left) : admitted[e + k] <= left[k] + Delay
                                     /\ \A i \in 1..e : admitted[i] + Width < clock + Delay
<1>1. Len(admitted) \in Nat /\ Len(window) \in Nat /\ Len(left) \in Nat
  OBVIOUS
<1>6. ASSUME NEW s \in Seq(Nat), NEW j \in 1..Len(s) PROVE s[j] \in Nat
  OBVIOUS
<1>8. Len(admitted) - Len(window) \in Nat
  BY <1>1 DEF ForgottenTooOld
<1>9. PICK d \in Nat : d = Len(admitted) - Len(window)
  BY <1>8
<1>10. /\ Len(admitted) = d + Len(window)
       /\ \A k \in 1..Len(window) : admitted[d + k] <= window[k] + Delay
       /\ \A i \in 1..d : admitted[i] + Width < clock + Delay
  BY <1>1, <1>9 DEF ForgottenTooOld
<1>2. PICK e \in Nat : e = d + n
  OBVIOUS
<1>3. e \in 0..Len(admitted) /\ Len(admitted) = e + Len(left)
  BY <1>1, <1>2, <1>10
<1>4. ASSUME NEW k \in 1..Len(left) PROVE admitted[e + k] <= left[k] + Delay
  <2>1. n + k \in 1..Len(window) /\ d + (n + k) = e + k
    BY <1>1, <1>2
  <2>2. QED BY <1>10, <2>1
<1>5. ASSUME NEW i \in 1..e PROVE admitted[i] + Width < clock + Delay
  <2>1. CASE i <= d
    BY <1>10, <2>1
  <2>2. CASE i > d
    <3>1. PICK k \in 1..n : i = d + k /\ k \in 1..Len(window) /\ i \in 1..Len(admitted)
      <4>1. i - d \in 1..n /\ i = d + (i - d) /\ i - d \in 1..Len(window) /\ i \in 1..Len(admitted)
        BY <1>1, <1>2, <1>3, <2>2, <1>10
      <4>2. QED BY <4>1
    <3>2. admitted[i] <= window[k] + Delay /\ window[k] < asked - Width
      BY <1>10, <3>1
    <3>3. admitted[i] \in Nat /\ window[k] \in Nat
      BY <1>6, <3>1
    <3>4. \A x, y \in Nat : x <= y + Delay /\ y < asked - Width => x + Width < clock + Delay
      OBVIOUS
    <3>5. QED BY <3>2, <3>3, <3>4
  <2>3. QED BY <2>1, <2>2
<1>7. QED BY <1>3, <1>4, <1>5

LEMMA AdmitKeeps == ASSUME RateConstants, RateInv, NEW c \in Callers, Admit(c) PROVE RateInv'
<1> DEFINE moment == asking[c]
<1>1. Limit \in Nat /\ Width \in Nat /\ Delay \in Nat /\ MaxClock \in Nat
  BY DEF RateConstants
<1>2. RateTypeOK /\ AskedLately /\ ForgottenTooOld /\ BudgetKept
  BY DEF RateInv
<1>3. moment \in 0..MaxClock /\ clock \in 0..MaxClock /\ moment <= clock
  BY <1>2 DEF Admit, RateTypeOK, AskedLately
<1>13. /\ admitted \in Seq(0..MaxClock) /\ window \in Seq(0..MaxClock)
       /\ admitted \in Seq(Nat) /\ window \in Seq(Nat)
       /\ Len(admitted) \in Nat /\ Len(window) \in Nat
  BY <1>1, <1>2, TimesTyped DEF RateTypeOK
<1>4. PICK n \in 0..Len(window) : /\ Pruned(moment - Width) = SubSeq(window, n + 1, Len(window))
                                  /\ \A i \in 1..n : window[i] < moment - Width
  <2>1. moment - Width \in Int
    BY <1>1, <1>3
  <2>2. QED BY <1>2, <2>1, PrunedAreOld
<1> DEFINE left == SubSeq(window, n + 1, Len(window))
<1>5. /\ left \in Seq(Nat) /\ Len(left) = Len(window) - n
      /\ \A k \in 1..Len(left) : left[k] = window[n + k]
  BY <1>13, RestOf
<1>6. /\ asking' = [asking EXCEPT ![c] = NotAsking] /\ clock' = clock
      /\ \/ Len(left) >= Limit /\ window' = left /\ admitted' = admitted
         \/ ~(Len(left) >= Limit) /\ window' = Append(left, moment) /\ admitted' = Append(admitted, clock)
  BY <1>4 DEF Admit
<1> HIDE DEF left
<1>7. left \in Seq(0..MaxClock)
  <2>1. \A k \in 1..Len(left) : n + k \in 1..Len(window)
    BY <1>13, <1>5
  <2>2. \A k \in 1..Len(left) : left[k] \in 0..MaxClock
    BY <1>1, <1>13, <1>5, <2>1, TimesTyped
  <2>3. QED BY <1>1, <1>5, <2>2, TimesTyped
<1>12. PICK e \in 0..Len(admitted) :
         /\ Len(admitted) = e + Len(left)
         /\ \A k \in 1..Len(left) : admitted[e + k] <= left[k] + Delay
         /\ \A i \in 1..e : admitted[i] + Width < clock + Delay
  <2>1. moment \in Nat /\ clock \in Nat
    BY <1>1, <1>3
  <2>2. moment <= clock /\ \A i \in 1..n : window[i] < moment - Width
    BY <1>3, <1>4
  <2> HIDE DEF moment
  <2>3. QED BY <1>1, <1>2, <1>4, <1>5, <1>13, <2>1, <2>2, LateTimesLeave
<1>14. Len(left) \in Nat
  BY <1>5
<1>8. AskedLately' /\ asking' \in [Callers -> (0..MaxClock) \cup {NotAsking}]
  BY <1>2, <1>6 DEF AskedLately, RateTypeOK
<1>9. CASE window' = left /\ admitted' = admitted
  <2>1. RateTypeOK'
    BY <1>2, <1>6, <1>7, <1>8, <1>9 DEF RateTypeOK
  <2>2. Len(admitted') - Len(window') = e
    BY <1>9, <1>12, <1>14
  <2>3. ForgottenTooOld'
    BY <1>6, <1>9, <1>12, <2>2 DEF ForgottenTooOld
  <2>4. BudgetKept'
    BY <1>2, <1>9 DEF BudgetKept
  <2>5. QED BY <1>8, <2>1, <2>3, <2>4 DEF RateInv
<1>10. CASE ~(Len(left) >= Limit) /\ window' = Append(left, moment) /\ admitted' = Append(admitted, clock)
  <2>1. RateTypeOK'
    BY <1>1, <1>2, <1>3, <1>6, <1>7, <1>8, <1>10, <1>13 DEF RateTypeOK
  <2>2. /\ Len(window') = Len(left) + 1 /\ Len(admitted') = Len(admitted) + 1
        /\ window'[Len(left) + 1] = moment /\ \A k \in 1..Len(left) : window'[k] = left[k]
        /\ admitted'[Len(admitted) + 1] = clock /\ \A i \in 1..Len(admitted) : admitted'[i] = admitted[i]
    <3>1. moment \in Nat /\ clock \in Nat
      BY <1>1, <1>3
    <3> HIDE DEF moment
    <3>2. QED BY <1>5, <1>10, <1>13, <3>1, AppendGives
  <2>3. Len(admitted') - Len(window') = e
    BY <1>12, <1>13, <1>14, <2>2
  <2>4. ASSUME NEW k \in 1..Len(window') PROVE admitted'[e + k] <= window'[k] + Delay
    <3>1. CASE k <= Len(left)
      <4>1. k \in 1..Len(left) /\ e + k \in 1..Len(admitted)
        BY <1>12, <1>13, <1>14, <2>2, <3>1
      <4>2. QED BY <1>12, <2>2, <4>1
    <3>2. CASE k = Len(left) + 1
      <4>1. e + k = Len(admitted) + 1
        BY <1>12, <1>13, <1>14, <3>2
      <4>2. admitted'[e + k] = clock /\ window'[k] = moment
        BY <2>2, <3>2, <4>1
      <4>3. clock <= moment + Delay
        BY <1>2, <1>1, <1>3 DEF AskedLately, Admit
      <4>4. QED BY <4>2, <4>3
    <3>3. QED BY <1>14, <2>2, <3>1, <3>2
  <2>5. ASSUME NEW i \in 1..e PROVE admitted'[i] + Width < clock' + Delay
    <3>1. i \in 1..Len(admitted)
      BY <1>12, <1>13
    <3>2. QED BY <1>6, <1>12, <2>2, <3>1
  <2>6. ForgottenTooOld'
    <3>1. e >= 0
      BY <1>12
    <3>2. QED BY <2>3, <2>4, <2>5, <3>1 DEF ForgottenTooOld
  <2>7. Len(admitted) - e < Limit
    BY <1>1, <1>10, <1>12, <1>13, <1>14
  <2>8. \A i \in DOMAIN admitted : Cardinality(Counting(admitted, i)) <= Limit
    BY <1>2, BudgetCounts
  <2>9. \A i \in DOMAIN admitted' : Cardinality(Counting(admitted', i)) <= Limit
    BY <1>3, <1>10, <1>12, <1>13, <2>7, <2>8, OneMoreCounts
  <2>10. BudgetKept'
    BY <2>9 DEF BudgetKept, Counting
  <2>11. QED BY <1>8, <2>1, <2>6, <2>10 DEF RateInv
<1>11. QED BY <1>6, <1>9, <1>10

LEMMA RateSteps == ASSUME RateConstants PROVE RateInv /\ [RateNext]_rateVars => RateInv'
<1> SUFFICES ASSUME RateInv, [RateNext]_rateVars PROVE RateInv'
  OBVIOUS
<1>1. RateTypeOK /\ AskedLately /\ ForgottenTooOld /\ BudgetKept /\ Delay \in Nat /\ MaxClock \in Nat /\ Width \in Nat
  BY DEF RateInv, RateConstants
<1>2. CASE UNCHANGED rateVars
  BY <1>1, <1>2 DEF rateVars, RateInv, RateTypeOK, AskedLately, ForgottenTooOld, BudgetKept
<1>3. CASE Tick
  <2>1. /\ clock' = clock + 1 /\ clock < MaxClock /\ clock \in Nat
        /\ \A c \in Callers : asking[c] # NotAsking => clock - asking[c] < Delay /\ asking[c] \in Nat
        /\ UNCHANGED <<window, asking, admitted>>
    BY <1>1, <1>3 DEF Tick, RateTypeOK
  <2>2. RateTypeOK'
    BY <1>1, <2>1 DEF RateTypeOK
  <2>3. AskedLately'
    BY <1>1, <2>1 DEF AskedLately
  <2>4. ForgottenTooOld'
    <3>1. \A i \in 1..(Len(admitted) - Len(window)) : i \in 1..Len(admitted) /\ admitted[i] \in Int
      BY <1>1 DEF RateTypeOK
    <3>2. QED BY <1>1, <2>1, <3>1 DEF ForgottenTooOld
  <2>5. BudgetKept'
    BY <1>1, <2>1 DEF BudgetKept
  <2>6. QED BY <2>2, <2>3, <2>4, <2>5 DEF RateInv
<1>4. ASSUME NEW c \in Callers, ReadClock(c) PROVE RateInv'
  <2>1. asking' = [asking EXCEPT ![c] = clock] /\ UNCHANGED <<clock, window, admitted>>
    BY <1>4 DEF ReadClock
  <2>2. RateTypeOK'
    BY <1>1, <2>1 DEF RateTypeOK
  <2>3. AskedLately'
    BY <1>1, <2>1 DEF AskedLately, RateTypeOK
  <2>4. ForgottenTooOld' /\ BudgetKept'
    BY <1>1, <2>1 DEF ForgottenTooOld, BudgetKept
  <2>5. QED BY <2>2, <2>3, <2>4 DEF RateInv
<1>5. QED BY <1>2, <1>3, <1>4, AdmitKeeps DEF RateNext

\* No stretch of time shorter than the window by the delay sees more than Limit
\* requests let through, for any number of threads, limit, window and delay.
THEOREM BudgetsAreKept == ASSUME RateConstants PROVE RateSpec => []BudgetKept
<1>1. RateInv => BudgetKept
  BY DEF RateInv
<1>2. QED BY <1>1, RateBegins, RateSteps, PTL DEF RateSpec

-----------------------------------------------------------------------------
(***************************************************************************)
(* The services together: MCCoreServices assumes of the constants what the *)
(* theorems above start from, and while one component is in focus the      *)
(* others stand still.                                                     *)
(***************************************************************************)
LEMMA ServicesStepAlone ==
  /\ [Next]_vars => [StoreNext]_storeVars /\ [ListNext]_listVars /\ [EgressNext]_egressVars
  /\ [Next]_vars => [DockerNext]_dockerVars /\ [BoxNext]_boxVars
  /\ [Next]_vars => [LimiterNext]_limiterVars /\ [RouteNext]_routeVars /\ [SetupNext]_setupVars
  /\ [Next]_vars => [InterfaceNext]_interfaceVars /\ [RateNext]_rateVars /\ [UsageNext]_usageVars
BY Zenon DEF Next, vars, InStores, InEgress, InContainers, InApi, InInterfaces, InLimits, apiVars,
             containerVars, limitVars

LEMMA ServicesRun ==
  /\ Spec => StoreSpec /\ EgressSpec /\ DockerSpec /\ BoxSpec
  /\ Spec => LimiterSpec /\ SetupSpec /\ UsageSpec
  /\ Spec => ListSpec /\ RouteSpec /\ InterfaceSpec /\ RateSpec
<1>1. /\ Init => StoreInit /\ EgressInit /\ DockerInit /\ BoxInit /\ LimiterInit /\ SetupInit /\ UsageInit
      /\ Init => ListInit /\ RouteInit /\ InterfaceInit /\ RateInit
  BY DEF Init
<1>2. QED
  BY <1>1, ServicesStepAlone, PTL
     DEF Spec, StoreSpec, EgressSpec, DockerSpec, BoxSpec, LimiterSpec, SetupSpec, UsageSpec,
         ListSpec, RouteSpec, InterfaceSpec, RateSpec

\* No limit is overrun: of the containers the code counts, of requests of an address,
\* of uses of a grant whose count was written and read back, or of an OAuth link,
\* whatever comes together, is stopped, fails or restarts; and an entry is a container
\* of its pack, but while a stop is under way and after one that overlapped or gave up.
THEOREM LimitsAreRespected == Spec => []LimitsRespected
<1>1. Spec => []LimitOfContainers
  BY Instances, ServicesRun, ContainersWithinLimit, PTL
<1>2. Spec => []EntriesExist
  BY ServicesRun, EntriesAreContainers, PTL
<1>3. Spec => []WindowKept
  BY Instances, ServicesRun, WindowKeptAlways, PTL
<1>4. Spec => []LimitsKept
  BY Instances, ServicesRun, GrantLimitsKept, PTL
<1>5. Spec => []LinksOnce
  BY Instances, ServicesRun, LinksServeOnce, PTL
<1>6. LimitOfContainers /\ EntriesExist /\ WindowKept /\ LimitsKept /\ LinksOnce => LimitsRespected
  BY DEF LimitsRespected
<1>7. QED BY <1>1, <1>2, <1>3, <1>4, <1>5, <1>6, PTL

\* What is listed while others change it is whole: the pages of a store, the tables
\* of pack routes, the entries of an interface and the times in a sliding window.
THEOREM ListsAreWhole == Spec => []ListsWhole
<1>1. Spec => []ListingComplete
  BY Instances, ServicesRun, ListingsAreComplete, PTL
<1>2. Spec => []RoutesWhole
  BY Instances, ServicesRun, RoutesAreWhole, PTL
<1>3. Spec => []EntriesKept
  BY Instances, ServicesRun, EntriesAreKept, PTL
<1>4. Spec => []BudgetKept
  BY Instances, ServicesRun, BudgetsAreKept, PTL
<1>5. ListingComplete /\ RoutesWhole /\ EntriesKept /\ BudgetKept => ListsWhole
  BY DEF ListsWhole
<1>6. QED BY <1>1, <1>2, <1>3, <1>4, <1>5, PTL

\* The variables of every service keep their types.
THEOREM ServicesTyped == Spec => []ServicesTypeOK
<1>1. Spec => []StoreTypeOK
  BY ServicesRun, StoresTyped, PTL
<1>2. Spec => []ListInv
  BY Instances, ServicesRun, ListAlways, PTL
<1>3. Spec => []EgressTypeOK
  BY Instances, ServicesRun, EgressTyped, PTL
<1>4. Spec => []DockerInv
  BY Instances, ServicesRun, DockerBegins, DockerSteps, PTL DEF DockerSpec
<1>5. Spec => []BoxInv
  BY ServicesRun, BoxBegins, BoxSteps, PTL DEF BoxSpec
<1>6. Spec => []LimiterInv
  BY Instances, ServicesRun, LimiterAlways, PTL
<1>7. Spec => []RouteInv
  BY Instances, ServicesRun, RouteAlways, PTL
<1>8. Spec => []SetupInv
  BY Instances, ServicesRun, SetupBegins, SetupSteps, PTL DEF SetupSpec
<1>9. Spec => []InterfaceInv
  BY Instances, ServicesRun, InterfaceAlways, PTL
<1>10. Spec => []RateInv
  BY Instances, ServicesRun, RateBegins, RateSteps, PTL DEF RateSpec
<1>11. Spec => []UsageInv
  BY Instances, ServicesRun, UsageBegins, UsageSteps, PTL DEF UsageSpec
<1>12. StoreTypeOK /\ ListInv /\ EgressTypeOK /\ DockerInv /\ BoxInv /\ LimiterInv /\ RouteInv /\ SetupInv
       /\ InterfaceInv /\ RateInv /\ UsageInv => ServicesTypeOK
  BY DEF ServicesTypeOK, ListInv, DockerInv, BoxInv, LimiterInv, RouteInv, SetupInv, InterfaceInv, RateInv, UsageInv
<1>13. QED BY <1>1, <1>2, <1>3, <1>4, <1>5, <1>6, <1>7, <1>8, <1>9, <1>10, <1>11, <1>12, PTL
=============================================================================
