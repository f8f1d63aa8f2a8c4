------------------------------ MODULE AuditLog ------------------------------
(***************************************************************************)
(* AuditLogger (audit_logger.py): entries are buffered, and written to the *)
(* file of their day when the buffer is full, before a query and at exit.  *)
(* What cannot be written, or is in the buffer when the process dies, is   *)
(* lost, and the line that a failing write leaves half done spoils the one *)
(* written behind it; old files are deleted by date.                       *)
(***************************************************************************)
EXTENDS Naturals, Sequences, SequencesExt, Subsequences

CONSTANTS
    BufferSize,
    MaxLogged, LastDay, KeepDays, MaxAuditFaults

VARIABLES
    logged,          \* the day in the time stamp of each entry, in order of log()
    buffer,          \* _buffer: numbers of entries
    logFiles,        \* [days -> sequence of entries that can be read]: one category
    torn,            \* [days -> the fault that left half a line at the file's end, or 0]
    today,
    dropped,         \* history: entries in files that could not be written or in a buffer that died
    spoilt,          \* history: [faults -> the entry glued to its half line, or 0]
    cleaned,         \* history: the first day the last cleanup kept
    auditFaults

fileVars == <<logFiles, torn, dropped, spoilt, auditFaults>>
auditVars == <<logged, buffer, fileVars, today, cleaned>>

Days == 1..LastDay
Faults == 1..MaxAuditFaults

\* What is assumed of the constants.
AuditConstants ==
    /\ {BufferSize, LastDay} \subseteq Nat \ {0}
    /\ {MaxLogged, KeepDays, MaxAuditFaults} \subseteq Nat

AuditTypeOK ==
    /\ logged \in Seq(Days) /\ Len(logged) <= MaxLogged
    /\ ToSet(buffer) \subseteq DOMAIN logged /\ Len(buffer) < BufferSize
    /\ \A d \in Days : ToSet(logFiles[d]) \subseteq DOMAIN logged
    /\ today \in Days /\ dropped \subseteq DOMAIN logged /\ cleaned \in Days
    /\ auditFaults \in 0..MaxAuditFaults
    /\ torn \in [Days -> 0..MaxAuditFaults] /\ spoilt \in [Faults -> 0..Len(logged)]

AuditInit ==
    /\ logged = <<>> /\ buffer = <<>> /\ logFiles = [d \in Days |-> <<>>]
    /\ torn = [d \in Days |-> 0] /\ spoilt = [f \in Faults |-> 0]
    /\ today = 1 /\ dropped = {} /\ cleaned = 1 /\ auditFaults = 0

\* The places, in a flush, of the entries that go to the file of a day.
OfDay(entries, stamps, d) == {i \in DOMAIN entries : stamps[entries[i]] = d}

\* Mutant: the file of a day is written anew.
FlushAnew(entries, stamps) ==
    /\ buffer' = <<>>
    /\ logFiles' = [d \in Days |-> LET new == OfDay(entries, stamps, d) IN
                                   IF new = {} THEN logFiles[d] ELSE Selected(entries, new)]
    /\ UNCHANGED <<torn, dropped, spoilt, auditFaults>>

\* The lines at the places W are appended.  Where a file ends in half a line the
\* first goes behind it, and what is then in that line is no entry.
AppendLines(entries, stamps, W) ==
    LET new(d) == W \cap OfDay(entries, stamps, d)
        Glued == {d \in Days : torn[d] # 0 /\ new(d) # {}}
    IN  /\ logFiles' = [d \in Days |-> logFiles[d] \o
              Selected(entries, IF d \in Glued THEN new(d) \ {Min(new(d))} ELSE new(d))]
        /\ spoilt' = [f \in Faults |-> IF \E d \in Glued : torn[d] = f
              THEN entries[Min(new(CHOOSE d \in Glued : torn[d] = f))] ELSE spoilt[f]]

\* _flush_buffer: one file may fail, and the others are written; when the process is
\* killed, those after it are not.  Either way there may be a part of what was
\* for the file, and of its last line.  The buffer is cleared all the same.
FlushBuffer(entries, stamps) ==
    /\ buffer' = <<>>
    /\ \/ /\ AppendLines(entries, stamps, DOMAIN entries)
          /\ torn' = [d \in Days |-> IF OfDay(entries, stamps, d) = {} THEN torn[d] ELSE 0]
          /\ UNCHANGED <<dropped, auditFaults>>
       \/ /\ auditFaults < MaxAuditFaults /\ auditFaults' = auditFaults + 1
          /\ \E bad \in {stamps[e] : e \in ToSet(entries)}, last \in 0..Len(entries), killed, tears \in BOOLEAN :
               LET start(d) == Min(OfDay(entries, stamps, d))
                   W == {i \in DOMAIN entries : LET d == stamps[entries[i]] IN
                            IF d = bad THEN i <= last ELSE killed => start(d) < start(bad)}
               IN  /\ ~(OfDay(entries, stamps, bad) \subseteq W)
                   /\ AppendLines(entries, stamps, W)
                   /\ torn' = [d \in Days |-> IF d = bad /\ tears THEN auditFaults + 1
                                              ELSE IF W \cap OfDay(entries, stamps, d) = {} THEN torn[d] ELSE 0]
                   /\ dropped' = dropped \cup {entries[i] : i \in DOMAIN entries \ W}

\* Mutant: the buffer is flushed when it is more than full.
LogLate(day) ==
    LET stamps == Append(logged, day)  entries == Append(buffer, Len(stamps)) IN
    /\ Len(logged) < MaxLogged /\ day \in {today, today - 1} \cap Days
    /\ logged' = stamps
    /\ IF Len(entries) > BufferSize THEN FlushBuffer(entries, stamps)
       ELSE buffer' = entries /\ UNCHANGED fileVars
    /\ UNCHANGED <<today, cleaned>>

\* An entry's stamp is made before log() is called: it may be yesterday's.
Log(day) ==
    LET stamps == Append(logged, day)  entries == Append(buffer, Len(stamps)) IN
    /\ Len(logged) < MaxLogged /\ day \in {today, today - 1} \cap Days
    /\ logged' = stamps
    /\ IF Len(entries) >= BufferSize THEN FlushBuffer(entries, stamps)
       ELSE buffer' = entries /\ UNCHANGED fileVars
    /\ UNCHANGED <<today, cleaned>>

\* flush: by query_logs, at exit, and when the logger is replaced.
Flush ==
    /\ buffer # <<>> /\ FlushBuffer(buffer, logged)
    /\ UNCHANGED <<logged, today, cleaned>>

ProcessDies ==
    /\ buffer # <<>> /\ auditFaults < MaxAuditFaults /\ auditFaults' = auditFaults + 1
    /\ dropped' = dropped \cup ToSet(buffer) /\ buffer' = <<>>
    /\ UNCHANGED <<logged, logFiles, torn, spoilt, today, cleaned>>

CleanupOldLogs ==
    LET cutoff == IF today > KeepDays THEN today - KeepDays ELSE 1 IN
    /\ cleaned' = cutoff
    /\ logFiles' = [d \in Days |-> IF d < cutoff THEN <<>> ELSE logFiles[d]]
    /\ torn' = [d \in Days |-> IF d < cutoff THEN 0 ELSE torn[d]]
    /\ UNCHANGED <<logged, buffer, today, dropped, spoilt, auditFaults>>

DayPasses ==
    /\ today < LastDay /\ today' = today + 1
    /\ UNCHANGED <<logged, buffer, fileVars, cleaned>>

AuditNext == (\E d \in Days : Log(d)) \/ Flush \/ ProcessDies \/ CleanupOldLogs \/ DayPasses

AuditSpec == AuditInit /\ [][AuditNext]_auditVars

\* query_logs: files from the newest day back, each read from its beginning; a
\* line that is no entry is skipped.
Back[d \in 0..LastDay] == IF d = 0 THEN <<>> ELSE logFiles[d] \o Back[d - 1]
QueryLogs(limit) ==
    LET newestFirst == Back[LastDay] IN
    SubSeq(newestFirst, 1, IF limit < Len(newestFirst) THEN limit ELSE Len(newestFirst))

\* Every entry is in the buffer or, once, in the file of its day, unless that day
\* was cleaned up, or a fault lost it: what a failing or killed write did not get
\* to the file, and one entry more, written behind the half line it left.  Each
\* file is in the order of logging, and an unlimited query after a flush returns
\* all that is kept.
Lost == dropped \cup {spoilt[f] : f \in Faults}
AuditComplete ==
    /\ \A e \in DOMAIN logged \ Lost : e \in ToSet(buffer) \/ e \in ToSet(logFiles[logged[e]]) \/ logged[e] < cleaned
    /\ \A d \in Days : \A i, j \in DOMAIN logFiles[d] :
         /\ i < j => logFiles[d][i] < logFiles[d][j]
         /\ logged[logFiles[d][i]] = d /\ logFiles[d][i] \notin ToSet(buffer)
    /\ buffer = <<>> => {e \in DOMAIN logged \ Lost : logged[e] >= cleaned} \subseteq ToSet(QueryLogs(MaxLogged))
=============================================================================
