---------------------------- MODULE UsageLimits ----------------------------
(***************************************************************************)
(* The limits on calls, two specifications.  The sliding windows:          *)
(* PackRateLimiter (egress_rate_limiter.py), _check_rate_limit of          *)
(* CapabilityExecutor and of UnitExecutor; each reads the clock before it  *)
(* takes its lock, so that two threads may record their times out of       *)
(* order.  The uses of a limited grant (capability_usage_store.py): each   *)
(* function call is a process with a store of its own, which reads the     *)
(* signed file of a principal once, counts in its cache and writes the     *)
(* file in one step.                                                       *)
(***************************************************************************)
EXTENDS Integers, FiniteSets, Sequences

CONSTANTS
    Callers,       \* bound: threads that ask at one time
    Limit,         \* requests per window (60 per minute, or what is configured)
    Width,         \* length of the window in ticks (60 s)
    Delay,         \* bound: ticks from reading the clock to having the lock
    MaxClock       \* bound: ticks of a behaviour

VARIABLES
    clock,
    window,        \* times recorded, in the order they were
    asking,        \* [Callers -> time read, or NotAsking]
    admitted       \* history: the clock at each request let through

rateVars == <<clock, window, asking, admitted>>

NotAsking == -1

\* What is assumed of the constants.
RateConstants == {Limit, Width, Delay, MaxClock} \subseteq Nat

RateTypeOK ==
    /\ clock \in 0..MaxClock
    /\ window \in Seq(0..MaxClock)
    /\ asking \in [Callers -> (0..MaxClock) \cup {NotAsking}]
    /\ admitted \in Seq(0..MaxClock)

RateInit ==
    /\ clock = 0
    /\ window = << >>
    /\ asking = [c \in Callers |-> NotAsking]
    /\ admitted = << >>

Tick ==
    /\ clock < MaxClock
    /\ \A c \in Callers : asking[c] # NotAsking => clock - asking[c] < Delay
    /\ clock' = clock + 1
    /\ UNCHANGED <<window, asking, admitted>>

ReadClock(c) ==
    /\ asking[c] = NotAsking
    /\ asking' = [asking EXCEPT ![c] = clock]
    /\ UNCHANGED <<clock, window, admitted>>

\* Mutant: as many are dropped as are old.
PrunedByCount(cutoff) == SubSeq(window, Cardinality({i \in DOMAIN window : window[i] <= cutoff}) + 1, Len(window))

\* Old times leave at the head, up to the first that is not old.
Pruned(cutoff) ==
    LET kept == {i \in DOMAIN window : \E j \in 1..i : window[j] >= cutoff} IN
    SubSeq(window, Len(window) - Cardinality(kept) + 1, Len(window))

\* Under the lock: allowed and recorded, or refused.
Admit(c) == LET now == asking[c]
                 left == Pruned(now - Width) IN
    /\ now # NotAsking
    /\ asking' = [asking EXCEPT ![c] = NotAsking]
    /\ IF Len(left) >= Limit
       THEN window' = left /\ UNCHANGED admitted
       ELSE window' = Append(left, now) /\ admitted' = Append(admitted, clock)
    /\ UNCHANGED clock

RateNext ==
    \/ Tick
    \/ \E c \in Callers : ReadClock(c) \/ Admit(c)

RateSpec == RateInit /\ [][RateNext]_rateVars

\* However the threads interleave between the clock and the lock, no stretch of
\* time shorter than the window by the delay sees more than Limit requests.
BudgetKept == \A i \in DOMAIN admitted :
    Cardinality({j \in DOMAIN admitted : j <= i /\ admitted[i] - admitted[j] <= Width - Delay}) <= Limit

(***************************************************************************)
(* The uses of one permission by one principal.                            *)
(***************************************************************************)
CONSTANTS
    Users,         \* bound: processes at one time
    MaxCount,      \* max_count of the grant, 0 for none
    MaxDaily,      \* max_daily_count of the grant, 0 for none
    LastDay,       \* bound: days of a behaviour
    Expires,       \* the first day on which the grant has expired
    MaxUsageFaults \* bound: failing writes and damaged files

VARIABLES
    day,
    file,          \* what the usage file holds: a record, or Forged
    cache,         \* [Users -> record, or NotLoaded]
    uses,          \* history: calls allowed since the last reset, per day
    total,         \* history: ... and in all
    excused,       \* history: calls that overlapped another one, lost or forged
    usageFaults

usageVars == <<day, file, cache, uses, total, excused, usageFaults>>

Days == 0..LastDay
Record(n, d) == [used |-> n, daily |-> d]
Unused == Record(0, [d \in Days |-> 0])
Forged == Record(-1, [d \in Days |-> 0])       \* its signature does not match
NotLoaded == Record(-2, [d \in Days |-> 0])

Usage == [used: Nat, daily: [Days -> Nat]]

\* What is assumed of the constants.
UsageConstants == {MaxCount, MaxDaily, LastDay, Expires, MaxUsageFaults} \subseteq Nat /\ IsFiniteSet(Users)

UsageTypeOK ==
    /\ day \in Days
    /\ file = Forged \/ file \in Usage
    /\ \A u \in Users : cache[u] = NotLoaded \/ cache[u] \in Usage
    /\ DOMAIN cache = Users
    /\ uses \in [Days -> Nat] /\ total \in Nat /\ excused \in Nat
    /\ usageFaults \in 0..MaxUsageFaults

UsageInit ==
    /\ day = 0
    /\ file = Unused
    /\ cache = [u \in Users |-> NotLoaded]
    /\ uses = [d \in Days |-> 0] /\ total = 0
    /\ excused = 0
    /\ usageFaults = 0

UsageFault == usageFaults < MaxUsageFaults /\ usageFaults' = usageFaults + 1

\* _load_principal, once per process: a file that does not verify, or cannot be
\* read, counts as none, and the uses it counted are open again.
LoadUsage(u) ==
    /\ cache[u] = NotLoaded
    /\ cache' = [cache EXCEPT ![u] = IF file = Forged THEN Unused ELSE file]
    /\ UNCHANGED <<day, file, uses, total, excused, usageFaults>>

Counted(r) == Record(r.used + 1, IF MaxDaily > 0 THEN [r.daily EXCEPT ![day] = @ + 1] ELSE r.daily)

\* Mutant: only the total.
AllowsInTotal(r) ==
    /\ day < Expires
    /\ MaxCount > 0 => r.used < MaxCount

\* check_and_consume: expiry, total, today, then one more of each.
Allows(r) ==
    /\ day < Expires
    /\ MaxCount > 0 => r.used < MaxCount
    /\ MaxDaily > 0 => r.daily[day] < MaxDaily

\* The call is over and its process with it.  Others that have loaded by now
\* know nothing of it; a write that fails is not reported.
Consume(u) ==
    /\ cache[u] # NotLoaded
    /\ cache' = [cache EXCEPT ![u] = NotLoaded]
    /\ IF Allows(cache[u])
       THEN /\ uses' = [uses EXCEPT ![day] = @ + 1] /\ total' = total + 1
            /\ \/ file' = Counted(cache[u]) /\ UNCHANGED usageFaults
                  /\ excused' = excused + Cardinality({v \in Users \ {u} : cache[v] # NotLoaded})
               \/ UsageFault /\ excused' = excused + 1 /\ UNCHANGED file
       ELSE UNCHANGED <<file, uses, total, excused, usageFaults>>
    /\ UNCHANGED day

\* reset_usage and reset_all, from a process that has just loaded.
ResetUsage(u) ==
    /\ cache[u] = NotLoaded
    /\ \A v \in Users : cache[v] = NotLoaded
    /\ file' = Unused
    /\ uses' = [d \in Days |-> 0] /\ total' = 0
    /\ excused' = 0
    /\ UNCHANGED <<day, cache, usageFaults>>

\* The file is damaged: its count is lost.
DamageUsage ==
    /\ UsageFault
    /\ file # Forged
    /\ file' = Forged
    /\ excused' = excused + total
    /\ UNCHANGED <<day, cache, uses, total>>

NextDay ==
    /\ day < LastDay
    /\ day' = day + 1
    /\ UNCHANGED <<file, cache, uses, total, excused, usageFaults>>

UsageNext ==
    \/ \E u \in Users : LoadUsage(u) \/ Consume(u) \/ ResetUsage(u)
    \/ DamageUsage
    \/ NextDay

UsageSpec == UsageInit /\ [][UsageNext]_usageVars

\* The limits of a grant are exceeded by no more calls than overlapped another
\* one or whose count was lost: a write that fails is passed over, and a file that
\* cannot be verified or read lets calls through again.  The docstring of
\* capability_usage_store.py promises the opposite, that such a file counts as used up.
LimitsKept ==
    /\ MaxCount > 0 => total <= MaxCount + excused
    /\ MaxDaily > 0 => \A d \in Days : uses[d] <= MaxDaily + excused
    /\ \A d \in Days : d >= Expires => uses[d] = 0
============================================================================
