--------------------------- MODULE TimeperiodsCache ---------------------------
(***************************************************************************)
(* src/src/TimeperiodsCache.cc: the core asks once a second for the cache  *)
(* to be brought up to date, which it is once a minute; what has changed   *)
(* is written to the log.  Client threads look periods up under the same   *)
(* lock, so that they find the cache before or after an update.            *)
(***************************************************************************)
EXTENDS Integers, TLC

CONSTANTS
    Periods,    \* the timeperiods' names
    MaxMinute   \* bound: how many minutes pass

ASSUME MinutesAssumption == MaxMinute \in Nat \ {0}

VARIABLES
    minute,     \* the minute it is
    known,      \* timeperiod_list: the core has read its timeperiods
    inside,     \* check_time_against_period: the periods it is inside of
    cache,      \* _cache: a Boolean for some periods
    cacheTime   \* _cache_time

tpVars == <<minute, known, inside, cache, cacheTime>>

CacheTypeOK ==
    /\ minute \in 1 .. MaxMinute /\ known \in BOOLEAN /\ inside \in SUBSET Periods
    /\ DOMAIN cache \subseteq Periods /\ \A p \in DOMAIN cache : cache[p] \in BOOLEAN
    /\ cacheTime \in 0 .. MaxMinute

Bit(b) == IF b THEN 1 ELSE 0

\* A transition is logged for a period that is new in the cache or has changed.
Changed(p) == p \notin DOMAIN cache \/ cache[p] # (p \in inside)
LogTransition(p) ==
    [period |-> p, from |-> IF p \in DOMAIN cache THEN Bit(cache[p]) ELSE -1,
     to |-> Bit(p \in inside)]

\* Mutant: the cache is not brought up to date for a period it holds.
UpdateOnce(logged) ==
    /\ minute # cacheTime /\ known
    /\ cache' = cache @@ [p \in Periods |-> p \in inside]
    /\ logged = {LogTransition(p) : p \in {q \in Periods : Changed(q)}}
    /\ cacheTime' = minute
    /\ UNCHANGED <<minute, known, inside>>

\* update(): the transitions it logs are the set logged, in the list's order.
Update(logged) ==
    /\ minute # cacheTime /\ known
    /\ cache' = [p \in Periods |-> p \in inside]
    /\ logged = {LogTransition(p) : p \in {q \in Periods : Changed(q)}}
    /\ cacheTime' = minute
    /\ UNCHANGED <<minute, known, inside>>

\* inTimeperiod()
InTimeperiod(p) == p \in DOMAIN cache /\ cache[p]

-----------------------------------------------------------------------------
\* The next minute comes only after an update: they are tried every second.
NextMinute ==
    /\ minute < MaxMinute /\ (known => cacheTime = minute)
    /\ minute' = minute + 1 /\ inside' \in SUBSET Periods
    /\ UNCHANGED <<known, cache, cacheTime>>

\* The core reads its configuration.  "This might be the case when a timed
\* event broker message arrives *before* the start of the event loop."
ReadPeriods ==
    /\ ~known /\ known' = TRUE
    /\ UNCHANGED <<minute, inside, cache, cacheTime>>

\* A new module: the constructor.
TpInit ==
    /\ minute = 1 /\ known \in BOOLEAN /\ inside \in SUBSET Periods
    /\ cache = <<>> /\ cacheTime = 0
=============================================================================
