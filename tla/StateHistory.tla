----------------------------- MODULE StateHistory -----------------------------
(***************************************************************************)
(* The table "statehist", src/src/TableStateHistory.cc: one pass over the  *)
(* log reconstructs what state every host and service was in, and reports  *)
(* a row with from and until whenever something changes.                   *)
(*                                                                         *)
(* The query reads the log line by line while it comes into being: what    *)
(* the core writes next does not depend on the query.  Lines about objects *)
(* are read as LogEntry understands them; those about timeperiods come     *)
(* from TimeperiodsCache, whose minutes are the log's clock.               *)
(***************************************************************************)
EXTENDS LogEntry, TimeperiodsCache, FiniteSets, FiniteSetsExt

CONSTANTS
    Hosts, Services,    \* objects the core has, and those it has no longer
    Gone,
    HostOf,             \* the host of a service
    Unwanted,           \* services that the query's filters exclude
    PeriodOf,           \* [{"notification", "service"} -> [object -> period]]
    Since, Until,       \* the query's time range
    Grace,              \* ten minutes
    Samples,            \* lines of the core, with what they say
    Lines,              \* those of them that are in the log
    MaxRead             \* bound: how many lines are read

Objects == (Hosts \cup Services) \ Gone
\* The periods that an object names: its own, and its service period.
Kinds == {"notification", "service"}

ASSUME HistoryAssumption ==
    /\ Hosts \cap Services = {} /\ HostOf \in [Services -> Hosts]
    /\ Unwanted \subseteq Services /\ {Since, Until, Grace, MaxRead} \subseteq Nat
    /\ Until > Since + 1 /\ MaxRead > 0 /\ Lines \subseteq Samples

VARIABLES
    place,      \* "reading", or "done"
    read,       \* how many lines were read
    info,       \* _state_info: a HostServiceState for some objects
    periods,    \* _notification_periods, which outlives a query
    blacklist,  \* object_blacklist
    onlyUpdate, \* only_update
    inInitial,  \* in_nagios_initial_states
    rows,       \* the rows that the last step reported, by object
    total,      \* history: the sum of an object's durations so far
    aborted,    \* _abort_query
    pending,    \* transitions that were logged and not read yet
    heard,      \* history: periods whose transition this query has read
    told,       \* history: what the log said last, by object
    vague       \* history: objects the log leaves in doubt, see the properties

query == <<place, read, info, periods, blacklist, onlyUpdate, inInitial, rows, total,
           aborted, pending, heard, told, vague>>
vars == <<query, tpVars>>

HostServiceState ==
    [from : Nat, until : Nat, state : -1 .. 4, hostDown : BOOLEAN,
     inPeriod : [Kinds -> 0 .. 1], inDowntime : BOOLEAN, inHostDowntime : BOOLEAN,
     flapping : BOOLEAN, services : SUBSET Services,
     mayNoLongerExist : BOOLEAN, hasVanished : BOOLEAN, lastKnown : Nat]

\* What a row shows of an object; its duration is until - from.
Row(st) == [from |-> st.from, until |-> st.until, state |-> st.state,
            hostDown |-> st.hostDown, inPeriod |-> st.inPeriod,
            inDowntime |-> st.inDowntime, inHostDowntime |-> st.inHostDowntime,
            flapping |-> st.flapping]

-----------------------------------------------------------------------------
(* One object                                                              *)

\* Work on an object: its state, the rows that were reported, and whether its
\* services are to be told (state_changed).
Work(st) == [st |-> st, rows |-> <<>>, changed |-> TRUE]

\* Mutant: _from stays.
ProcessKeepsFrom(w) == [w EXCEPT !.rows = Append(@, Row(w.st))]

\* process()
Process(w) == [w EXCEPT !.rows = Append(@, Row(w.st)), !.st.from = w.st.until]

Report(w, quiet) == IF quiet THEN w ELSE Process(w)

\* A row is reported before a field changes.
Become(w, quiet, field, value) ==
    IF w.st[field] = value THEN w ELSE [Report(w, quiet) EXCEPT !.st[field] = value]

PeriodNow(o, kind) ==
    LET p == PeriodOf[kind][o] IN IF p \in DOMAIN periods THEN periods[p] ELSE 1

\* A host or service that had vanished is back.
Revived(w, quiet, o, e) ==
    IF e.type = "TIMEPERIOD_TRANSITION" \/ ~w.st.hasVanished THEN w
    ELSE LET gone == Report([w EXCEPT !.st.until = w.st.lastKnown], quiet) IN
         [gone EXCEPT !.st.mayNoLongerExist = FALSE, !.st.hasVanished = FALSE,
                      !.st.state = -1, !.st.inDowntime = FALSE, !.st.flapping = FALSE,
                      !.st.inPeriod = [kind \in Kinds |-> PeriodNow(o, kind)]]

Started(e) == e.stateType = "STARTED"

HostEntry(w, quiet, o, e) ==
    IF o \in Services THEN Become(w, quiet, "hostDown", e.state > 0)
    ELSE IF w.st.state = e.state THEN [w EXCEPT !.changed = FALSE]
    ELSE [Report(w, quiet) EXCEPT !.st.state = e.state, !.st.hostDown = e.state > 0]

\* Mutant: a host's downtime does not show on the host itself.
HostDowntimeOfServices(w, quiet, o, e) ==
    IF w.st.inHostDowntime = Started(e) THEN [w EXCEPT !.changed = FALSE]
    ELSE [Report(w, quiet) EXCEPT !.st.inHostDowntime = Started(e)]

HostDowntime(w, quiet, o, e) ==
    IF w.st.inHostDowntime = Started(e) THEN [w EXCEPT !.changed = FALSE]
    ELSE [Report(w, quiet) EXCEPT !.st.inHostDowntime = Started(e),
                                  !.st.inDowntime = IF o \in Hosts THEN Started(e) ELSE @]

Flapping(w, quiet, e) ==
    IF w.st.flapping = Started(e) THEN [w EXCEPT !.changed = FALSE]
    ELSE Become(w, quiet, "flapping", Started(e))

\* First the notification period, then the service period.
PeriodEntry(w, quiet, o, e) ==
    LET Switch(v, kind) ==
            IF PeriodOf[kind][o] # e.period \/ v.st.inPeriod[kind] = e.to THEN v
            ELSE [Report(v, quiet) EXCEPT !.st.inPeriod[kind] = e.to]
    IN  Switch(Switch(w, "notification"), "service")

\* updateHostServiceState()
UpdateState(st, quiet, o, e) ==
    LET revived == Revived(Work(st), quiet, o, e)
        w == [revived EXCEPT !.st.until = e.time,
                  !.st.mayNoLongerExist = @ /\ e.type = "TIMEPERIOD_TRANSITION"]
    IN
    CASE e.type \in {"STATE_HOST", "STATE_HOST_INITIAL", "ALERT_HOST"} -> HostEntry(w, quiet, o, e)
      [] e.type \in {"STATE_SERVICE", "STATE_SERVICE_INITIAL", "ALERT_SERVICE"} ->
            Become(w, quiet, "state", e.state)
      [] e.type = "DOWNTIME_ALERT_HOST" -> HostDowntime(w, quiet, o, e)
      [] e.type = "DOWNTIME_ALERT_SERVICE" -> Become(w, quiet, "inDowntime", Started(e))
      [] e.type \in {"FLAPPING_HOST", "FLAPPING_SERVICE"} -> Flapping(w, quiet, e)
      [] e.type = "TIMEPERIOD_TRANSITION" -> PeriodEntry(w, quiet, o, e)

\* A host or service that is met for the first time.
NewState(o, time, quiet, tracked) ==
    LET host == IF o \in Services THEN HostOf[o] ELSE o
        knownHost == o \in Services /\ host \in DOMAIN tracked
    IN
    [from |-> Since, until |-> 0,
     state |-> IF ~quiet /\ time > Since + Grace THEN -1 ELSE 0,
     hostDown |-> knownHost /\ tracked[host].hostDown,
     inHostDowntime |-> knownHost /\ tracked[host].inHostDowntime,
     inPeriod |-> [kind \in Kinds |-> PeriodNow(o, kind)],
     inDowntime |-> FALSE, flapping |-> FALSE,
     services |-> IF o \in Services THEN {}
                  ELSE {s \in Services \cap DOMAIN tracked : HostOf[s] = o},
     mayNoLongerExist |-> FALSE, hasVanished |-> FALSE, lastKnown |-> 0]

\* tracked with the object o in it.
Grown(o, time, quiet, tracked) ==
    [x \in DOMAIN tracked \cup {o} |->
        IF x \in DOMAIN tracked THEN tracked[x] ELSE NewState(o, time, quiet, tracked)]

\* Mutant: a host that is known is not told of a new service.
TrackedAlone(o, time, quiet, tracked) == Grown(o, time, quiet, tracked)

\* And its host's list of services.
Tracked(o, time, quiet, tracked) ==
    LET grown == Grown(o, time, quiet, tracked) IN
    IF o \in Services /\ o \notin DOMAIN tracked /\ HostOf[o] \in DOMAIN tracked
    THEN [grown EXCEPT ![HostOf[o]].services = @ \cup {o}] ELSE grown

-----------------------------------------------------------------------------
(* The query                                                               *)


InitialTypes == {"STATE_HOST_INITIAL", "STATE_SERVICE_INITIAL"}
ServiceTypes == {"ALERT_SERVICE", "STATE_SERVICE", "STATE_SERVICE_INITIAL",
                 "DOWNTIME_ALERT_SERVICE", "FLAPPING_SERVICE"}
HostTypes == {"ALERT_HOST", "STATE_HOST", "STATE_HOST_INITIAL", "DOWNTIME_ALERT_HOST",
              "FLAPPING_HOST"}
HostStateTypes == {"STATE_HOST", "STATE_HOST_INITIAL", "ALERT_HOST"}

\* The classes that are loaded: CLASSMASK_STATEHIST.
ClassMask == {"alert", "program", "state", "text"}
Entries == {e \in {Entry(l.line) : l \in Lines} : e.class \in ClassMask}

Quiet(time) == onlyUpdate /\ time < Since

\* "Reached start of query timeframe.  From now on let's produce real output."
Begun(time) ==
    IF onlyUpdate /\ time >= Since
    THEN [o \in DOMAIN info |-> [info[o] EXCEPT !.from = Since, !.until = Since]] ELSE info

\* "Set still unknown hosts / services to unmonitored": the initial states end.
Settled(e) ==
    LET states == Begun(e.time) IN
    IF inInitial /\ e.type \notin InitialTypes
    THEN [o \in DOMAIN states |-> [states[o] EXCEPT !.hasVanished = @ \/ states[o].mayNoLongerExist]]
    ELSE states

\* The sum of the rows' durations.
Durations(list) == [n \in DOMAIN list |-> list[n].until - list[n].from]
Spent(list) == FoldFunction(+, 0, Durations(list))

\* What is reported of works, and whether the query goes on: processDataset
\* may refuse a row for the query's limits or the core's shutdown.
Answer(states, works) ==
    LET reported == [o \in Objects |-> IF o \in DOMAIN works THEN works[o].rows ELSE <<>>]
    IN  /\ info' = [o \in DOMAIN states |-> IF o \in DOMAIN works THEN works[o].st ELSE states[o]]
        /\ rows' = reported
        /\ total' = [o \in Objects |-> total[o] + Spent(reported[o])]
        /\ aborted' \in IF \E o \in Objects : reported[o] # <<>> THEN BOOLEAN ELSE {FALSE}

\* A turn of the loop, which an aborted query does not go on with.
Turn(states, works) ==
    Answer(states, works) /\ place' = IF aborted' THEN "done" ELSE "reading"

\* A line about a host or a service; a host's state concerns its services.
ObjectEntry(o, e) ==
    LET quiet == Quiet(e.time)
        states == Tracked(o, e.time, quiet, Settled(e))
        own == UpdateState(states[o], quiet, o, e)
        followers == IF own.changed /\ e.type \in {"ALERT_HOST", "STATE_HOST", "DOWNTIME_ALERT_HOST"}
                     THEN states[o].services ELSE {}
    IN  Turn(states, [s \in followers \cup {o} |->
                        IF s = o THEN own ELSE UpdateState(states[s], quiet, s, e)])

\* No state of the object was logged so far.
Unsaid == 5

\* The log is told of, for the properties: the last word on every object.
Told(o, e) ==
    [s \in Objects |->
        LET here == s = o
            mine == here \/ (s \in Services /\ HostOf[s] = o)
            host == e.type \in HostTypes
        IN  [told[s] EXCEPT
                !.state = IF here /\ e.type \in HostStateTypes \cup
                                 {"STATE_SERVICE", "STATE_SERVICE_INITIAL", "ALERT_SERVICE"}
                          THEN e.state ELSE @,
                !.hostDown = IF mine /\ e.type \in HostStateTypes THEN e.state > 0 ELSE @,
                !.inDowntime = IF here /\ e.type \in {"DOWNTIME_ALERT_HOST", "DOWNTIME_ALERT_SERVICE"}
                               THEN Started(e) ELSE @,
                !.inHostDowntime = IF mine /\ e.type = "DOWNTIME_ALERT_HOST" THEN Started(e) ELSE @,
                !.flapping = IF here /\ e.type \in {"FLAPPING_HOST", "FLAPPING_SERVICE"}
                             THEN Started(e) ELSE @]]

\* In doubt is what vanished once, and a service whose host's state was told by
\* an initial state: that is not passed on to services.
InDoubt(o, e) ==
    vague \cup {s \in DOMAIN info : info[s].mayNoLongerExist /\ inInitial /\ e.type \notin InitialTypes}
          \cup {s \in Services \cap Objects : e.type = "STATE_HOST_INITIAL" /\ HostOf[s] = o}

\* One turn of the loop over the log's entries.
Reads(e) ==
    /\ place = "reading" /\ read < MaxRead /\ minute < Until
    /\ pending = {} \/ e.type = "TIMEPERIOD_TRANSITION"
    /\ known => cacheTime = minute
    /\ read' = read + 1 /\ onlyUpdate' = Quiet(e.time)
    /\ inInitial' = (e.type = "LOG_INITIAL_STATES" \/ (inInitial /\ e.type \in InitialTypes))

\* An entry with more fields.
With(entry, more) ==
    [f \in DOMAIN entry \cup DOMAIN more |-> IF f \in DOMAIN more THEN more[f] ELSE entry[f]]

Now(entry) == With(entry, [time |-> minute])

\* The service or the host of an entry (_service and _host), if the core has it.
Concerned(e) ==
    CASE e.type \in ServiceTypes -> ({e.svc} \cap Services) \ Gone
      [] e.type \in HostTypes    -> ({e.host} \cap Hosts) \ Gone
      [] OTHER                   -> {}

\* Nothing but what every line does: other types, objects that are unknown or
\* were filtered out.
ReadOther ==
    \E entry \in Entries :
        LET e == Now(entry) IN
        /\ e.type # "LOG_INITIAL_STATES" /\ Concerned(e) \subseteq blacklist
        /\ Reads(e) /\ Turn(Settled(e), <<>>)
        /\ vague' = InDoubt(Null, e)
        /\ UNCHANGED <<periods, blacklist, pending, heard, told, tpVars>>

\* A service is looked at by the filters when it is met for the first time;
\* a host is not, "since they might be needed for service states".
ReadUnwanted ==
    \E entry \in Entries :
        LET e == Now(entry) IN
        /\ Concerned(e) # {} /\ Concerned(e) \subseteq Unwanted \ (blacklist \cup DOMAIN info)
        /\ Reads(e) /\ Turn(Settled(e), <<>>)
        /\ blacklist' = blacklist \cup Concerned(e)
        /\ vague' = InDoubt(Null, e)
        /\ UNCHANGED <<periods, pending, heard, told, tpVars>>

ReadObject ==
    \E entry \in Entries :
        LET e == Now(entry) IN
        /\ \E o \in Concerned(e) \ blacklist :
            /\ o \in Unwanted => o \in DOMAIN info
            /\ Reads(e) /\ ObjectEntry(o, e)
            /\ told' = Told(o, e) /\ vague' = InDoubt(o, e)
        /\ UNCHANGED <<periods, blacklist, pending, heard, tpVars>>

\* "If log_initial_states is set, each nagios startup logs the initial states
\* of all known hosts and services."
ReadInitialStates ==
    \E entry \in Entries :
        LET e == Now(entry)
            states == Settled(e)
        IN
        /\ e.type = "LOG_INITIAL_STATES" /\ Reads(e)
        /\ Turn([o \in DOMAIN states |->
                        IF states[o].hasVanished THEN states[o]
                        ELSE [states[o] EXCEPT !.lastKnown = e.time, !.mayNoLongerExist = TRUE]], <<>>)
        /\ vague' = InDoubt(Null, e)
        /\ UNCHANGED <<periods, blacklist, pending, heard, told, tpVars>>

\* The core brings its cache of timeperiods up to date and logs transitions.
CoreUpdate ==
    /\ place = "reading" /\ pending = {}
    /\ \E logged \in SUBSET {LogTransition(p) : p \in Periods} : Update(logged) /\ pending' = logged
    /\ UNCHANGED <<place, read, info, periods, blacklist, onlyUpdate, inInitial, rows, total,
                   aborted, heard, told, vague>>

CoreGoesOn == pending = {} /\ (NextMinute \/ ReadPeriods) /\ UNCHANGED query

\* A transition concerns every object: "name;from;to".
ReadTransition ==
    \E t \in pending :
        LET line == [text |-> "TIMEPERIOD TRANSITION", fields |-> <<>>]
            e == With(Now(Entry(line)), [period |-> t.period, to |-> t.to])
            states == Settled(e)
        IN
        /\ Reads(e)
        /\ periods' = [p \in DOMAIN periods \cup {t.period} |->
                        IF p = t.period THEN t.to ELSE periods[p]]
        /\ Turn(states, [o \in DOMAIN states |-> UpdateState(states[o], Quiet(e.time), o, e)])
        /\ pending' = pending \ {t} /\ heard' = heard \cup {t.period}
        /\ vague' = InDoubt(Null, e)
        /\ UNCHANGED <<blacklist, told, tpVars>>

\* Mutant: the last second of the range is not covered.
FinalEarly(st) == Process([Work(st) EXCEPT !.st.until = Until - 2])

\* "Create final reports": until its last trace, and until the range's end.
Final(st) ==
    LET traced == Process([Work(st) EXCEPT !.st.until = st.lastKnown])
        w == IF st.mayNoLongerExist THEN [traced EXCEPT !.st.state = -1] ELSE Work(st)
    IN  Process([w EXCEPT !.st.until = Until - 1])

\* The log is at its end, or its next line is not in the range any more.
Finish ==
    /\ place = "reading" /\ place' = "done"
    /\ Answer(info, [o \in DOMAIN info |-> Final(info[o])])
    /\ UNCHANGED <<read, periods, blacklist, onlyUpdate, inInitial, pending, heard, told,
                   vague, tpVars>>

-----------------------------------------------------------------------------
\* An earlier query may have left what it knew of the timeperiods.
Init ==
    /\ TpInit
    /\ place = "reading" /\ read = 0 /\ info = <<>> /\ blacklist = {}
    /\ periods \in {<<>>} \cup [Periods -> 0 .. 1]
    /\ onlyUpdate = TRUE /\ inInitial = FALSE /\ aborted = FALSE
    /\ rows = [o \in Objects |-> <<>>] /\ total = [o \in Objects |-> 0]
    /\ pending = {} /\ heard = {} /\ vague = {}
    /\ told = [o \in Objects |-> [state |-> Unsaid, hostDown |-> FALSE, inDowntime |-> FALSE,
                                  inHostDowntime |-> FALSE, flapping |-> FALSE]]

Next ==
    \/ CoreUpdate \/ CoreGoesOn
    \/ ReadOther \/ ReadUnwanted \/ ReadObject \/ ReadInitialStates \/ ReadTransition
    \/ Finish

Spec == Init /\ [][Next]_vars

-----------------------------------------------------------------------------
(* Properties                                                              *)

TypeOK ==
    /\ CacheTypeOK
    /\ place \in {"reading", "done"} /\ read \in 0 .. MaxRead
    /\ DOMAIN info \subseteq Objects /\ \A o \in DOMAIN info : info[o] \in HostServiceState
    /\ DOMAIN periods \subseteq Periods /\ heard \subseteq Periods
    /\ blacklist \subseteq Unwanted /\ vague \subseteq Objects
    /\ {onlyUpdate, inInitial, aborted} \subseteq BOOLEAN
    /\ total \in [Objects -> Int]

\* A host reaches exactly those of its services that are tracked, whichever of
\* them came first in the log: only by this list do its alerts concern them.
HostKnowsServices ==
    \A h \in Hosts \cap DOMAIN info :
        info[h].services = {s \in Services \cap DOMAIN info : HostOf[s] = h}

\* Between two lines the state of an object is what the log said last of it and
\* of its host, unless it has been in doubt; of what nothing was said yet it is
\* "OK" or "unmonitored".
StateIsTold ==
    place = "reading" => \A o \in DOMAIN info \ vague :
        \A field \in DOMAIN told[o] :
            IF field = "state" /\ told[o].state = Unsaid THEN info[o].state \in {-1, 0}
            ELSE info[o][field] = told[o][field]

\* The notification and service periods of an object are what the core had in
\* its cache; before the query has read of a period it counts as inside, unless
\* an earlier query left something else.
PeriodsAreCached ==
    pending = {} => \A o \in DOMAIN info, kind \in Kinds :
        PeriodOf[kind][o] \in heard =>
            info[o].inPeriod[kind] = Bit(InTimeperiod(PeriodOf[kind][o]))

\* The rows of an object cover the query's range once and without a gap: their
\* durations add up to the range, and none is negative except that of an object
\* that was not heard of again since an initial state was logged.
DurationsAddUp ==
    \A o \in Objects \ vague :
        /\ o \in DOMAIN info /\ ~info[o].mayNoLongerExist =>
            \A n \in DOMAIN rows[o] : rows[o][n].from <= rows[o][n].until
        /\ place = "done" /\ ~aborted /\ o \in DOMAIN info => total[o] = Until - 1 - Since

\* Nothing that a row shows changes within the range without a row that ends
\* when it changed.
ChangesReported ==
    [][\A o \in DOMAIN info :
        /\ ~onlyUpdate' /\ place' = "reading"
        /\ \E field \in DOMAIN told[o] \cup {"inPeriod"} : info'[o][field] # info[o][field]
        => /\ rows'[o] # <<>> /\ rows'[o][1].until <= minute /\ info'[o].from = rows'[o][Len(rows'[o])].until
           /\ \A field \in DOMAIN told[o] : rows'[o][1][field] = info[o][field]]_vars

\* What the core writes about an object is understood as that; the lines are the
\* same all the time, so that it is enough to look at them before the first is read.
LinesUnderstood ==
    read = 0 /\ place = "reading" =>
        \A l \in Samples : \A field \in DOMAIN l.says : Entry(l.line)[field] = l.says[field]
=============================================================================
