----------------------------- MODULE StateColumns -----------------------------
(***************************************************************************)
(* The columns that count the states of a list of services or hosts, or    *)
(* tell the worst of them: ServicelistStateColumn, HostlistStateColumn and *)
(* the aggregates that a query keeps of each list.                         *)
(***************************************************************************)
EXTENDS Visibility, FiniteSets, SequencesExt

CONSTANT ServicesOf     \* [hosts -> sequences of services]

ServiceStates == [checked : BOOLEAN, current : 0 .. 3, hard : 0 .. 3]
HostStates == [checked : BOOLEAN, current : 0 .. 2]

\* ServicelistStateColumn.h, HostlistStateColumn.h
SLSC_NUM == -1
SLSC_NUM_OK == 0
SLSC_NUM_WARN == 1
SLSC_NUM_CRIT == 2
SLSC_NUM_UNKNOWN == 3
SLSC_NUM_PENDING == 4
SLSC_WORST_STATE == -2
HARD == 64
HLSC_NUM_HST_UP == 10
HLSC_NUM_HST_PENDING == 13
HLSC_NUM_HST == -11
HLSC_WORST_HST_STATE == -12
HostTypes == {HLSC_NUM_HST, HLSC_NUM_HST_PENDING, HLSC_WORST_HST_STATE} \cup {HLSC_NUM_HST_UP + n : n \in 0 .. 2}
SoftTypes == -2 .. 4

SvcStateIsWorse(state1, state2) ==
    state1 # 0 /\ (state2 = 0 \/ (state2 # 2 /\ (state1 = 2 \/ state1 > state2)))

HstStateIsWorse(state1, state2) ==
    state1 # 0 /\ (state2 = 0 \/ (state2 # 1 /\ state1 = 1))

Worst(IsWorse(_, _), states) ==
    FoldLeft(LAMBDA worst, state : IF IsWorse(state, worst) THEN state ELSE worst, 0, states)

Count(objects, Is(_)) == Cardinality({n \in DOMAIN objects : Is(objects[n])})
Each(objects, Of(_)) == [n \in DOMAIN objects |-> Of(objects[n])]

\* computeAggregates() of a list of services.
ServiceAggregates(auth, user, service, services) ==
    LET seen == SeenServices(auth, user, services) IN
    [num |-> Len(seen),
     pending |-> Count(seen, LAMBDA s : ~service[s].checked),
     soft |-> [n \in 0 .. 3 |-> Count(seen, LAMBDA s : service[s].checked /\ service[s].current = n)],
     hard |-> [n \in 0 .. 3 |-> Count(seen, LAMBDA s : service[s].checked /\ service[s].hard = n)],
     worst_soft |-> Worst(SvcStateIsWorse, Each(seen, LAMBDA s : service[s].current)),
     worst_hard |-> Worst(SvcStateIsWorse, Each(seen, LAMBDA s : service[s].hard))]

\* ServiceAggregates::get()
ServiceValue(a, logictype) ==
    LET hard == logictype >= 60
        lt == IF hard THEN logictype - HARD ELSE logictype
    IN
    CASE lt = SLSC_NUM         -> a.num
      [] lt = SLSC_NUM_PENDING -> a.pending
      [] lt = SLSC_WORST_STATE -> IF hard THEN a.worst_hard ELSE a.worst_soft
      [] lt \in 0 .. 3         -> IF hard THEN a.hard[lt] ELSE a.soft[lt]
      [] OTHER                 -> 0

\* computeAggregates() of a list of hosts.
HostAggregates(user, host, hosts) ==
    LET seen == SeenHosts(user, hosts) IN
    [num |-> Len(seen),
     pending |-> Count(seen, LAMBDA h : ~host[h].checked),
     state |-> [n \in 0 .. 2 |-> Count(seen, LAMBDA h : host[h].checked /\ host[h].current = n)],
     worst |-> Worst(HstStateIsWorse, Each(seen, LAMBDA h : host[h].current))]

\* HostAggregates::get()
HostValue(a, logictype) ==
    CASE logictype = HLSC_NUM_HST         -> a.num
      [] logictype = HLSC_NUM_HST_PENDING -> a.pending
      [] logictype = HLSC_WORST_HST_STATE -> a.worst
      [] OTHER                            -> a.state[logictype - HLSC_NUM_HST_UP]

\* What is known of lists, with what is now of others that are asked for.
Knowing(aggregates, now) ==
    [l \in DOMAIN aggregates \cup DOMAIN now |->
        IF l \in DOMAIN aggregates THEN aggregates[l] ELSE now[l]]

\* Mutant: nothing is kept.
KnownAnew(aggregates, list, now) == [Knowing(aggregates, [l \in {list} |-> now]) EXCEPT ![list] = now]

\* Query::serviceAggregates() and hostAggregates(): what the query knows of its
\* lists, once it has asked for one.
Known(aggregates, list, now) == Knowing(aggregates, [l \in {list} |-> now])

\* HostlistStateColumn::getValue() of a service column, get_subvalue(): the hosts
\* that the user sees are asked one by one.  The switch has no case for the hard
\* states, so that those columns are 0.
GroupValue(user, hosts, logictype, aggregates) ==
    LET seen == SeenHosts(user, hosts)
        values == Each(seen, LAMBDA h : ServiceValue(aggregates[<<"host", h>>], logictype))
    IN
    CASE logictype \notin SoftTypes      -> 0
      [] logictype = SLSC_WORST_STATE    -> Worst(SvcStateIsWorse, values)
      [] OTHER                           -> FoldLeft(LAMBDA sum, n : sum + n, 0, values)
=============================================================================
