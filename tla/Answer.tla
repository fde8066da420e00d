-------------------------------- MODULE Answer --------------------------------
(***************************************************************************)
(* How a query of hosts, services and their groups is answered: the        *)
(* tables' answerQuery(), Query::processDataset() and Query::finish().     *)
(*                                                                         *)
(* The client's thread reads the objects of the core without a lock, one   *)
(* column after the other, while the core changes their states.  A query   *)
(* that walks a list of services for one column knows the list's states    *)
(* for all others; statistics and sorted rows are printed at the end.      *)
(*                                                                         *)
(* A walk through one list is one step: no property compares two values    *)
(* that the code reads of the same member one after the other.  Sort       *)
(* columns are configuration.  Waiting, the time limit, the largest        *)
(* response and the shutdown are in WaitTriggers, Pagination and           *)
(* Connection.                                                             *)
(***************************************************************************)
EXTENDS StateColumns, QueryHeaders, QueryOutput, Aggregators, RowSortedSet

CONSTANTS
    Requests,       \* [table, index, lines]: the headers of a query of a table
    HostList, ServiceList, HostgroupList, ServicegroupList,     \* the core's lists
    AllColumns,     \* [tables -> columns]
    Beginnings,     \* [host, service]: the states when the query begins
    Perfdata,       \* [states -> entries]: the performance data of a service
    Variables,      \* [hosts -> how many custom variables are not hidden]
    Rank,           \* [rows -> order by name]: the natural order of the tables
    Changes,        \* what checks may find: [object, state]
    MaxChanges,     \* bound: how many
    NoObject

ASSUME AnswerAssumption ==
    /\ MaxChanges \in Nat
    /\ \A c \in Changes : \/ c.object \in DOMAIN HostContacts /\ c.state \in HostStates
                          \/ c.object \in DOMAIN HostOf /\ c.state \in ServiceStates
    /\ \A b \in Beginnings : /\ b.host \in [DOMAIN HostContacts -> HostStates]
                             /\ b.service \in [DOMAIN HostOf -> ServiceStates]

\* No object is a member of the same list twice, no host group is a service group, and
\* no host a service.
ListsOf(objects) == {list \in Seq(objects) : IsInjective(list)}
ASSUME ObjectsAssumption ==
    /\ NoObject \notin DOMAIN HostContacts \cup DOMAIN HostOf
    /\ DOMAIN HostContacts \cap DOMAIN HostOf = {}
    /\ DOMAIN Hostgroups \cap DOMAIN Servicegroups = {}
    /\ HostList \in Seq(DOMAIN HostContacts) /\ ServiceList \in Seq(DOMAIN HostOf)
    /\ HostgroupList \in Seq(DOMAIN Hostgroups) /\ ServicegroupList \in Seq(DOMAIN Servicegroups)
    /\ \A g \in DOMAIN Hostgroups : Hostgroups[g] \in ListsOf(DOMAIN HostContacts)
    /\ \A g \in DOMAIN Servicegroups : Servicegroups[g] \in ListsOf(DOMAIN HostOf)
    /\ DOMAIN ServicesOf = DOMAIN HostContacts
    /\ \A h \in DOMAIN ServicesOf : ServicesOf[h] \in ListsOf(DOMAIN HostOf)

\* The tables.  The columns of a host group, of a service group and of a host are in
\* every table whose rows have one (the calls of addColumns).
HostgroupTables == {"hostgroups", "hostsbygroup", "servicesbyhostgroup"}
ServicegroupTables == {"servicegroups", "servicesbygroup"}
HostTables == {"hosts", "hostsbygroup"}
ServiceTables == {"services", "servicesbygroup", "servicesbyhostgroup"}
Tables == HostTables \cup ServiceTables \cup {"hostgroups", "servicegroups"}

ColumnFits(table, c) ==
    /\ c = [kind |-> c.kind, of |-> c.of, type |-> c.type, parts |-> c.parts]
    /\ c.kind \in {"hosts", "hostgroup"} => table \in HostgroupTables
    /\ c.kind = "groups" =>
        table \in IF c.of = "host" THEN HostTables \cup ServiceTables ELSE ServiceTables
    /\ c.kind \in {"services", "list"} =>
        table \in IF c.of = "host" THEN HostTables \cup ServiceTables ELSE ServicegroupTables

\* What findIndexFilter() may find: a group, or the name of a host that need not exist.
IndexFits(table, index) ==
    \/ index = <<>>
    \/ table = "hosts" /\ index \in {"groups"} \X DOMAIN Hostgroups
    \/ table = "services" /\ \/ index[1] = "host_name"
                              \/ index \in ({"groups"} \X DOMAIN Servicegroups)
                                            \cup ({"host_groups"} \X DOMAIN Hostgroups)

\* The headers; a number of rows is not negative.
LineFits(table, h) ==
    CASE h.does = "set"     -> /\ h.sets \in {"limit", "offset", "timelimit", "format", "headers",
                                              "keepalive", "response"}
                               /\ h.valid /\ h.sets \in {"limit", "offset"} => h.value \in Nat
      [] h.does = "wait"    -> h.sets \in {"timeout", "trigger", "object"}
      [] h.does = "Columns" -> /\ h.value \in Seq(ToSet(h.value))
                               /\ \A c \in ToSet(h.value) : ColumnFits(table, c)
      [] h.does = "Filter"  -> ColumnFits(table, h.value.column)
      [] h.does = "Stats"   -> h.value.kind # "other" => ColumnFits(table, h.value.column)
      [] OTHER              -> h.does \in {"AuthUser", "Sort", "Separators", "Localtime", "undefined"}

ASSUME RequestsAssumption ==
    \A r \in Requests :
        /\ r.table \in Tables /\ IndexFits(r.table, r.index)
        /\ Len(r.lines) \in Nat /\ \A n \in 1 .. Len(r.lines) : LineFits(r.table, r.lines[n])
        /\ AllColumns[r.table] \in Seq(ToSet(AllColumns[r.table]))
        /\ \A c \in ToSet(AllColumns[r.table]) : ColumnFits(r.table, c)

VARIABLES
    host, service,  \* the core's objects: their states
    changes,        \* how often they changed
    request, auth,  \* what is asked, and g_service_authorization, g_group_authorization
    query,          \* the headers
    pc,
    todo,           \* the rows that are left, in as many lists as the table walks
    row,            \* the row, and the column, filter or aggregator that is next
    k,
    aggregates,     \* _service_aggregates and _host_aggregates
    need,           \* _need_ds_separator
    output,         \* the output buffer
    values,         \* the values of the row that is printed, or its group
    groups,         \* _stats_groups, or _stats_aggregators
    heap, outbuf,   \* _sorter, and finish()'s outbuf
    line,           \* _current_line
    shown,          \* history: the rows printed, with their values
    accepted,       \* history: the rows that pass the filters and the authorization
    consumed        \* history: the rows and values of each group

core == <<host, service, changes>>
asked == <<request, auth, query>>
walk == <<todo, row>>
printing == <<need, output, shown>>
stats == <<groups, consumed>>
sorter == <<heap, outbuf, line>>
vars == <<core, asked, pc, walk, k, aggregates, printing, values, stats, sorter, accepted>>

-----------------------------------------------------------------------------
(* The rows of the tables                                                  *)

Row(g, h, s) == [group |-> g, host |-> h, service |-> s]
HostRow(g, h) == Row(g, h, NoObject)
ServiceRow(g, s) == Row(g, HostOf[s], s)
HostRows(g, hosts) == [n \in DOMAIN hosts |-> HostRow(g, hosts[n])]
ServiceRows(g, services) == [n \in DOMAIN services |-> ServiceRow(g, services[n])]

\* TableHosts::answerQuery(): the members of a group that the filters ask for, or
\* the whole list; by group, one group after the other.
HostLists(i) == <<HostRows(NoObject, IF i = <<>> THEN HostList ELSE Hostgroups[i[2]])>>
HostByGroupLists == Each(HostgroupList, LAMBDA g : HostRows(g, Hostgroups[g]))

\* TableServices::answerQuery(): the services of a host (of an unknown one there are
\* none) or of a service group, those of each host of a host group, or the whole
\* list.  A row that is refused ends the innermost list only.
ServiceLists(i) ==
    IF i = <<>> THEN <<ServiceRows(NoObject, ServiceList)>> ELSE
    CASE i[1] = "host_name"   -> IF i[2] \notin DOMAIN ServicesOf THEN <<>>
                                 ELSE <<ServiceRows(NoObject, ServicesOf[i[2]])>>
      [] i[1] = "groups"      -> <<ServiceRows(NoObject, Servicegroups[i[2]])>>
      [] i[1] = "host_groups" ->
            Each(Hostgroups[i[2]], LAMBDA h : ServiceRows(NoObject, ServicesOf[h]))
ServiceByGroupLists == Each(ServicegroupList, LAMBDA g : ServiceRows(g, Servicegroups[g]))
ServiceByHostgroupLists ==
    FlattenSeq(Each(HostgroupList, LAMBDA g :
        Each(Hostgroups[g], LAMBDA h : ServiceRows(g, ServicesOf[h]))))

HostgroupLists == <<Each(HostgroupList, LAMBDA g : Row(g, NoObject, NoObject))>>
ServicegroupLists == <<Each(ServicegroupList, LAMBDA g : Row(g, NoObject, NoObject))>>

RowLists(r) ==
    CASE r.table = "hosts"               -> HostLists(r.index)
      [] r.table = "hostsbygroup"        -> HostByGroupLists
      [] r.table = "services"            -> ServiceLists(r.index)
      [] r.table = "servicesbygroup"     -> ServiceByGroupLists
      [] r.table = "servicesbyhostgroup" -> ServiceByHostgroupLists
      [] r.table = "hostgroups"          -> HostgroupLists
      [] r.table = "servicegroups"       -> ServicegroupLists

\* Table::isAuthorized()
IsAuthorized(r) ==
    CASE request.table = "hostgroups"       -> SeesHostgroup(auth, query.user, r.group)
      [] request.table = "servicegroups"    -> SeesServicegroup(auth, query.user, r.group)
      [] request.table \in HostTables       -> SeesHost(query.user, r.host)
      [] request.table \in ServiceTables    -> SeesService(auth, query.user, r.service)

-----------------------------------------------------------------------------
(* Columns                                                                 *)

\* The list of services that a column is about.
ListOf(column, r) ==
    IF column.of = "host" THEN <<"host", r.host>> ELSE <<"servicegroup", r.group>>
Members(list) == IF list[1] = "host" THEN ServicesOf[list[2]] ELSE Servicegroups[list[2]]

KnowServices(known, list) ==
    Known(known, list, ServiceAggregates(auth, query.user, service, Members(list)))

\* What the query knows when it has the column's value.
Learnt(column, r) ==
    CASE column.kind = "services" -> KnowServices(aggregates, ListOf(column, r))
      [] column.kind = "hostgroup" /\ column.type \in HostTypes ->
            Known(aggregates, <<"hostgroup", r.group>>, HostAggregates(query.user, host, Hostgroups[r.group]))
      [] column.kind = "hostgroup" /\ column.type \in SoftTypes ->
            LET lists == {<<"host", h>> : h \in ToSet(SeenHosts(query.user, Hostgroups[r.group]))}
            IN Knowing(aggregates,
                       [list \in lists |-> ServiceAggregates(auth, query.user, service, Members(list))])
      [] OTHER -> aggregates

\* The groups of a host or a service, whoever asks: objectlists of the core.
GroupsOf(column, r) ==
    IF column.of = "host" THEN {g \in DOMAIN Hostgroups : r.host \in ToSet(Hostgroups[g])}
    ELSE {g \in DOMAIN Servicegroups : r.service \in ToSet(Servicegroups[g])}

StateOf(r) == IF r.service = NoObject THEN host[r.host].current ELSE service[r.service].current

\* What a column shows of a row.
ValueOf(column, r) ==
    LET known == Learnt(column, r) IN
    CASE column.kind = "name"     -> Rank[r]
      [] column.kind = "host"     -> r.host
      [] column.kind = "groups"   -> GroupsOf(column, r)
      [] column.kind = "state"    -> StateOf(r)
      [] column.kind = "perfdata" -> Perfdata[StateOf(r)]
      [] column.kind = "services" -> ServiceValue(known[ListOf(column, r)], column.type)
      [] column.kind = "hostgroup" /\ column.type \in HostTypes ->
            HostValue(known[<<"hostgroup", r.group>>], column.type)
      [] column.kind = "hostgroup" /\ column.type \notin HostTypes ->
            GroupValue(query.user, Hostgroups[r.group], column.type, known)
      [] column.kind = "hosts" -> SeenHosts(query.user, Hostgroups[r.group])
      [] column.kind = "list"  -> SeenServices(auth, query.user, Members(ListOf(column, r)))
      [] column.kind = "variables" -> Variables[r.host]

\* What a filter of the column looks at.  For a list it is all members, also those
\* that the user does not see: HostlistColumnFilter and ServicelistColumnFilter know
\* nothing of AuthUser.
FilterValue(column, r) ==
    CASE column.kind = "hosts" -> ToSet(Hostgroups[r.group])
      [] column.kind = "list"  -> ToSet(Members(ListOf(column, r)))
      [] OTHER                 -> ValueOf(column, r)

Item(format, parts) ==
    IF parts = 1 THEN Value ELSE Sublist(format, [n \in 1 .. parts |-> Value])

\* HostlistColumn, ServicelistColumn: the names that the user may see, or sublists
\* of a name and what is known of it; CustomVarsColumn: a dictionary.
HostlistText(column, r) ==
    List(query.format, Each(ValueOf(column, r), LAMBDA h : Item(query.format, column.parts)))
ServicelistText(column, r) ==
    List(query.format, Each(ValueOf(column, r), LAMBDA s : Item(query.format, column.parts)))
\* HostgroupsColumn, ServicegroupsColumn: the names of all groups.
GroupsText(column, r) ==
    List(query.format, Each(SetToSeq(ValueOf(column, r)), LAMBDA g : Value))
CustomVarsText(column, r) == Dict(query.format, ValueOf(column, r))

\* Column::output()
Text(column, r) ==
    CASE column.kind = "hosts"     -> HostlistText(column, r)
      [] column.kind = "list"      -> ServicelistText(column, r)
      [] column.kind = "groups"    -> GroupsText(column, r)
      [] column.kind = "variables" -> CustomVarsText(column, r)
      [] OTHER                     -> Value

-----------------------------------------------------------------------------
(* The core                                                                *)

Check ==
    /\ pc \notin {"headers", "refused", "done"} /\ changes < MaxChanges /\ changes' = changes + 1
    /\ \E c \in Changes :
        IF c.object \in DOMAIN host
        THEN host' = [host EXCEPT ![c.object] = c.state] /\ UNCHANGED service
        ELSE service' = [service EXCEPT ![c.object] = c.state] /\ UNCHANGED host
    /\ UNCHANGED <<asked, pc, walk, k, aggregates, printing, values, stats, sorter, accepted>>

-----------------------------------------------------------------------------
(* The query                                                               *)

DoStats == query.stats # <<>>
Grouped == DoStats /\ query.columns # <<>>
Fields == Len(query.columns) + Len(query.stats)

ReadHeaders ==
    /\ pc = "headers"
    /\ query' = Parsed(request.lines, AllColumns[request.table])
    /\ pc' = IF query'.error THEN "refused" ELSE "start"
    /\ UNCHANGED <<core, request, auth, walk, k, aggregates, printing, values, stats, sorter, accepted>>

CreateAggregators == [n \in DOMAIN query.stats |-> CreateAggregator(query.stats[n].kind)]
NoRows == <<>>
\* A map with an entry for a group that is new.
WithGroup(map, group, entry) ==
    [g \in DOMAIN map \cup {group} |-> IF g = group THEN entry ELSE map[g]]

\* start(): without group columns there is one row of aggregators.
Start ==
    /\ pc = "start" /\ pc' = "row"
    /\ todo' = RowLists(request)
    /\ output' = Header(query.format, query.headers, Fields)
    /\ need' = NeedsSeparator(query.format, query.headers)
    /\ IF DoStats /\ ~Grouped
       THEN /\ groups' = WithGroup(groups, <<>>, CreateAggregators)
            /\ consumed' = WithGroup(consumed, <<>>, NoRows)
            /\ line' = 1
       ELSE UNCHANGED <<stats, line>>
    /\ UNCHANGED <<core, asked, row, k, aggregates, values, shown, heap, outbuf, accepted>>

NextList ==
    /\ pc = "row" /\ todo # <<>> /\ Head(todo) = <<>>
    /\ todo' = Tail(todo)
    /\ UNCHANGED <<core, asked, pc, row, k, aggregates, printing, values, stats, sorter, accepted>>

NextRow ==
    /\ pc = "row" /\ todo # <<>> /\ Head(todo) # <<>>
    /\ row' = Head(Head(todo)) /\ todo' = [todo EXCEPT ![1] = Tail(@)]
    /\ pc' = "filter" /\ k' = 1
    /\ UNCHANGED <<core, asked, aggregates, printing, values, stats, sorter, accepted>>

\* _filter.accepts(): one filter after the other, until one does not.
Filter ==
    /\ pc = "filter" /\ k <= Len(query.filter)
    /\ LET f == query.filter[k] IN
        /\ aggregates' = Learnt(f.column, row)
        /\ IF FilterValue(f.column, row) \in f.accepts
           THEN k' = k + 1 /\ UNCHANGED pc ELSE pc' = "row" /\ UNCHANGED k
    /\ UNCHANGED <<core, asked, walk, printing, values, stats, sorter, accepted>>

Unauthorized ==
    /\ pc = "filter" /\ k > Len(query.filter) /\ ~IsAuthorized(row)
    /\ pc' = "row"
    /\ UNCHANGED <<core, asked, walk, k, aggregates, printing, values, stats, sorter, accepted>>

Accept(next) ==
    /\ pc = "filter" /\ k > Len(query.filter) /\ IsAuthorized(row)
    /\ pc' = next /\ k' = 1 /\ values' = <<>>
    /\ accepted' = Append(accepted, row)

CountRow ==
    /\ DoStats /\ Accept(IF Grouped THEN "group" ELSE "consume")
    /\ UNCHANGED <<core, asked, walk, aggregates, printing, stats, sorter>>

\* The order of the sorter: the columns of the header Sort, and then the natural
\* order.
SortKey(r) ==
    FoldLeft(LAMBDA key, c : key * 100 + (IF c.desc THEN 99 - ValueOf(c.column, r) ELSE ValueOf(c.column, r)),
             0, query.sort) * 100 + Rank[r]
InsertRow(r) == heap' = Insert(heap, [key |-> SortKey(r), row |-> r], query.limit + query.offset)

SortRow ==
    /\ ~DoStats /\ query.sort # <<>> /\ Accept("row")
    /\ line' = line + 1 /\ InsertRow(row)
    /\ UNCHANGED <<core, asked, walk, aggregates, printing, stats, outbuf>>

\* Behind the page: wrapped_json counts on, otherwise the list is left.
RefuseRow ==
    /\ ~DoStats /\ query.sort = <<>> /\ Accept("row")
    /\ query.limit >= 0 /\ line + 1 > query.offset + query.limit
    /\ line' = line + 1
    /\ todo' = IF query.format = "wrapped_json" THEN todo ELSE Tail(todo)
    /\ UNCHANGED <<core, asked, row, aggregates, printing, stats, heap, outbuf>>

PlainRow ==
    /\ ~DoStats /\ query.sort = <<>>
    /\ ~(query.limit >= 0 /\ line + 1 > query.offset + query.limit)
    /\ Accept(IF line + 1 <= query.offset THEN "row" ELSE "print")
    /\ line' = line + 1
    /\ UNCHANGED <<core, asked, walk, aggregates, printing, stats, heap, outbuf>>

Column == query.columns[k]

\* printRow(): one column after the other.
PrintColumn ==
    /\ pc = "print" /\ k <= Len(query.columns)
    /\ output' = output \o (IF k = 1 THEN DatasetBegin(query.format, need) ELSE FieldSeparator(query.format))
                        \o Text(Column, row)
    /\ values' = Append(values, ValueOf(Column, row)) /\ aggregates' = Learnt(Column, row)
    /\ k' = k + 1
    /\ UNCHANGED <<core, asked, pc, walk, need, shown, stats, sorter, accepted>>

Finishing == todo = <<>>

PrintEnd ==
    /\ pc = "print" /\ k > Len(query.columns)
    /\ output' = output \o DatasetEnd(query.format) /\ need' = TRUE
    /\ shown' = Append(shown, [row |-> row, values |-> values, results |-> <<>>])
    /\ pc' = IF Finishing THEN "output" ELSE "row"
    /\ UNCHANGED <<core, asked, walk, k, aggregates, values, stats, sorter, accepted>>

\* computeStatsGroupSpec(): while rows are processed, and once more for the first
\* row of each group at the end.
GroupColumn ==
    /\ pc \in {"group", "regroup"} /\ k <= Len(query.columns)
    /\ values' = Append(values, ValueOf(Column, row)) /\ aggregates' = Learnt(Column, row)
    /\ k' = k + 1
    /\ UNCHANGED <<core, asked, pc, walk, printing, stats, sorter, accepted>>

\* Mutant: a new group begins with its second row.
StatsGroupSkips ==
    /\ pc = "group" /\ k > Len(query.columns)
    /\ IF values \in DOMAIN groups
       THEN pc' = "consume" /\ UNCHANGED <<stats, heap, line>>
       ELSE /\ groups' = WithGroup(groups, values, CreateAggregators)
            /\ consumed' = WithGroup(consumed, values, NoRows)
            /\ line' = line + 1 /\ InsertRow(row) /\ pc' = "row"
    /\ k' = 1
    /\ UNCHANGED <<core, asked, walk, aggregates, printing, values, outbuf, accepted>>

\* getStatsGroup(): a new group is sorted by its first row.
StatsGroup ==
    /\ pc = "group" /\ k > Len(query.columns)
    /\ pc' = "consume" /\ k' = 1
    /\ IF values \in DOMAIN groups THEN UNCHANGED <<stats, heap, line>>
       ELSE /\ groups' = WithGroup(groups, values, CreateAggregators)
            /\ consumed' = WithGroup(consumed, values, NoRows)
            /\ line' = line + 1 /\ InsertRow(row)
    /\ UNCHANGED <<core, asked, walk, aggregates, printing, values, outbuf, accepted>>

StatsValue(s) ==
    CASE s.kind = "filter" -> FilterValue(s.column, row) \in s.accepts
      [] s.kind = "other"  -> 0
      [] OTHER             -> ValueOf(s.column, row)

\* aggr[i]->consume(), one aggregator after the other.
ConsumeColumn ==
    /\ pc = "consume" /\ k <= Len(query.stats)
    /\ LET s == query.stats[k]
           value == StatsValue(s)
       IN
        /\ groups' = [groups EXCEPT ![values][k] = ConsumeValue(s.kind, s.op, @, value)]
        /\ consumed' = [consumed EXCEPT ![values] = Append(@, [row |-> row, column |-> k, value |-> value])]
        /\ aggregates' = IF s.kind = "other" THEN aggregates ELSE Learnt(s.column, row)
    /\ k' = k + 1
    /\ UNCHANGED <<core, asked, pc, walk, printing, values, sorter, accepted>>

ConsumeEnd ==
    /\ pc = "consume" /\ k > Len(query.stats)
    /\ pc' = "row"
    /\ UNCHANGED <<core, asked, walk, k, aggregates, printing, values, stats, sorter, accepted>>

-----------------------------------------------------------------------------
(* finish()                                                                *)

\* The rows that are extracted, the largest first; -1 stands for all.
Extracted ==
    LET sum == query.limit + query.offset
        elems == IF sum <= Len(heap) THEN query.limit
                 ELSE IF Len(heap) > query.offset THEN Len(heap) - query.offset ELSE 0
        without[n \in 0 .. Len(heap)] == IF n = 0 THEN heap ELSE Extract(without[n - 1])
        rows == [n \in DOMAIN heap |-> Largest(without[n - 1])]
    IN  IF elems < 0 THEN rows ELSE SubSeq(rows, 1, elems)

Finish ==
    /\ pc = "row" /\ Finishing
    /\ outbuf' = Extracted /\ heap' = <<>> /\ pc' = "output"
    /\ UNCHANGED <<core, asked, walk, k, aggregates, printing, values, stats, line, accepted>>

\* The rows of outbuf, in reverse.
OutputNext ==
    /\ pc = "output" /\ outbuf # <<>>
    /\ row' = Last(outbuf).row /\ outbuf' = Front(outbuf)
    /\ k' = 1 /\ values' = <<>>
    /\ pc' = IF Grouped THEN "regroup" ELSE "print"
    /\ UNCHANGED <<core, asked, todo, aggregates, printing, stats, heap, line, accepted>>

Results(group) ==
    Each([n \in DOMAIN query.stats |-> n],
           LAMBDA n : Result(query.stats[n].kind, query.stats[n].op, groups'[group][n]))

\* The values of a group, of the group that the row is in now.
Output(group, r) ==
    /\ output' = output \o Dataset(query.format, need, [n \in 1 .. Len(group) + Len(query.stats) |-> Value])
    /\ need' = TRUE
    /\ shown' = Append(shown, [row |-> r, values |-> group, results |-> Results(group)])

OutputGroup ==
    /\ pc = "regroup" /\ k > Len(query.columns)
    /\ IF values \in DOMAIN groups THEN UNCHANGED stats
       ELSE /\ groups' = WithGroup(groups, values, CreateAggregators)
            /\ consumed' = WithGroup(consumed, values, NoRows)
    /\ Output(values, row) /\ pc' = "output"
    /\ UNCHANGED <<core, asked, walk, k, aggregates, values, sorter, accepted>>

OutputEnd ==
    /\ pc = "output" /\ outbuf = <<>> /\ pc' = "trailer"
    /\ UNCHANGED stats
    /\ IF DoStats /\ ~Grouped THEN Output(<<>>, NoObject) ELSE UNCHANGED printing
    /\ UNCHANGED <<core, asked, walk, k, aggregates, values, sorter, accepted>>

PrintTrailer ==
    /\ pc = "trailer" /\ pc' = "done"
    /\ output' = output \o Trailer(query.format)
    /\ UNCHANGED <<core, asked, walk, k, aggregates, need, shown, values, stats, sorter, accepted>>

Done == pc \in {"done", "refused"} /\ UNCHANGED vars

Init ==
    /\ \E b \in Beginnings : host = b.host /\ service = b.service
    /\ changes = 0 /\ request \in Requests /\ auth \in Auths /\ query = Defaults
    /\ pc = "headers" /\ todo = <<>> /\ row = NoObject /\ k = 1 /\ aggregates = <<>>
    /\ need = FALSE /\ output = <<>> /\ values = <<>> /\ groups = <<>>
    /\ heap = <<>> /\ outbuf = <<>> /\ line = 0
    /\ shown = <<>> /\ accepted = <<>> /\ consumed = <<>>

Next ==
    \/ Check \/ ReadHeaders \/ Start \/ NextList \/ NextRow \/ Filter \/ Unauthorized
    \/ CountRow \/ SortRow \/ RefuseRow \/ PlainRow \/ PrintColumn \/ PrintEnd
    \/ GroupColumn \/ StatsGroup \/ ConsumeColumn \/ ConsumeEnd
    \/ Finish \/ OutputNext \/ OutputGroup \/ OutputEnd \/ PrintTrailer \/ Done

Spec == Init /\ [][Next]_vars

-----------------------------------------------------------------------------
(* Properties                                                              *)

\* A column's type is one of the counts, and which others it is the sum of.
Total(c) == c.kind \in {"services", "hostgroup"} /\ c.type \in {SLSC_NUM, HLSC_NUM_HST}
Summands(c) ==
    {[c EXCEPT !.type = t] :
        t \in IF c.type = SLSC_NUM THEN 0 .. SLSC_NUM_PENDING
              ELSE HLSC_NUM_HST_UP .. HLSC_NUM_HST_PENDING}

\* The columns of a row that are computed from one list fit together although
\* the core goes on: the services of a host or a group (or the hosts of a group)
\* are as many as those in each state and the pending ones, and a row that was
\* filtered by such a column shows a value that passes the filter
\* (Query::serviceAggregates, "computed once", Query.cc:1123).
ColumnsAgree ==
    \A n \in DOMAIN shown : ~DoStats =>
        LET cells == {<<query.columns[m], shown[n].values[m]>> : m \in DOMAIN query.columns}
            shownAs(c) == {cell \in cells : cell[1] = c}
        IN
        /\ \A cell \in cells :
            Total(cell[1]) /\ (\A c \in Summands(cell[1]) : shownAs(c) # {}) =>
                cell[2] = MapThenSumSet(LAMBDA c : (CHOOSE d \in shownAs(c) : TRUE)[2], Summands(cell[1]))
        /\ \A m \in DOMAIN query.filter :
            LET f == query.filter[m] IN
            f.column.kind \in {"services", "hostgroup"} =>
                \A cell \in shownAs(f.column) : cell[2] \in f.accepts

\* What a contact may see: its own services; those of its hosts unless the
\* authorization is strict; a group with a visible member, or with nothing else.
MaySee(s) ==
    \/ query.user = NoUser \/ query.user \in ServiceContacts[s]
    \/ auth.service # "strict" /\ query.user \in HostContacts[HostOf[s]]
VisibleServices(list) == {s \in ToSet(Members(list)) : MaySee(s)}
VisibleHosts(g) ==
    {h \in ToSet(Hostgroups[g]) : query.user = NoUser \/ query.user \in HostContacts[h]}
MaySeeMembers(visible, members) ==
    \/ query.user = NoUser
    \/ visible # {} /\ (auth.group = "strict" => visible = members)
MaySeeRow(r) ==
    IF r.host = NoObject
    THEN IF r.group \in DOMAIN Hostgroups
         THEN MaySeeMembers(VisibleHosts(r.group), ToSet(Hostgroups[r.group]))
         ELSE MaySeeMembers(VisibleServices(<<"servicegroup", r.group>>), ToSet(Servicegroups[r.group]))
    ELSE IF r.service = NoObject
         THEN query.user = NoUser \/ query.user \in HostContacts[r.host] ELSE MaySee(r.service)

\* What a value of a column tells: no member that must not be seen, and no more of
\* them than the number of those that may.
TellsOnlyVisible(c, r, value) ==
    /\ c.kind = "hosts" => ToSet(value) = VisibleHosts(r.group)
    /\ c.kind = "list" => ToSet(value) = VisibleServices(ListOf(c, r))
    /\ c.kind = "services" =>
        LET number == Cardinality(VisibleServices(ListOf(c, r))) IN
        /\ c.type = SLSC_NUM => value = number
        /\ c.type \in 0 .. SLSC_NUM_PENDING => value <= number
        /\ number = 0 => value = 0
    /\ c.kind = "hostgroup" =>
        LET number == Cardinality(VisibleHosts(r.group)) IN
        /\ c.type = HLSC_NUM_HST => value = number
        /\ number = 0 => value = 0

\* So does a value that an aggregator took from a row.
CountsOnlyVisible(entry) ==
    LET s == query.stats[entry.column] IN
    s.kind \notin {"filter", "other"} => TellsOnlyVisible(s.column, entry.row, entry.value)

\* The objects of the rows that are shown or counted are some that the contact may
\* see, the lists of members that are printed are those of them that it may see, and
\* the numbers and the worst state of a list, printed, grouped by or taken by an
\* aggregator, tell of no others (AuthUser of Query.cc:532 and auth.cc).  It is not
\* claimed of the names of groups, which the columns of an object's groups and the
\* rows of the tables by group print without authorization, nor of filters: those of
\* a list look at all members, so that the presence of a row, or a number of rows,
\* does tell of members that are not seen.
OnlyVisible ==
    /\ \A n \in DOMAIN accepted : MaySeeRow(accepted[n])
    /\ \A n \in DOMAIN shown, m \in DOMAIN query.columns :
        TellsOnlyVisible(query.columns[m], shown[n].row, shown[n].values[m])
    /\ \A g \in DOMAIN consumed : \A n \in DOMAIN consumed[g] : CountsOnlyVisible(consumed[g][n])

\* Columns and filters of the configuration.
Fixed(c) == c.kind \in {"name", "host", "groups", "hosts", "list"}

\* The query goes through its table to the end.
Unlimited == query.limit < 0 \/ DoStats \/ query.sort # <<>> \/ query.format = "wrapped_json"

\* The rows that a query of configuration is about: those of the whole table that
\* pass the filters and that its user may see.
Meant ==
    {r \in ToSet(FlattenSeq(RowLists([request EXCEPT !.index = <<>>]))) :
        MaySeeRow(r) /\ \A m \in DOMAIN query.filter :
            FilterValue(query.filter[m].column, r) \in query.filter[m].accepts}

\* No row is lost or comes twice, whatever index the walk goes along and however
\* groups form: a query counts exactly the rows that are meant, and each of them
\* is consumed once by each aggregator, that of its own group.
RowsComplete ==
    pc = "done" /\ Unlimited =>
        /\ (\A m \in DOMAIN query.filter : Fixed(query.filter[m].column)) =>
            ToSet(accepted) = Meant /\ Len(accepted) = Cardinality(Meant)
        /\ DoStats => \A n \in DOMAIN accepted, m \in DOMAIN query.stats :
            LET uses == {use \in UNION {{<<g, j>> : j \in DOMAIN consumed[g]} : g \in DOMAIN consumed} :
                            LET entry == consumed[use[1]][use[2]] IN
                            entry.row = accepted[n] /\ entry.column = m}
            IN
            /\ Cardinality(uses) = 1
            /\ (\A j \in DOMAIN query.columns : Fixed(query.columns[j])) =>
                \A use \in uses :
                    use[1] = [j \in DOMAIN query.columns |-> ValueOf(query.columns[j], accepted[n])]

SumOf(v) == FoldLeft(LAMBDA sum, n : sum + n, 0, v)
Squares(v) ==
    MapThenSumSet(LAMBDA p : (v[p[1]] - v[p[2]]) * (v[p[1]] - v[p[2]]),
                  {p \in (DOMAIN v) \X (DOMAIN v) : p[1] < p[2]})

\* What an operation is over all values at once.  The standard deviation is that
\* of a sample, by the differences between any two values.
Exact(kind, op, v) ==
    LET size == Len(v) IN
    CASE op = "sum"    -> <<SumOf(v), 1>>
      [] op = "min"    -> <<IF v = <<>> THEN 0 ELSE CHOOSE n \in ToSet(v) : \A m \in ToSet(v) : n <= m, 1>>
      [] op = "max"    -> <<IF v = <<>> THEN 0 ELSE CHOOSE n \in ToSet(v) : \A m \in ToSet(v) : n >= m, 1>>
      [] op = "avg"    -> IF v = <<>> /\ kind = "double" THEN <<0, 1>> ELSE <<SumOf(v), size>>
      [] op = "std"    -> IF size <= 1 THEN <<0, 1>> ELSE <<Squares(v), size * (size - 1)>>
      [] op = "suminv" -> LET sum == SumOf(Each(v, InverseOf)) IN
                          IF kind = "int" THEN <<sum \div One, 1>> ELSE <<sum, One>>
      [] op = "avginv" -> LET sum == SumOf(Each(v, InverseOf)) IN
                          IF size = 0 THEN IF kind = "int" THEN <<0, 0>> ELSE <<0, 1>>
                          ELSE IF kind = "int" THEN <<sum \div (One * size), 1>>
                          ELSE <<sum, One * size>>

\* The results that are shown are those over the values of the rows of the group,
\* in whatever order they were consumed and however the core changed them since.
StatsExact ==
    \A n \in DOMAIN shown : DoStats => \A m \in DOMAIN query.stats :
        LET kind == query.stats[m].kind
            op == query.stats[m].op
            entries == SelectSeq(consumed[shown[n].values], LAMBDA e : e.column = m)
            v == Each(entries, LAMBDA e : e.value)
            all == SelectSeq(FlattenSeq(v), LAMBDA e : e # <<>>)
            result == shown[n].results[m]
        IN
        CASE kind \in {"int", "double"} -> result = Exact(kind, op, v)
          [] kind = "filter" -> result = <<Len(SelectSeq(v, LAMBDA b : b)), 1>>
          [] kind = "other"  -> result = <<Len(v), 1>>
          [] kind = "perfdata" ->
                result = [x \in {all[j][1] : j \in DOMAIN all} |->
                            LET ofVariable == SelectSeq(all, LAMBDA e : e[1] = x) IN
                            Exact(kind, op, Each(ofVariable, LAMBDA e : e[2]))]

Opening == {"[", "{"}
Closing == {"]", "}"}
Closes(a, b) == <<a, b>> \in {<<"[", "]">>, <<"{", "}">>}
Adjacent(a, b) ==
    IF a \in Opening \cup {",", ":"} THEN b \in Opening \cup {"value"} \/ Closes(a, b)
    ELSE b \in Closing \cup {",", ":"}

\* The brackets that are open after the text, innermost last; <<"error">> when one
\* was closed that was not the innermost.
StillOpen(text) ==
    FoldLeft(LAMBDA open, token :
                CASE token \in Opening -> Append(open, token)
                  [] token \in Closing -> IF open # <<>> /\ Closes(Last(open), token)
                                          THEN Front(open) ELSE <<"error">>
                  [] OTHER -> open,
             <<>>, text)

\* An answer can be parsed: JSON is one value whose brackets match and whose items
\* have one separator between them; each row of CSV has all of its fields.  What is
\* printed for a single value counts as one, also the "nan" of an average over no
\* rows, which JSON does not have.
WellFormed ==
    pc = "done" =>
        IF query.format = "csv"
        THEN LET number(token) == Len(SelectSeq(output, LAMBDA t : t = token)) IN
             /\ number("field") = number("dataset") * (Fields - 1)
             /\ output # <<>> => Last(output) = "dataset"
        ELSE /\ Head(output) \in Opening /\ StillOpen(output) = <<>>
             /\ \A n \in 1 .. Len(output) - 1 :
                Adjacent(output[n], output[n + 1]) /\ StillOpen(SubSeq(output, 1, n)) # <<>>

\* The bytes of a character, and the character of what is written.
Utf8(code) ==
    CASE code < 128             -> <<code>>
      [] code \in 128 .. 2047    -> <<192 + (code \div 64), 128 + (code % 64)>>
      [] OTHER                  -> <<224 + (code \div 4096), 128 + ((code \div 64) % 64), 128 + (code % 64)>>

\* Any text of characters up to U+FFFF comes out of JSON as the same text: control
\* characters, quotes, and sequences of two and three bytes at the edges of what
\* they can say (Query::outputString, Query.cc:1314).
StringsDecode ==
    pc = "headers" /\ changes = 0 /\ request = (CHOOSE r \in Requests : TRUE) =>
        LET codes == {1, 31, 32, 34, 92, 127, 128, 233, 2047, 2048, 8364, 40959, 65535} IN
        \A text \in UNION {[1 .. n -> codes] : n \in 0 .. 2} :
            Each(String("utf8", FlattenSeq(Each(text, Utf8))), LAMBDA c : c[2]) = text
=============================================================================
