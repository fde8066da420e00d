------------------------------- MODULE MCAnswer -------------------------------
(***************************************************************************)
(* Two hosts with three services, in two host groups that share a host, an *)
(* empty one, and two service groups.  The requests go through every table *)
(* and index, with columns that count states, limits, sorting, grouped and *)
(* ungrouped statistics, every format, and users who see all, a part or    *)
(* nothing of it.                                                          *)
(***************************************************************************)
EXTENDS Answer

Hosts == {"h1", "h2"}
Services == {"s1", "s2", "s3"}
MCHostOf == [s \in Services |-> IF s = "s3" THEN "h2" ELSE "h1"]
MCServicesOf == [h \in Hosts |-> IF h = "h1" THEN <<"s1", "s2">> ELSE <<"s3">>]
MCHostContacts == [h \in Hosts |-> IF h = "h1" THEN {"ann"} ELSE {"bob"}]
MCServiceContacts == [s \in Services |-> IF s = "s2" THEN {"bob"} ELSE {}]
MCHostgroups == [g \in {"g1", "g2", "g3"} |->
    CASE g = "g1" -> <<"h1", "h2">> [] g = "g2" -> <<"h1">> [] g = "g3" -> <<>>]
MCServicegroups == [g \in {"sg1", "sg2"} |-> IF g = "sg1" THEN <<"s1", "s3">> ELSE <<"s2">>]
MCHostList == <<"h1", "h2">>
MCServiceList == <<"s1", "s2", "s3">>
MCHostgroupList == <<"g1", "g2", "g3">>
MCServicegroupList == <<"sg1", "sg2">>
MCContacts == {"ann", "bob"}

\* Services of two hosts may have the same description.
Number(r) ==
    CASE r.service = "s2" -> 2
      [] r.service \in {"s1", "s3"} -> 3
      [] r.host = "h1" -> 2 [] r.host = "h2" -> 1
      [] r.group \in {"g1", "sg1"} -> 1 [] r.group \in {"g2", "sg2"} -> 2 [] OTHER -> 3
MCRank == [r \in [group : {NoObject} \cup DOMAIN MCHostgroups \cup DOMAIN MCServicegroups,
                  host : {NoObject} \cup Hosts, service : {NoObject} \cup Services] |-> Number(r)]

MCPerfdata == [n \in 0 .. 3 |->
    CASE n = 0 -> <<<<"time", 1>>>>
      [] n = 1 -> <<<<"time", 4>>, <<"size", 3>>>>
      [] n = 2 -> <<<<>>, <<"time", 2>>>>
      [] n = 3 -> <<>>]
MCVariables == [h \in Hosts |-> IF h = "h1" THEN 2 ELSE 0]

Checked(n) == [checked |-> TRUE, current |-> n, hard |-> n]
MCBeginnings ==
    {[host |-> [h \in Hosts |-> [checked |-> h = "h1", current |-> 0]],
      service |-> [s \in Services |->
        CASE s = "s1" -> Checked(0) [] s = "s2" -> Checked(1)
          [] s = "s3" -> [checked |-> FALSE, current |-> 0, hard |-> 0]]]}
MCChanges ==
    {[object |-> "s1", state |-> [checked |-> TRUE, current |-> 2, hard |-> 0]],
     [object |-> "s3", state |-> Checked(1)],
     [object |-> "h2", state |-> [checked |-> TRUE, current |-> 1]]}

Col(kind, of, type) == [kind |-> kind, of |-> of, type |-> type, parts |-> 1]
Sub(kind, of, parts) == [kind |-> kind, of |-> of, type |-> 0, parts |-> parts]
Name == Col("name", "", 0)
State == Col("state", "", 0)
States(kind, of) == [n \in 1 .. 7 |-> Col(kind, of, n - 3)]
HostCounts == [n \in 1 .. 6 |-> Col("hostgroup", "", <<-12, -11, 10, 11, 12, 13>>[n])]
MCAllColumns == [t \in {"hosts", "hostsbygroup", "services", "servicesbygroup",
                        "servicesbyhostgroup", "hostgroups", "servicegroups"} |->
    CASE t \in {"hosts", "hostsbygroup"} -> <<Name, Col("variables", "", 0)>> \o States("services", "host")
      [] t = "hostgroups" -> <<Name, Sub("hosts", "", 3), Col("hostgroup", "", 64)>> \o HostCounts
      [] t = "servicegroups" -> <<Sub("list", "servicegroup", 2)>> \o States("services", "servicegroup")
      [] OTHER -> <<Name, State>>]

Line(does, value) == [does |-> does, value |-> value, valid |-> TRUE]
Set(sets, value) == [does |-> "set", sets |-> sets, value |-> value, valid |-> TRUE]
Wait(sets, value) == [does |-> "wait", sets |-> sets, value |-> value, valid |-> TRUE]
Where(column, accepts) == Line("Filter", [column |-> column, accepts |-> accepts])
Stat(kind, op, column) == Line("Stats", [kind |-> kind, op |-> op, column |-> column, accepts |-> {2}])
Format(f) == Set("format", f)
User(u) == Line("AuthUser", u)
By(desc) == Line("Sort", [column |-> Name, desc |-> desc])
HostState == States("services", "host")
InGroup(g) == {s \in SUBSET (DOMAIN MCHostgroups \cup DOMAIN MCServicegroups) : g \in s}
WithMember(m) == {s \in SUBSET (Hosts \cup Services) : m \in s}
Tally(column, accepts) ==
    Line("Stats", [kind |-> "filter", op |-> "", column |-> column, accepts |-> accepts])
Get(table, index, lines) == [table |-> table, index |-> index, lines |-> lines]

MCRequests == {
    Get("hosts", <<>>, <<User("ann")>>),
    Get("hosts", <<"groups", "g1">>,
        <<Format("json"), Where(Col("groups", "host", 0), InGroup("g1")), Where(HostState[5], {1, 2}),
          Line("Columns", HostState)>>),
    Get("hosts", <<>>, <<Format("python"), Set("headers", FALSE), By(FALSE), Set("limit", 1),
                         Line("Columns", <<Name, Sub("list", "host", 3)>>)>>),
    Get("hostsbygroup", <<>>, <<Format("json"), Set("limit", 1), Set("offset", 1),
                                Line("Columns", <<Name, HostState[2]>>)>>),
    Get("services", <<"host_name", "h1">>,
        <<Format("wrapped_json"), Set("limit", 1), Where(Col("host", "", 0), {"h1"})>>),
    Get("services", <<"host_name", "unknown">>, <<Where(Col("host", "", 0), {"unknown"})>>),
    Get("services", <<"groups", "sg1">>,
        <<Where(Col("groups", "service", 0), InGroup("sg1")), User("ann"), Stat("other", "count", Name),
          Stat("int", "min", Name)>>),
    Get("services", <<"host_groups", "g1">>,
        <<Where(Col("groups", "host", 0), InGroup("g1")), User("bob"), Stat("int", "sum", State)>>),
    Get("servicesbygroup", <<>>,
        <<Format("json"), Line("Columns", <<State>>), Stat("int", "max", State), Stat("filter", "", State)>>),
    Get("servicesbyhostgroup", <<>>,
        <<Line("Columns", <<Name>>), Set("limit", 1), Stat("int", "min", Name), Stat("int", "std", State)>>),
    Get("services", <<>>,
        <<Format("json"), Stat("perfdata", "sum", Col("perfdata", "", 0)),
          Stat("perfdata", "std", Col("perfdata", "", 0)), Stat("int", "suminv", Name),
          Stat("double", "avginv", Name), Stat("int", "avg", HostState[3])>>),
    Get("hostgroups", <<>>, <<User("ann"), Format("wrapped_json"), Set("headers", TRUE)>>),
    Get("hostgroups", <<>>, <<User("bob"), Format("json"), Line("Columns", States("hostgroup", ""))>>),
    Get("servicegroups", <<>>, <<User("bob"), Format("json")>>),
    Get("servicegroups", <<>>, <<User("eve"), Stat("double", "avg", Name), Stat("double", "std", Name)>>),
    Get("services", <<>>, <<Set("limit", 1), [does |-> "set", sets |-> "limit", value |-> -1, valid |-> FALSE]>>),
    Get("services", <<>>, <<Line("undefined", 0)>>),
    Get("hostgroups", <<>>,
        <<User("ann"), Where(Sub("hosts", "", 1), WithMember("h2")), Format("json"),
          Line("Columns", <<Name, Sub("hosts", "", 1)>>)>>),
    Get("servicegroups", <<>>,
        <<User("bob"), Tally(Sub("list", "servicegroup", 1), WithMember("s1"))>>),
    Get("hostsbygroup", <<>>,
        <<User("bob"), Where(Sub("list", "host", 1), {{}, {"s3"}}), Format("json"),
          Line("Columns", <<Col("groups", "host", 0), Sub("list", "host", 1)>>)>>),
    Get("services", <<>>,
        <<User("bob"), Line("Columns", <<Col("groups", "service", 0)>>),
          Tally(Col("groups", "host", 0), InGroup("g2"))>>),
    Get("services", <<>>,
        <<Wait("timeout", 0), Line("Separators", "own"), Line("Localtime", -1000), By(TRUE), Set("limit", 2),
          Format("json")>>)}
=============================================================================
