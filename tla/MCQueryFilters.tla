---------------------------- MODULE MCQueryFilters ----------------------------
(* Four messages, whose columns are of every kind; filters of time and class  *)
(* in all combinations of four headers, and some of the other columns.         *)
EXTENDS QueryFilters, TLC

\* External: 1 and 2 are the same string but for their case.
MCLower == (0 :> 0) @@ (1 :> 1) @@ (2 :> 1) @@ (3 :> 3)
MCMatching == (FALSE :> ((1 :> {1}) @@ (3 :> {1, 3}))) @@ (TRUE :> ((1 :> {1, 2}) @@ (3 :> {1, 2, 3})))

MCHidden == {2}

MCKind == [class |-> "int", time |-> "time", load |-> "double", seen |-> "timeval", host |-> "string",
           groups |-> "list", members |-> "hosts", masters |-> "masters", services |-> "services",
           descriptions |-> "descriptions", dependencies |-> "dependencies",
           modified |-> "attributes", custom |-> "dict", names |-> "names", values |-> "values"]

Row(class, time, host, groups) ==
    LET services == {<<host, g>> : g \in groups} IN
    [class |-> class, time |-> time, load |-> time - class, seen |-> <<time, class>>, host |-> host,
     groups |-> groups, members |-> groups, masters |-> {[master |-> g] : g \in groups},
     services |-> services, descriptions |-> services,
     dependencies |-> {[master |-> s] : s \in services},
     modified |-> {b \in {0, 1} : b < class},
     custom |-> [v \in groups |-> host], names |-> [v \in groups |-> host],
     values |-> [v \in groups |-> host]]

MCRows == {"a", "b", "c", "d"}
MCValue == [a |-> Row(0, 0, 1, {}), b |-> Row(1, 1, 2, {1}), c |-> Row(2, 2, 3, {2}),
            d |-> Row(0, 2, 1, {1, 2})]

Column(column, not, sign, ref) ==
    [stack |-> "filter", does |-> "column", column |-> column, not |-> not, sign |-> sign, ref |-> ref]
Line(s, does) == [stack |-> s, does |-> does]
Of(s, does, count) == [stack |-> s, does |-> does, count |-> count]

Refs(kind) ==
    CASE kind = "int" -> {-1, 0, 1, 2, 3, 7} [] kind = "time" -> 0 .. 2
      [] kind = "timeval" -> {<<1, 0>>, <<1, 1>>} [] kind = "string" -> {1, 3}
      [] kind = "attributes" -> SUBSET {0, 1}
      [] kind = "dict" -> {<<1, 1>>, <<2, 3>>}
      [] kind \in {"services", "dependencies"} -> {<<0, 0>>, <<2, 1>>, <<3, 2>>, <<1, 1>>, <<1>>}
      [] kind = "descriptions" -> {<<0>>, <<1>>, <<2>>} [] OTHER -> {0, 1, 2, 3}
MCSamples == UNION {{Column(c, not, sign, ref) : not \in BOOLEAN, sign \in Signs \ {"?"},
                                                      ref \in Refs(MCKind[c])} : c \in DOMAIN MCKind}

MCHeaders ==
    {Column("class", FALSE, "=", 1), Column("class", TRUE, "=", 0), Column("class", FALSE, ">=", 2),
     Column("class", FALSE, "~", 1), Column("time", FALSE, "<", 2), Column("time", FALSE, ">=", 1),
     Column("time", FALSE, "<=", 1), Column("time", TRUE, "=", 2), Column("host", FALSE, "=", 1),
     Column("groups", FALSE, ">=", 1), Column("nothing", FALSE, "=", 1),
     Column("host", FALSE, "~", 2), Column("class", FALSE, "?", 1)}
 \cup {Of("filter", does, 2) : does \in {"And", "Or"}} \cup {Of("filter", "Or", 0), Line("filter", "Negate")}
 \cup {[Column("class", FALSE, "=", 1) EXCEPT !.stack = s] : s \in {"wait", "stats"}}
 \cup {Of("stats", "Or", 2), Of("wait", "And", 2), Line("stats", "aggregate"),
       Line("stats", "Negate"), Line("filter", "invalid")}
 \cup {[does |-> "Localtime", offset |-> n] : n \in {-1, 1}}
=============================================================================
