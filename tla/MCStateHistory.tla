---------------------------- MODULE MCStateHistory ----------------------------
(* A host with two services, one of which the query does not ask for, and the *)
(* lines that Naemon writes about them.                                       *)
EXTENDS StateHistory

\* External: how the core names states and commands, by their last letters.
MCEnding ==
    ("UP" :> "P") @@ ("DOWN" :> "N") @@ ("UNREACHABLE" :> "E") @@ ("OK" :> "K")
 @@ ("WARNING" :> "G") @@ ("CRITICAL" :> "L") @@ ("UNKNOWN" :> "N") @@ ("CUSTOM (UP)" :> "P")
 @@ ("DOWNTIMESTOPPED (OK)" :> "K") @@ ("check-mk-notify" :> "y") @@ ("STARTED" :> "D")
 @@ ("STOPPED" :> "D") @@ ("HARD" :> "D") @@ ("1" :> "1") @@ ("2" :> "2") @@ ("host" :> "t")
 @@ ("here" :> "e") @@ ("there" :> "e") @@ ("admin" :> "n") @@ ("" :> "")

MCMentions ==
    ("SCHEDULE_HOST_CHECK" :> {"_HOST"}) @@ ("ADD_SVC_COMMENT" :> {"_SVC"})
 @@ ("ENABLE_HOSTGROUP_HOST_CHECKS" :> {"_HOST", "_HOSTGROUP"}) @@ ("SHUTDOWN_PROGRAM" :> {})

MCHostOf == [s \in Services |-> "host"]
MCPeriodOf == [notification |-> ("host" :> "work") @@ ("here" :> "") @@ ("there" :> ""),
               service |-> ("host" :> "") @@ ("here" :> "work") @@ ("there" :> "")]

Says(text, fields, says) == [line |-> [text |-> text, fields |-> fields], says |-> says]

HostLine(text, type, name, state) ==
    Says(text, <<"host", name, "HARD", "1", "">>,
         [type |-> type, host |-> "host", svc |-> Null, state |-> state, stateType |-> "HARD"])
ServiceLine(text, type, name, state) ==
    Says(text, <<"host", "here", name, "HARD", "1", "">>,
         [type |-> type, host |-> "host", svc |-> "here", state |-> state, stateType |-> "HARD"])

StateLines ==
    {HostLine("HOST ALERT", "ALERT_HOST", "UP", 0), HostLine("HOST ALERT", "ALERT_HOST", "DOWN", 1),
     HostLine("CURRENT HOST STATE", "STATE_HOST", "UNREACHABLE", 2),
     HostLine("INITIAL HOST STATE", "STATE_HOST_INITIAL", "DOWN", 1),
     ServiceLine("SERVICE ALERT", "ALERT_SERVICE", "OK", 0),
     ServiceLine("SERVICE ALERT", "ALERT_SERVICE", "WARNING", 1),
     ServiceLine("CURRENT SERVICE STATE", "STATE_SERVICE", "CRITICAL", 2),
     ServiceLine("INITIAL SERVICE STATE", "STATE_SERVICE_INITIAL", "UNKNOWN", 3)}

OtherLines ==
    {Says(what \o " ALERT", object \o <<active>>, [host |-> "host", class |-> "alert", stateType |-> active]) :
        what \in {"HOST DOWNTIME", "HOST FLAPPING"}, object \in {<<"host">>}, active \in {"STARTED", "STOPPED"}}
 \cup
    {Says(what \o " ALERT", object \o <<active>>, [svc |-> "here", class |-> "alert", stateType |-> active]) :
        what \in {"SERVICE DOWNTIME", "SERVICE FLAPPING"}, object \in {<<"host", "here">>},
        active \in {"STARTED", "STOPPED"}}
 \cup
    {Says("SERVICE ALERT", <<"host", "there", "OK">>, [svc |-> "there", state |-> 0]),
     Says("logging initial states", <<>>, [type |-> "LOG_INITIAL_STATES", class |-> "program"]),
     Says("SERVICE ACKNOWLEDGE ALERT", <<"host", "here", "STARTED", "admin">>, [contact |-> "admin"])}

\* "CUSTOM and DOWNTIME notifications have a different column order" (LogEntry.cc:262).
UnreadLines ==
    {Says("HOST NOTIFICATION", <<"admin", "host", state, "check-mk-notify", "">>,
          [command |-> "check-mk-notify", stateType |-> state, class |-> "notification"]) :
        state \in {"DOWN", "CUSTOM (UP)"}}
 \cup
    {Says("SERVICE NOTIFICATION", <<"admin", "host", "here", "check-mk-notify", "DOWNTIMESTOPPED (OK)">>,
          [command |-> "check-mk-notify", stateType |-> "DOWNTIMESTOPPED (OK)", state |-> 0, svc |-> "here"]),
     Says("PASSIVE SERVICE CHECK", <<"host", "here", "2", "">>, [state |-> 2, svc |-> "here"]),
     Says("HOST NOTE", <<"host">>, [host |-> "host", class |-> "info"]),
     Says("EXTERNAL COMMAND", <<"SCHEDULE_HOST_CHECK", "host">>, [host |-> "host", svc |-> Null]),
     Says("EXTERNAL COMMAND", <<"ADD_SVC_COMMENT", "host", "here">>, [host |-> "host", svc |-> "here"]),
     Says("EXTERNAL COMMAND", <<"ENABLE_HOSTGROUP_HOST_CHECKS", "here">>, [host |-> Null, svc |-> Null]),
     Says("shutting down...", <<>>, [class |-> "program", type |-> "CORE_STOPPING"])}

MCSamples == StateLines \cup OtherLines \cup UnreadLines

\* Of each kind of line that the query tells apart.
MCLines ==
    {HostLine("HOST ALERT", "ALERT_HOST", "UP", 0), HostLine("HOST ALERT", "ALERT_HOST", "DOWN", 1),
     HostLine("INITIAL HOST STATE", "STATE_HOST_INITIAL", "DOWN", 1),
     ServiceLine("SERVICE ALERT", "ALERT_SERVICE", "WARNING", 1),
     ServiceLine("CURRENT SERVICE STATE", "STATE_SERVICE", "CRITICAL", 2)}
 \cup {l \in OtherLines : l.line.text \notin {"HOST FLAPPING ALERT", "SERVICE DOWNTIME ALERT",
                                              "SERVICE ACKNOWLEDGE ALERT"}
                          /\ (l.line.text = "SERVICE FLAPPING ALERT" => l.says.stateType = "STARTED")}
=============================================================================
