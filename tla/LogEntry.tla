------------------------------- MODULE LogEntry -------------------------------
(***************************************************************************)
(* src/src/LogEntry.cc: what a line of the core's log says.                *)
(*                                                                         *)
(* A line is a text and, behind its colon, fields between semicolons.  The *)
(* text selects a class, a type and what the fields are called; a          *)
(* notification may have two of its fields swapped.  A state is known by   *)
(* the last letter of its field.                                           *)
(***************************************************************************)
EXTENDS Integers, Sequences, TLC

CONSTANTS
    Ending,     \* the last letter of a field, without a closing bracket
    Mentions    \* which of "_HOST", "_HOSTGROUP", "_SVC" a command's name holds

Null == "null"

Line == [text : STRING, fields : Seq(DOMAIN Ending)]

\* next_token: the n-th field, or 0.
Field(line, n) == IF n \in 1 .. Len(line.fields) THEN line.fields[n] ELSE Null

-----------------------------------------------------------------------------
(* States                                                                  *)

\* Codes of letters; a missing or an empty field has a code of its own.
Code(codes, letter, otherwise) == IF letter \in DOMAIN codes THEN codes[letter] ELSE otherwise

ServiceStateToInt(field) ==
    IF field \in {Null, ""} THEN 3
    ELSE Code([K |-> 0, Y |-> 0, G |-> 1, L |-> 2, N |-> 3], Ending[field], 4)

HostStateToInt(field) ==
    CASE field = Null -> 2
      [] field = ""   -> 3
      [] OTHER        -> Code([P |-> 0, Y |-> 0, N |-> 1, E |-> 2], Ending[field], 3)

-----------------------------------------------------------------------------
(* Kinds of lines: class, type and the names of the fields                 *)

Kind(class, type, names) == [class |-> class, type |-> type, names |-> names]
ObjectOf(svc) == IF svc THEN <<"host", "svc">> ELSE <<"host">>

Status(text, svc) ==
    LET names == ObjectOf(svc) \o <<"state", "stateType", "attempt", "output">>
        what == IF svc THEN "SERVICE" ELSE "HOST"
    IN  ("INITIAL " \o what \o " STATE" :> Kind("state", "STATE_" \o what \o "_INITIAL", names))
     @@ ("CURRENT " \o what \o " STATE" :> Kind("state", "STATE_" \o what, names))
     @@ (what \o " ALERT" :> Kind("alert", "ALERT_" \o what, names))

HostStates == Status("HOST", FALSE)
ServiceStates == Status("SERVICE", TRUE)

Alerts(what, svc) ==
    LET object == ObjectOf(svc)
        info == Kind("info", "NONE", object \o <<"comment">>)
    IN  (what \o " DOWNTIME ALERT" :>
            Kind("alert", "DOWNTIME_ALERT_" \o what, object \o <<"stateType", "comment">>))
     @@ (what \o " ACKNOWLEDGE ALERT" :>
            Kind("alert", "ACKNOWLEDGE_ALERT_" \o what, object \o <<"stateType", "contact", "comment">>))
     @@ (what \o " FLAPPING ALERT" :>
            Kind("alert", "FLAPPING_" \o what, object \o <<"stateType", "comment">>))
     @@ (what \o " NOTIFICATION SUPPRESSED" :> info) @@ (what \o " INFO" :> info)

HostAlerts == Alerts("HOST", FALSE)
ServiceAlerts == Alerts("SERVICE", TRUE)

Transition == Kind("state", "TIMEPERIOD_TRANSITION", <<>>)

Notifications ==
    LET names(svc) == <<"contact">> \o ObjectOf(svc) \o <<"stateType", "command", "output">>
    IN  ("HOST NOTIFICATION" :> Kind("notification", "NONE", names(FALSE)))
     @@ ("SERVICE NOTIFICATION" :> Kind("notification", "NONE", names(TRUE)))

PassiveChecks ==
    ("PASSIVE HOST CHECK" :> Kind("passivecheck", "NONE", <<"host", "code", "output">>))
 @@ ("PASSIVE SERVICE CHECK" :> Kind("passivecheck", "NONE", <<"host", "svc", "code", "output">>))

Notes ==
    ("HOST NOTE" :> Kind("info", "NONE", <<"host">>))
 @@ ("SERVICE NOTE" :> Kind("info", "NONE", <<"host", "svc">>))

\* A command's first field says which objects the others name.
Command(cmd) ==
    LET holds == IF cmd = Null THEN {} ELSE Mentions[cmd]
        object == IF "_HOST" \in holds /\ "_HOSTGROUP" \notin holds THEN <<"host">>
                  ELSE IF "_SVC" \in holds THEN <<"host", "svc">> ELSE <<>>
    IN  Kind("command", "NONE", <<"cmd">> \o object)

Texts ==
    ("LOG VERSION: 2.0" :> Kind("program", "LOG_VERSION", <<>>))
 @@ ("logging initial states" :> Kind("program", "LOG_INITIAL_STATES", <<>>))
 @@ ("logging intitial states" :> Kind("program", "LOG_INITIAL_STATES", <<>>))

Programs ==
    [t \in {"starting...", "shutting down...", "Bailing out", "standby mode..."} |->
        Kind("program", "CORE_STOPPING", <<>>)]
 @@ ("restarting..." :> Kind("program", "NONE", <<>>))

Known == HostStates @@ HostAlerts @@ ServiceStates @@ ServiceAlerts
         @@ Notifications @@ PassiveChecks @@ Notes @@ Texts @@ Programs

\* Everything else is LOGCLASS_INFO.
KindOf(line) ==
    IF line.text = "EXTERNAL COMMAND" THEN Command(Field(line, 1))
    ELSE IF line.text = "TIMEPERIOD TRANSITION" THEN Transition
    ELSE IF line.text \in DOMAIN Known THEN Known[line.text]
    ELSE Kind("info", "NONE", <<>>)

-----------------------------------------------------------------------------
\* The field that is called name.
Named(line, name) ==
    LET names == KindOf(line).names IN
    IF \E n \in DOMAIN names : names[n] = name
    THEN Field(line, CHOOSE n \in DOMAIN names : names[n] = name) ELSE Null

StateToInt(svc, field) == IF svc THEN ServiceStateToInt(field) ELSE HostStateToInt(field)

\* Mutant: the swapped columns of a notification are not seen.
SwappedNever(svc, field) == FALSE

\* "If that state is not parsable then we assume that the order is swapped."
Swapped(svc, field) == StateToInt(svc, field) = IF svc THEN 4 ELSE 3

\* atoi of a passive check's return code.
ReturnCode(field) == CASE field = "1" -> 1 [] field = "2" -> 2 [] OTHER -> 0

Entry(line) ==
    LET kind == KindOf(line)
        svc == \E n \in DOMAIN kind.names : kind.names[n] = "svc"
        first == Named(line, "stateType")
        swap == kind.class = "notification" /\ Swapped(svc, IF first = Null THEN "" ELSE first)
        stateType == IF swap THEN Named(line, "command") ELSE first
        stated == \E n \in DOMAIN kind.names : kind.names[n] = "state"
        state == Named(line, "state")
    IN  [class |-> kind.class, type |-> kind.type,
         host |-> Named(line, "host"), svc |-> Named(line, "svc"),
         contact |-> Named(line, "contact"),
         command |-> IF swap THEN first ELSE Named(line, "command"),
         stateType |-> stateType,
         state |-> CASE stated -> StateToInt(svc, IF state = Null THEN "" ELSE state)
                     [] ~stated /\ kind.class = "notification" -> StateToInt(svc, stateType)
                     [] ~stated /\ kind.class = "passivecheck" -> ReturnCode(Named(line, "code"))
                     [] OTHER -> 0]
=============================================================================
