------------------------------ MODULE Visibility ------------------------------
(***************************************************************************)
(* Who may see what: src/src/auth.cc and the tables' isAuthorized().  A    *)
(* query without the header AuthUser sees everything; an unknown contact   *)
(* sees nothing that belongs to somebody.                                  *)
(***************************************************************************)
EXTENDS Integers, Sequences

CONSTANTS
    HostContacts,       \* [hosts -> sets of contacts], with those of escalations
    ServiceContacts,    \* [services -> sets of contacts], with those of escalations
    HostOf,             \* [services -> hosts]
    Hostgroups,         \* [host groups -> sequences of hosts]
    Servicegroups,      \* [service groups -> sequences of services]
    NoUser,             \* no AuthUser header
    UnknownUser         \* UNKNOWN_AUTH_USER

Levels == {"loose", "strict"}

ASSUME VisibilityAssumption ==
    /\ \A s \in DOMAIN HostOf : HostOf[s] \in DOMAIN HostContacts
    /\ DOMAIN ServiceContacts = DOMAIN HostOf
    /\ \A h \in DOMAIN HostContacts : {NoUser, UnknownUser} \cap HostContacts[h] = {}
    /\ \A s \in DOMAIN HostOf : {NoUser, UnknownUser} \cap ServiceContacts[s] = {}

\* The levels of g_service_authorization and g_group_authorization.
Auths == [service : Levels, group : Levels]

SeesHost(user, h) == user = NoUser \/ user \in HostContacts[h]

\* Mutant: being a contact of the host is always enough.
SeesServiceLoosely(auth, user, s) ==
    \/ user = NoUser
    \/ user \in ServiceContacts[s]
    \/ user \in HostContacts[HostOf[s]]

\* is_authorized_for(): with strict authorization, a contact of the host does not
\* see its services.
SeesService(auth, user, s) ==
    \/ user = NoUser
    \/ user \in ServiceContacts[s]
    \/ auth.service = "loose" /\ user \in HostContacts[HostOf[s]]

\* The members of a list that pass a test, in their order; passes tells which do.
Chosen(list, passes) ==
    LET upto[n \in 0 .. Len(list)] ==
            IF n = 0 THEN <<>>
            ELSE IF passes[n] THEN Append(upto[n - 1], list[n]) ELSE upto[n - 1]
    IN  upto[Len(list)]

SeenHosts(user, hosts) == Chosen(hosts, [n \in DOMAIN hosts |-> SeesHost(user, hosts[n])])
SeenServices(auth, user, services) ==
    Chosen(services, [n \in DOMAIN services |-> SeesService(auth, user, services[n])])

\* A group is seen with one of its members, or with all of them; an empty one never.
\* seen says of each member whether the contact sees it.
SeesGroup(auth, seen) ==
    /\ seen # <<>>
    /\ IF auth.group = "loose" THEN \E n \in DOMAIN seen : seen[n] ELSE \A n \in DOMAIN seen : seen[n]

SeesHostgroup(auth, user, g) ==
    user = NoUser \/ SeesGroup(auth, [n \in DOMAIN Hostgroups[g] |-> SeesHost(user, Hostgroups[g][n])])

SeesServicegroup(auth, user, g) ==
    user = NoUser \/ SeesGroup(auth, [n \in DOMAIN Servicegroups[g] |->
                                        SeesService(auth, user, Servicegroups[g][n])])
=============================================================================
