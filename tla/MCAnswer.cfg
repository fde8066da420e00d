SPECIFICATION Spec
CONSTANTS
    HostContacts <- MCHostContacts
    ServiceContacts <- MCServiceContacts
    HostOf <- MCHostOf
    ServicesOf <- MCServicesOf
    Hostgroups <- MCHostgroups
    Servicegroups <- MCServicegroups
    HostList <- MCHostList
    ServiceList <- MCServiceList
    HostgroupList <- MCHostgroupList
    ServicegroupList <- MCServicegroupList
    Contacts <- MCContacts
    NoUser = "nobody"
    UnknownUser = "unknown"
    NoObject = "none"
    Rank <- MCRank
    Perfdata <- MCPerfdata
    Variables <- MCVariables
    AllColumns <- MCAllColumns
    Beginnings <- MCBeginnings
    Requests <- MCRequests
    Changes <- MCChanges
    MaxChanges = 3
    One = 12
INVARIANTS
    ColumnsAgree
    
    RowsComplete
    StatsExact
    WellFormed
    StringsDecode
