\* The services beside the life of a server, one of them at a time.
SPECIFICATION ServicesSpec
CONSTANTS
    \* BackupRuns
    Servers = {s1}
    Instances = {i1, i2}
    Dests = {loc, sf, ob}
    Remote = {sf, ob}
    S3 = {ob}
    SharedPrefix = {}
    Pollers = {q1, q2}
    KeepLast = 1
    MaxRuns = 2
    MaxSlot = 1
    MaxEvents = 1
    \* BackupSchedule
    Hour = 2
    Day = 4
    MaxMinute = 60
    \* BackupPanel
    PanelDests = {d1, d2}
    PanelPolicies = {p1}
    MaxPanelCalls = 2
    \* HostEnrollment
    Hosts = {h1, h2}
    Machines = {m1, m2}
    Codes = {c1}
    EnrollSlots = {e1, e2}
    MaxClaims = 2
    NoCode = noCode
    NoMachine = noMachine
    \* AddHostWizard
    NewHosts = {n1, n2}
    PairCodes = {pc1, pc2}
    NoOne = noOne
    NoPair = noPair
    MaxOpenings = 2
    MaxChecks = 1
    MaxLostCalls = 1
    \* PortAllocation
    Creators = {k1, k2}
    Bases = {10}
    Strides = {1, 2}
    Tries = 2
    Probes = 2
    MaxForeign = 1
    MaxStarts = 2
    \* PortMappings
    Gateways = {g1, g2}
    Endpoints = {en1, en2}
    MaxLaunches = 2
    MaxPortFaults = 1
    \* SteamSetup
    MaxProvisions = 2
    MaxLogins = 1
    MaxSteamFaults = 1
    \* InstallLog
    MaxLines = 2
    Chunk = 1
    Page = 1
    LogPolls = {lp1, lp2}
    MaxLogFaults = 1
    \* HostReports
    Beats = {b1, b2}
    Outcomes = {failed}
    MaxBytes = 1
    MaxReports = 1
    MaxReportFaults = 1
    \* Accounts
    Users = {u1}
    Mailers = {r1, r2}
    MaxLinks = 3
    \* Billing
    Payers = {u1}
    Subs = {sub1, sub2}
    Customers = {cus1, cus2}
    MaxStripeEvents = 3
INVARIANTS ServicesTypeOK SingleFaultSafe NoDoubleJob SlotsMatchSchedule
    HostsStayApart PortsApart LogIsFaithful TrafficOnce
    MarkerIsTrue NothingLeftOpen WizardTellsTruth LinksAreReplaced
    BillingFollows
PROPERTIES LatestKept CredentialsAreSpent FormsStayApart
CHECK_DEADLOCK FALSE
