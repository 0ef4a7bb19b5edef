\* What must come in the end, one concern at a time.
SPECIFICATION DeliverySpec
CONSTANTS
    BeatSlots = {b1, b2}
    MaxSteam = 1
    MaxRoot = 2
    MaxAnswers = 1
    MaxAgentRestarts = 1
    Tabs = {t1, t2}
    MaxSessions = 1
    MaxOpens = 1
    MaxLinks = 2
    Updates = {u1, u2}
    MaxVersion = 3
    MaxDeaths = 1
    MaxAge = 3
    Cooldown = 7
    Ports = {1, 2}
    MaxChanges = 3
    Asks = {a1, a2}
    MaxRowChanges = 2
    MaxDrops = 1
INVARIANTS DeliveryTypeOK RevealTellsTruth SlotsMatchAudits ShellFollowsTab
    RollbackRestores OneNoticePerOutage
PROPERTIES SteamOnce RebootHappens UpdatesSettle OutageIsNoticed
    FirewallFollows PageCatchesUp
CHECK_DEADLOCK FALSE
