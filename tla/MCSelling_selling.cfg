SPECIFICATION SellingSpec
CONSTANTS
    Null = Null
    w1 = w1
    w2 = w2
    Editors = {"e1", "e2"}
    Shoppers = {"s1"}
    RuleSets <- MCRuleSets
    Carts = {0, 301, 7777}
    Pincodes = {"p1", "p2", "p3"}
    DefaultRules <- MCDefaultRules
    MaxVersions = 3
    MaxQuotes = 1
    Calls <- MCCalls
    MayRequest <- DoorRequests
    Quotes <- MCQuotes
    Posts <- MCPosts
    KeyOf <- MCKeyOf
    ExternalOf <- MCExternalOf
    Keys = {"k1", "k2"}
    MaxCrashes = 2
    Payloads <- MCPayloads
    OrderIn <- MCOrderIn
    Pages <- NoPages
    Posted <- MCPosted
    JobModes = {"IMPORT"}
    Events = {"h1"}
    EventPayload <- MCEventPayload
    Workers <- Callers
    MaxJobs = 2
    MaxItems = 4
    MaxFaults = 0
SYMMETRY Alike
INVARIANTS
    QuotesAddUp
    SettingIsActive
    GoodsArePaidFor
    ConfirmedOnce
    DuplicatesHaveAnOriginal
PROPERTIES
    OneRunPerKey
CHECK_DEADLOCK FALSE
