CONSTANTS
    r1 = r1
    r2 = r2
    Requests = {r1, r2}
    Image = {}
    Playground = {r1}
    Forced = {}
    Realtime = {r2}
    Quotas = {0, 2}
    Preferences = {"wallet_first", "subscription_first"}
    InitUserQuota = 3
    InitTokenQuota = 4
    TokenUnlimited = FALSE
    TrustQuota = 1
    SubTotal = 2
    AllowOverflow = TRUE
    ViolationFee = 1
    FaultPoints = {"meterFunding", "meterToken"}
    MaxFaults = 1
    MaxMeter = 1
    MaxResets = 1
SPECIFICATION Spec
INVARIANTS
    TypeOK
    FinalAccounting
    OneFundingSource
    UsageIsSumOfRequests
PROPERTIES
    ImplementsCharging
