\* The save of a refunded pre-consume record fails once and is retried.
CONSTANTS
    r1 = r1
    r2 = r2
    Requests = {r1, r2}
    Image = {}
    Playground = {}
    Forced = {}
    Realtime = {}
    Quotas = {1}
    Preferences = {"subscription_only"}
    InitUserQuota = 2
    InitTokenQuota = 2
    TokenUnlimited = FALSE
    TrustQuota = 0
    SubTotal = 2
    AllowOverflow = FALSE
    ViolationFee = 0
    FaultPoints = {"refundMark"}
    MaxFaults = 1
    MaxMeter = 0
    MaxResets = 0
SPECIFICATION Spec
INVARIANT SubscriptionRefundedOnce
