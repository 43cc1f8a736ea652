\* One request, every preference, every write may fail up to three times.
CONSTANTS
    r1 = r1
    r2 = r2
    Requests = {r1}
    Image = {}
    Playground = {}
    Forced = {}
    Realtime = {}
    Quotas = {0, 1, 2}
    Preferences = {"subscription_only", "wallet_only", "wallet_first",
        "subscription_first"}
    InitUserQuota = 1
    InitTokenQuota = 2
    TokenUnlimited = FALSE
    TrustQuota = 1
    SubTotal = 2
    AllowOverflow = FALSE
    ViolationFee = 1
    FaultPoints = {"query", "preToken", "preFunding", "rollbackToken",
        "reserveFunding", "reserveToken", "rollbackReserve", "settleFunding",
        "settleToken", "refundFunding", "refundMark", "refundExtra",
        "refundToken", "feeFunding", "feeToken", "subQuery"}
    MaxFaults = 3
    MaxMeter = 0
    MaxResets = 1
SPECIFICATION FairSpec
PROPERTY EventuallyFinished
