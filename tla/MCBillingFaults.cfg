\* Every database write but the save of the refund record may fail.
CONSTANTS
    r1 = r1
    r2 = r2
    Requests = {r1, r2}
    Image = {r2}
    Playground = {}
    Forced = {r1}
    Realtime = {}
    Quotas = {1, 2}
    Preferences = {"subscription_first"}
    InitUserQuota = 3
    InitTokenQuota = 3
    TokenUnlimited = FALSE
    TrustQuota = 1
    SubTotal = 2
    AllowOverflow = TRUE
    ViolationFee = 1
    FaultPoints = {"query", "preToken", "preFunding", "rollbackToken",
        "reserveFunding", "reserveToken", "rollbackReserve", "settleFunding",
        "settleToken", "refundFunding", "refundExtra", "refundToken",
        "feeFunding", "feeToken", "subQuery"}
    MaxFaults = 3
    MaxMeter = 0
    MaxResets = 0
SPECIFICATION Spec
INVARIANTS
    FinalAccounting
    NoOverRefund
    ReservationsCovered
