------------------------------ MODULE MCAccess ------------------------------
(* Access on small instances: one of the two requests is used for every    *)
(* operation, the other for sessions, deactivations and payments.          *)
EXTENDS Access, TLC

CONSTANTS a1, a2, r1, r2, k1, k2

AdminOps ==
    {"GetMe", "CreateAdmin", "DeactivateAdmin", "CreateMerchant", "ApproveMerchant",
     "SuspendMerchant", "DeactivateMerchant", "DeleteMerchant", "RegenerateAPIKey",
     "SetMerchantFee", "VerifyBankAccount", "UpdateProviderBalance", "UpdatePlatformMargin",
     "UpdateHoliday", "GetMerchant", "GetPayment", "GetDisbursement"}

MCDoes == [r \in {r1, r2} |->
             IF r = r1 THEN AdminOps \cup MerchantOps \cup {"Login", "RefreshToken", "Notify"}
             ELSE {"Login", "RefreshToken", "DeactivateAdmin", "Pay"}]

Symmetric == Permutations({a1, a2}) \cup Permutations({k1, k2})
=============================================================================
