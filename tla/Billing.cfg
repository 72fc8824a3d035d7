\* Two tenants, two transactions at once; one request at a gateway.
CONSTANTS
    Tenants = {t1, t2}
    Callers = {c1, c2}
    None = None
    Keys = {k1, k2}
    Amounts = {1, 2}
    Balances = {0, 1, 3}
    UsageKeys = {u1}
    MaxTime = 2
    Charges <- MCCharges
    Apis = {a1, a2}
    Subscribers = {t1}
    Crowded = TRUE
    Plans = {"developer", "pro"}
    DefaultPlan = "developer"
    Ids <- MCIds
    Offers <- MCOffers
    SeedOffer <- MCSeedOffer
    Prices <- MCPrices
    LegacyPrices <- MCLegacyPrices
    Quotas <- MCQuotas
    LegacyTerms = 9
    Thousand = 2
    Tokens = {1}
    Gates = {g1}
SYMMETRY BillingSymmetry
SPECIFICATION PartSpec
INVARIANTS BillingTypeOK Solvent BooksBalance InvoicedOnce
    PlanIsOneRequests PriceIsMeant AdmittedIsPriced ListedIsServed
PROPERTIES InvoiceIsFinal ActsAtOnce
