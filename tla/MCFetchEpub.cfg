SPECIFICATION Spec
CONSTANTS
    Catalog <- MCCatalog
    NoText = NoText
    Nowhere = Nowhere
    MaxFaults = 2
    MaxRenewals = 1
INVARIANTS
    OutputIsABook
    CookiesAreKept
    ReportedIsAPlace
CHECK_DEADLOCK FALSE
