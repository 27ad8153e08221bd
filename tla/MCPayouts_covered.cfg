SPECIFICATION MCSpec
CONSTANTS
    Null = Null
    Accounts <- WalletAccounts
    Account <- WalletAccount
    Calls <- WalletCalls
    Op <- WalletOp
    SellerCalls <- MCSellerCalls
    SellerOp <- MCSellerOp
    Orders <- MCTwoOrders
    Shipments <- MCShipments
    Rates <- MCRates
    Events <- MCNoEvents
    Policies <- MCPolicies
    LineImports <- MCPlanLines
    RemittanceImports <- MCRemittances
    Users <- MCUsers
    MaxRuns = 2
    MaxApprovals = 2
CONSTRAINT TwoHolds
INVARIANTS
    HoldsAreCovered
CHECK_DEADLOCK FALSE
