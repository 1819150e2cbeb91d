SPECIFICATION FairSpec
CONSTANTS
    p1 = p1  p2 = p2  h1 = h1  h2 = h2  r1 = r1  r2 = r2
    None = None
    Payments <- MCOnePayment
    Amount <- MCAmountTwo
    MaxRefunds = 2
    MaxFaults = 1
    Hooks <- MCOneHook
    Reconcilers <- MCOneReconciler
    PaidStatuses <- MCPaid
INVARIANTS TypeOK RefundTruth RefundedTogether WholeRefundCascades
PROPERTIES RefundSettles ImplementsLedger
CHECK_DEADLOCK FALSE
