SPECIFICATION Spec
CONSTANTS
    p1 = p1  p2 = p2  h1 = h1  h2 = h2  r1 = r1  r2 = r2
    None = None
    Payments <- MCOnePayment
    Amount <- MCAmountTwo
    MaxRefunds = 2
    MaxFaults = 0
    Hooks <- MCOneHook
    Reconcilers <- MCOneReconciler
    PaidStatuses <- MCPaid
INVARIANTS FullRefundCascades
CHECK_DEADLOCK FALSE
