SPECIFICATION FairSpec
CONSTANTS
    i1 = i1  i2 = i2  h1 = h1  h2 = h2  r1 = r1  r2 = r2
    None = None
    MaxPayments = 2
    MaxDeclines = 1
    MaxFaults = 1
    Invoices <- MCOneInvoice
    Hooks <- MCOneHook
    Reconcilers <- MCOneReconciler
INVARIANTS TypeOK StatusTellsTruth ChargedPaymentIsKnown AttemptOpensInvoice
PROPERTIES CollectionRecordedWithEffect ReconciliationSettles
CHECK_DEADLOCK FALSE
