SPECIFICATION Spec
CONSTANTS
    i1 = i1  i2 = i2  h1 = h1  h2 = h2  r1 = r1  r2 = r2
    None = None
    MaxPayments = 2
    MaxDeclines = 2
    MaxFaults = 0
    Invoices <- MCOneInvoice
    Hooks <- MCOneHook
    Reconcilers <- MCNoReconciler
INVARIANTS RecordedCollectionStays
PROPERTIES LegalPaymentTransitions
CHECK_DEADLOCK FALSE
