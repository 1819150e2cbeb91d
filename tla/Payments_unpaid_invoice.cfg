SPECIFICATION FairSpec
CONSTANTS
    i1 = i1  i2 = i2  h1 = h1  h2 = h2  r1 = r1  r2 = r2
    None = None
    MaxPayments = 1
    MaxDeclines = 0
    MaxFaults = 0
    Invoices <- MCOneInvoice
    Hooks <- MCOneHook
    Reconcilers <- MCOneReconciler
PROPERTIES SucceededPaymentPaysInvoice
CHECK_DEADLOCK FALSE
