SPECIFICATION Spec
CONSTANTS
    u = u  p = p  c = c  d = d  k = k  e = e  r = r  x = x  y = y
    None = None
    Seeds <- MCSeeds
    Names <- MCNames
    Prices <- MCPrices
    PrefixOf <- MCAlike
    MaxRequests = 3
INVARIANTS TypeOK TwinsOverlap UsageAccountable InvoicedAtOfferedPrice
PROPERTIES KeysOutliveDeletion RevocationSticks
CHECK_DEADLOCK FALSE
