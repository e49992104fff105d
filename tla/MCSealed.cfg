SPECIFICATION SupplySpec
CONSTANTS
  NoRow = NoRow
  u1 = u1
  c1 = c1
  a1 = a1
  f = f
  g = g
  Holders = {u1}
  Series = {c1}
  CreatorOf <- Creator
  SymbolOf <- Symbol
  Arts = {a1}
  Fields = {f, g}
  Terms <- SomeTerms
  FirstSchemas <- SomeSchemas
  Payloads <- SomePayloads
  MintSupplies = {1}
  MaxNumber = 1
  MaxFields = 3
  MaxVersions = 2
  MaxItems = 1
  MaxQuantity = 1
  SeriesLimit = 1
  SeedLimit = 1
  InstanceLimit = 1
INVARIANT SealedForGood
CHECK_DEADLOCK FALSE
