SPECIFICATION FairSpec
CONSTANTS
  c1 = c1
  m1 = m1
  m2 = m2
  provider = provider
  Calls = {c1}
  Models = {m1, m2}
  Providers = {provider}
  Keys = {k1, k2}
  Rests <- OneRest
  NetworkRest = 1
  AuthRest = 1
  ProviderOf <- OnOneProvider
  ModelOf <- TheModels
  Ranking <- TwoModels
  Kinds = {"text", "disclosing", "plain"}
  VendorsOf <- AnyVendor
  Signatures = {s1}
  TypeOf <- TheTypes
  Repeatable = {}
  MaxAttempts = 2
  MaxIterations = 2
INVARIANTS
  TypeOK
  SpentModelsAreLeft
PROPERTIES
  CallsEnd
CHECK_DEADLOCK FALSE
