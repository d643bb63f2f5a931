SPECIFICATION Spec
CONSTANTS
  ISess = {i1, i2, i3}
  RSess = {r1, r2}
  Passwords = {p1}
  Accounts = {a1}
  Seed = seed1
  OtherSeed = seed2
  Keypair = key1
  OtherKeypair = key2
  Relays <- OneRelay
  Pinned = key1
  Lifetime = 1
  CAbi = TRUE
  Mangled = {}
SYMMETRY Sessions
INVARIANTS
  ExportKeyIsDurable
  AgreementIsInjective
PROPERTIES
  ImplementsMutualAuthentication
