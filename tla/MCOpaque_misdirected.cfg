SPECIFICATION Spec
CONSTANTS
  ISess = {i1, i2}
  RSess = {r1}
  Passwords = {p1}
  Accounts = {a1, a2}
  Seed = seed1
  OtherSeed = seed2
  Keypair = key1
  OtherKeypair = key2
  Relays <- AllRelays
  Pinned = key1
  Lifetime = 1
  CAbi = FALSE
  Mangled = {"ke3"}
SYMMETRY SessionsAndAccounts
INVARIANTS
  InitiatorAuthentication
  ExportKeyIsDurable
  InitiatorSecrets
