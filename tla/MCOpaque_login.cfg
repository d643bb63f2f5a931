SPECIFICATION Spec
CONSTANTS
  ISess = {i1, i2}
  RSess = {r1}
  Passwords = {p1, p2}
  Accounts = {a1}
  Seed = seed1
  OtherSeed = seed2
  Keypair = key1
  OtherKeypair = key2
  Relays <- OneRelay
  Pinned = key1
  Lifetime = 2
  CAbi = TRUE
  Mangled = {"response", "record", "ke1", "ke2", "ke3"}
SYMMETRY Sessions
INVARIANTS
  InitiatorAuthentication
  InitiatorSecrets
  ResponderSecrets
PROPERTIES
  FinishedIsFinal
  ExpiryIsFinal
