SPECIFICATION Spec
CONSTANTS
  ISess = {i1, i2}
  RSess = {r1, r2}
  Passwords = {p1}
  Accounts = {a1}
  Seed = seed1
  OtherSeed = seed2
  Keypair = key1
  OtherKeypair = key2
  Relays <- OneRelay
  Pinned = key1
  Lifetime = 1
  CAbi = FALSE
  Mangled = {"ke1", "ke2", "ke3"}
SYMMETRY Sessions
INVARIANTS
  ResponderAuthentication
  ResponderSecrets
