SPECIFICATION Spec
CONSTANTS
  Threads = {t1, t2}
  Agents = {agent1, agent2}
  Relays = {relay}
  Keypairs = {keypair}
  AgentStates = {s1}
  RelayStates = {s2}
  Null = null
SYMMETRY Interchangeable
INVARIANTS
  TypeOK
  Serialized
  FlagsAreOwned
  NoUseAfterFree
  CommittedOrTerminal
  FailuresAreTerminal
PROPERTY
  ImplementsOneShotSessions
