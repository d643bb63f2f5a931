SPECIFICATION SwiftSpec
CONSTANTS
  Threads = {t1, t2}
  Agents = {agent1}
  Relays = {}
  Keypairs = {}
  AgentStates = {s1, s2}
  RelayStates = {}
  Null = null
  AgentObjects = {a1}
  StateObjects = {st1, st2}
  KeysObjects = {keys1}
  Nobody = nobody
CHECK_DEADLOCK FALSE
SYMMETRY Interchangeable
INVARIANTS
  OnlyNestedClosuresDeadlock
  ClosuresSeeKeys
  NeverBusy
  HandlesHaveOneOwner
PROPERTY
  KeepsTheContract
