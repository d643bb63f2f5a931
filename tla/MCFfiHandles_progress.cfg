SPECIFICATION FairSpec
CONSTANTS
  Threads = {t1, t2}
  Agents = {agent1, agent2}
  Relays = {}
  Keypairs = {}
  AgentStates = {s1}
  RelayStates = {}
  Null = null
PROPERTIES
  CallsReturn
  HandlesAreReleased
