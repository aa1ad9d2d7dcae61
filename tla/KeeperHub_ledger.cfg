SPECIFICATION Spec
CONSTANTS
  dep = dep
  agent = agent
  h1 = h1
  b1 = b1
  role1 = role1
  j1 = j1
  j2 = j2
  Wallet = {dep, agent}
  Deployer = dep
  Keeper = dep
  RegistryAddress = registry
  ReputationAddress = reputation
  Zero = zero
  Grantee = {agent}
  Hash = {h1}
  Role = {role1}
  Blob = {b1}
  MaxTokens = 1
  MaxEvents = 1
  MaxEvolutions = 1
  Job = {j1, j2}
  Requests <- TwoCalls
  ScriptRoles <- OneRole
  MaxTx = 1
INVARIANTS TypeOK IndexIsExact LedgerBalances AgentsListedOnce FallbackOnly CompletedIsOnChain
PROPERTIES RecordsAreFinal HolderEvolves
CHECK_DEADLOCK FALSE
