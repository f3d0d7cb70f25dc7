SPECIFICATION Spec
CONSTANTS
  alice = alice
  bob = bob
  this = this
  k1 = k1
  k2 = k2
  k3 = k3
  kbad = kbad
  e1 = e1
  e2 = e2
  ezero = ezero
  ctx = ctx
  longCtx = longCtx
  Addresses = {alice, bob}
  Self = this
  G2Keys = {k1, k2}
  UnusableG2Keys = {}
  BeaconKeys = {k2}
  Ed25519Keys = {e1}
  ZeroEd25519 = ezero
  Contexts = {ctx}
  OversizedContexts = {}
  FeeAmount = 1
  DrandGenesis = 1
  DrandPeriod = 2
  RoundOffset = 2
  TimeoutRounds = 1
  MaxRequestId = 2
  MaxTime = 9
  InitialBalance = 1
  InitOraclePK = k1
  InitOracleAddr = bob
  InitOracleEd25519 = e1
  InitDrandPK = k2
  ReentryAllowed = FALSE
  None = None
INVARIANTS
  TypeOK
  EscrowBacked
  OneOutcome
  PendingIsServiceable
  OutputBound
  LeadTime
  RefundLeavesWindow
PROPERTIES
  SettlementIrrevocable
  CallbackCannotVeto
  ImplementsService
CHECK_DEADLOCK FALSE
