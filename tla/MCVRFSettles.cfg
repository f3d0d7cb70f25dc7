SPECIFICATION FairSpec
CONSTANTS
  alice = alice
  bob = bob
  this = this
  k1 = k1
  k2 = k2
  k3 = k3
  kbad = kbad
  e1 = e1
  e2 = e2
  ezero = ezero
  ctx = ctx
  longCtx = longCtx
  Addresses = {alice, bob}
  Self = this
  G2Keys = {k1, k2, k3, kbad}
  UnusableG2Keys = {kbad}
  BeaconKeys = {k2}
  Ed25519Keys = {e1, ezero}
  ZeroEd25519 = ezero
  Contexts = {ctx, longCtx}
  OversizedContexts = {longCtx}
  FeeAmount = 1
  DrandGenesis = 1
  DrandPeriod = 1
  RoundOffset = 2
  TimeoutRounds = 0
  MaxRequestId = 1
  MaxTime = 5
  InitialBalance = 1
  InitOraclePK = k1
  InitOracleAddr = bob
  InitOracleEd25519 = e1
  InitDrandPK = k2
  ReentryAllowed = TRUE
  None = None
INVARIANTS
  OutputBound
  GuardMatchesCallback
  KeysSeparate
PROPERTY
  EventuallySettled
CHECK_DEADLOCK FALSE
