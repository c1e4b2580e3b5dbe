SPECIFICATION GatewayFairSpec
CONSTANTS
  h1 = h1
  h2 = h2
  p1 = p1
  c1 = c1
  c2 = c2
  NoCall = unknown
  Hooks <- MCHooks
  Peers <- MCPeers
  Calls <- MCCalls
  MaxStream = 2
INVARIANTS AllowedByGate StopUnblocks LinksApart
PROPERTIES MediatedOnce EveryHookAnswers
CHECK_DEADLOCK FALSE
