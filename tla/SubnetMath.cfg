CONSTANTS
  W = 4
  MaxCount = 16
SPECIFICATION FairSpec
INVARIANTS
  TypeOK
  SubnetIPsExact
  DefaultGatewayUsable
  ContainsExact
PROPERTIES
  SubnetIPsReturns
  StepsDecrease
CHECK_DEADLOCK FALSE
