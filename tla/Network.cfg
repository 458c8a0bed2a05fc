CONSTANTS
  SOFTAP_RETRIES = 1
  CONFIG_AP_STUCK = 0
  DHCP_ESCALATION_CYCLE = 4
  MAX_EVENTS = 3
  MaxChanges = 2
  MaxScans = 1
  Leases <- MCLeases
  StaticChoices <- MCStaticChoices
SPECIFICATION Spec
INVARIANTS TypeOK ConnectedIsTrue
PROPERTIES NeverGivesUp
CHECK_DEADLOCK FALSE
