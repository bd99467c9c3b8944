SPECIFICATION SetupSpec
CONSTANTS
  Families = {"smart_ups", "smt_ups", "smartconnect_ups", "rack_pdu"}
  Pdus <- MCPdus
INVARIANTS
  SetupTypeOK
  PollReadsProfile
  BlocksSuffice
  EntitiesServed
  SensorsOfDevice
