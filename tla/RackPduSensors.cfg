SPECIFICATION SetupSpec
CONSTANTS
  Families = {"rack_pdu"}
  Pdus <- MCPdus
INVARIANT
  PduSensorsServed
