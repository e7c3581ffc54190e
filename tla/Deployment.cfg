SPECIFICATION Spec
CONSTANTS
  Configs <- MCConfigs
  HwMac <- MCHwMac
  MaxFailures = 2
CHECK_DEADLOCK FALSE
INVARIANTS
    WrittenNetworkWorks
    TablesAgree
PROPERTIES
    Ends
