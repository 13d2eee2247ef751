SPECIFICATION MCSpec
CONSTANTS
    Ports = {"swp1", "swp2"}
    Vlans = {"10", "20"}
    Addresses = {"a1", "a2"}
    Encodings = {"auto", "rs"}
    InitConfigs <- MCConfigs
    MaxCalls = 2
    MaxOthers = 1
    CliCalls = 2
    Layouts <- MCLayouts
INVARIANTS SwitchTypeOK AnswersTrue CliReadsBack PortIdsTellApart
PROPERTIES ImplementsSwitchConfig CallsEnd
CHECK_DEADLOCK FALSE
