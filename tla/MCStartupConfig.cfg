\* A process that was refused, or that has its clients, takes no step here.
SPECIFICATION Spec
CONSTANTS
    Environments = {"", "development", "production", "wrong"}
    FirebaseModes = {"", "offline", "emulator", "live", "wrong"}
    Projects = {"", "blank", "demo", "real", " real"}
    EmulatorHosts = {"", "blank", "valid", " valid", "no port"}
    Origins <- OriginLists
    Others = {"", "wrong"}
INVARIANTS
    ClientsFollowTheMode
    EnvironmentsStayApart
CHECK_DEADLOCK FALSE
