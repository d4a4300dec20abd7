SPECIFICATION FairSpec
CONSTANTS
    Ports = {5433, 5434}
    DefaultPort = 5433
    Passwords = {p1, p2}
    None = none
    Torn = torn
    Machines <- MCMachines
    MaxTrouble = 1
    Parts <- MCParts
    RcFiles = {"profile"}
    Configs <- MCConfigs
INVARIANTS  UpMeansServed  UserContentKept
 
