SPECIFICATION MCSpec
CONSTANTS
    w1 = w1
    w2 = w2
    Workers = {w1, w2}
    KitTables <- MCKitTables
    ProjectTables <- MCProjectTables
    AiTables = {"admin_ai"}
    UserTable = "admin_users"
    AuthTable = "accounts"
    RoleTable = "admin_roles"
    ProjectModels <- MCProjectModels
    KitModels <- MCKitModels
    Skipped = {"Draft"}
    Seeds <- MCSeeds
    OwnRole = "own"
    Configs <- MCConfigs
    MaxCalls = 2
    MaxEdits = 1
    MaxCrashes = 1
    Admins = {"a", "b"}
    Schemas = {"grants", "audit", "tickets", "bills"}
    Declared <- MCDeclared
    Column <- MCColumn
    Relates = {"tickets", "bills"}
    Logs = {"grants", "audit"}
    ImportedFirst = {"grants"}
    AuthModels = {"accounts", "members"}
    Resident = {"members"}
    PkType <- MCPkType
    Users = "admin_users"
    None = None
SYMMETRY Symmetry
INVARIANTS
    
    ServingMeansReady
    SharedMetadataHolds
\* A process that may not call setup again, or whose setup cannot succeed, rests.
CHECK_DEADLOCK FALSE
