SPECIFICATION Spec
CONSTANTS
    Configs <- AllConfigs
    Confs = {"x"}
    Blank = "blank"
    Missing = Missing
    NoConfig = NoConfig
    MAX_PORTS = 3
    MAX_PLUGINS = 3
    MAX_ROUTES = 2
    MAX_HANDLERS = 4
    Provides <- Handlers
    NFds = 3
INVARIANTS
    TypeOK
    OpenedPortsServed
    HandlersResolve
    SavedConfigReloads
