CONSTANTS
    p1 = p1
    p2 = p2
    Procs = {p1, p2}
    Needed = {"generator"}
    Contents <- BuiltContents
    Built = {"custom"}
    Configs <- MCConfigs
    Registry <- MCRegistry
    Requires <- NoRequires
    MaxVersion = 2
    Fallback = 1
SPECIFICATION Spec
SYMMETRY Symmetry
CHECK_DEADLOCK FALSE
INVARIANTS
    WholeArchives
    NothingMissingAtLaunch
