SPECIFICATION Spec
CONSTANTS
    gpu = gpu
    canvas = canvas
    atlas = atlas
    link = link
    Services <- MCServices
    BuiltIn <- MCBuiltIn
    requires <- MCRequires
    restart_policy <- MCPolicy
    max_restarts = 1
    is_critical <- MCCritical
    level_services <- MCLevels
    ExitCodes = {0, 2}
    NoService = NoService
    NoPid = NoPid
    MaxSpawns = 3
INVARIANTS
    ServiceInv
    NoOrphan
    RunningIsReal
    BootFollowsDependencies
PROPERTIES
    BackToLoop
