SPECIFICATION Spec
CONSTANTS
    p1 = p1
    p2 = p2
    s1 = s1
    s2 = s2
    Profiles = {p1, p2}
    Sessions = {s1, s2}
    Secrets = {"k"}
    Ports = {1, 2}
    Titles = {"t", "u"}
    Domains = {"d", "e"}
    None = None
    Network <- OneTransport
    Builds = 2
    Defaults <- TwoBatches
    Factory <- Release
    Lacks <- OldBuild
    Schema <- NewSchema
    Limits <- FewLimits
SYMMETRY Tabs
INVARIANTS
    NoListenerConflict
PROPERTIES
    SavesReplaceWhatWasSeen
    GenerationTellsRuntime
CHECK_DEADLOCK FALSE
