CONSTANTS
    Path = {1, 2, 3, 4, 5}
    Dir = {2}
    Staging = {5}
    Present = {1, 2, 3, 5}
    Parent <- MCParent
    Folded <- MCFolded
    BatchSize = 2
    MaxScans = 1
    MaxEdits = 2
    MaxFaults = 2
    MaxPlans = 2
SPECIFICATION PipelineSpec
CHECK_DEADLOCK FALSE
INVARIANTS
    ManifestsStand
    PlansStand
    TempsOwned
    TasksAreTheManifest
