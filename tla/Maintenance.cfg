SPECIFICATION Spec
CONSTANTS
    None = None
    Tree <- MCTree
    SizeOf <- MCSizeOf
    RootsOf <- MCRootsOf
    Dumps <- MCDumps
    Caches <- MCCaches
    Artifacts <- MCArtifacts
    Alike <- MCAlike
    Modulus = 8
    RulePaths = {1, 2, 3}
    FileSizes = {1, 3}
    FirstSize <- MCFirstSize
    Huge = 9
    Documents <- MCDocuments
    MaxRuns = 1
    MaxEdits = 1
    Views = 2
    Keys = {1, 2, 3}
    Program <- MCProgram
    Installations <- MCInstallations
    SortKeys = {"name", "size"}
    MaxChanges = 2
INVARIANTS ReportIsExact RunAccounts ListIsComplete
CHECK_DEADLOCK FALSE
