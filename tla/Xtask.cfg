SPECIFICATION Spec
CONSTANTS
    b1 = b1
    b2 = b2
    Crate = {1, 2}
    Dependencies <- MCDependencies
    Requests <- MCRequests
    Version = {1, 2}
    Body = {b1, b2}
    Placeholder = zero
    Partial = partial
    None = None
    MaxRuns = 3
    Letter = {"a", "b", "c", "x", "y", "/", "."}
    Packages <- MCPackages
    Layout <- MCLayout
    Renames <- MCRenames
    Patterns <- MCPatterns
    MaxCommands = 4
SYMMETRY Symmetric
INVARIANTS
    ChecksumIsServed
    PlaceholdersAreUnfinished
    DependenciesFirst
    RenameKeepsPaths
    SyncRepairs
PROPERTIES
    VersionsKept
CHECK_DEADLOCK FALSE
