SPECIFICATION Spec
CONSTANTS
    b1 = b1
    b2 = b2
    Crate = {1, 2}
    Dependencies <- MCDependencies
    Requests <- MCRequests
    Version = {1, 2}
    Body = {b1, b2}
    Placeholder = zero
    Partial = partial
    None = None
    MaxRuns = 3
    Letter = {"a", "b", "c", "x", "y", "/", "."}
    Packages <- MCPackages
    Layout <- MCLayout
    Renames <- NoRenames
    Patterns <- MCPatterns
    MaxCommands = 4
SYMMETRY Symmetric
INVARIANTS
    BulkKeepsMembers
CHECK_DEADLOCK FALSE
