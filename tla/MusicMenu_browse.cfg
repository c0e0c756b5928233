SPECIFICATION Spec
CONSTANTS
    NULL = NULL
    Names = {"A", "B", "X", "Y", "Z", "s", "t"}
    Databases <- SomeDatabases
    MaxWindows = 6
    MaxLists = 2
INVARIANTS ShownWithinPath RootChoicesExact
CHECK_DEADLOCK FALSE
