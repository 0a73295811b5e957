SPECIFICATION RelationsSpec
CONSTANTS
    Public = {"a", "b"}
    Private = {"x"}
    MaxRelations = 2
PROPERTIES
    AssertionsKept
CHECK_DEADLOCK FALSE
