SPECIFICATION BundleSpec
CONSTANTS
    Bundles = {"b1", "b2"}
    Tags = {"x", "y"}
    Values = {"v", "w"}
    TagSets = {{"x"}, {"y"}}
    ScopesInUse = {1, 2, 5}
    MaxScopes = 2
INVARIANT SpecificScopeWins
CHECK_DEADLOCK FALSE
