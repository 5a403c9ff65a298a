CONSTANTS
    Pairs <- SomePairs
    Discrete <- SomeDiscrete
    MaxGiven = 3
    TrustAll = FALSE
    None = None
    Bad = Bad
SPECIFICATION Spec
INVARIANTS NothingChosenSilently TlsAsAsked OrderIrrelevant CanonicalIfTidy
