\* Command lines of up to three arguments of every kind.
CONSTANTS
    Texts <- MCTexts
    NumberIn <- MCNumberIn
    TruthIn <- MCTruthIn
    TokensIn <- MCTokensIn
    TrueText = "true"
    Arguments <- MCArguments
    MaxArguments = 3
    Hardwares = {0, 4}
    IntUS = 1048576
    IncorrectType = IncorrectType
SPECIFICATION Spec
INVARIANTS
    CountsAreFound
    ConfiguredAsAsked
    RefusedForAFault
