CONSTANTS
    Values = {a, b, c, d, e}
    Arities = {2, 3, 4}
    MaxBlocks = 6
SPECIFICATION SessionSpec
SYMMETRY Symmetric
INVARIANTS ProofVerifiesUntilAppend RootCommitsToFields TreesAgree ProofOpensPosition
