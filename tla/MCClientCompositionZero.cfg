CONSTANTS
    Sizes = {1}
    ActiveSizes = {0, 1}
    Windows <- MCWindows
    SecurityCases <- MCSecurityCases
    TexMatrix <- MCTexMatrix

SPECIFICATION Spec

INVARIANT ProjectionFinite
