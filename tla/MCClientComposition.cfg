CONSTANTS
    Sizes = {1, 2}
    ActiveSizes = {1, 2}
    Windows <- MCWindows
    SecurityCases <- MCSecurityCases
    TexMatrix <- MCTexMatrix

SPECIFICATION Spec

INVARIANT TextureMapsWindow
INVARIANT FallbackUnreachable
