CONSTANTS
    Sizes = {1, 2}
    ParentBounds <- MCParentBounds

SPECIFICATION Spec

INVARIANT TypeOK
INVARIANT InverseUndoesOrientation
INVARIANT BoundsAgree
