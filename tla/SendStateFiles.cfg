SPECIFICATION Spec
CONSTANTS
    MaxVersions = 6
INVARIANT FilesInv
INVARIANT NothingAckedIsForgotten
INVARIANT EitherFileSuffices
INVARIANT NeverRefusesUndamaged
PROPERTY ImplementsStore
