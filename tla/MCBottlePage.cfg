SPECIFICATION Spec
CONSTANTS
    Keys = {k1, k2}
    None = None
    MaxActivations = 3
    MaxIdentities = 2
    MaxMessages = 1
    MaxUploads = 2
    MaxImports = 2
INVARIANTS TypeOK CeremonyIsGuarded ExportNeedsVerifiedBackup BusyUntilRendered NoIdentityWhileOpening UploadsAreConfirmed DuplicatesAreUnseen
SYMMETRY MCSymmetry
CHECK_DEADLOCK FALSE
