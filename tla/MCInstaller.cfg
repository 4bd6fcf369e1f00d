SPECIFICATION Spec
CONSTANTS
    p1 = p1
    p2 = p2
    r1 = r1
    r2 = r2
    dev = dev
    b1 = b1
    b2 = b2
    b3 = b3
    k1 = k1
    k2 = k2
    f1 = f1
    f2 = f2
    Procs <- MCProcs
    Releases <- MCReleases
    Binaries <- MCBinaries
    Keys = {k1, k2}
    BinaryOf <- MCBinaryOf
    KeyOf <- MCKeyOf
    Signed <- MCSigned
    Files = {f1, f2}
    TreeFiles <- MCTreeFiles
    First = r1
    None = None
    Temp = Temp
    MaxInstalls = 3
    MaxChanges = 2
    MaxStops = 2
INVARIANTS TypeOK OnlySignedBinaries AuditedIsOneRelease FinishedInstallPasses
SYMMETRY MCSymmetry
CHECK_DEADLOCK FALSE
