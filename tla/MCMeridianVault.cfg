SPECIFICATION Spec
CONSTANTS
    l1 = l1
    l2 = l2
    c1 = c1
    c2 = c2
    low = low
    high = high
    p1 = p1
    p2 = p2
    Procs = {p1, p2}
    Files = {f1, f2}
    GivenNames = {given}
    Texts = {t1, t2}
    Ledgers = {l1, l2}
    Corpora = {c1, c2}
    Policies = {low, high}
    Authorized <- MCAuthorized
    Noise = Noise
    None = None
    MaxCommands = 3
    MaxDeaths = 1
INVARIANTS TypeOK ConfigIsComplete IndexedIsStored BornOpenable WipedCanBeOpened QuietIndexNamesEveryEntry
SYMMETRY MCSymmetry
CHECK_DEADLOCK FALSE
