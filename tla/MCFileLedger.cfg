CONSTANTS
    Procs = {p1, p2}
    NoProc = NoProc
    Batches <- MCBatches
    MaxReplayEvents = 9
    MaxReplayPayload = 9
SPECIFICATION Spec
INVARIANTS AckedDurable NeverCorrupt ViewsAreTrue
PROPERTIES ImplementsDurableLog
SYMMETRY MCSymmetry
