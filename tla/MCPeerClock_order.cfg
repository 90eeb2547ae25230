SPECIFICATION ClockSpec
CONSTANTS
    alice = alice
    bob = bob
    Peers <- ThePeers
    Self = alice
    SnapshotClocks <- Snapshots
    MaxEvents = 4
    MaxRestarts = 1
CHECK_DEADLOCK FALSE
INVARIANTS
    AskOrder
    CompareIsCausal
    MergeIsLub
