SPECIFICATION Spec
CONSTANTS
    client = client
    cli = cli
    daemon = daemon
    ask = ask
    other = other
    Procs = {client, cli}
    Threads = {daemon, ask, other}
    ProcOf <- TwoAndOne
    Peers = {bob, carol}
    Ids = {r1}
    MaxEvents = 2
    MaxCrashes = 1
INVARIANTS
    DuplicatesBounded
PROPERTIES
    NewestKept
CHECK_DEADLOCK FALSE
