SPECIFICATION StableSpec
CONSTANTS
    bob = bob
    carol = carol
    client = client
    bridge = bridge
    q1 = q1
    q2 = q2
    a1 = a1
    Peers = {bob}
    Questions = {q1}
    Assets = {a1}
    To <- AllToBob
    Asker = bridge
    Daemon = client
    Resolver = FALSE
    MaxSyncs = 0
    MayRestart = TRUE

    
PROPERTIES
    KeptUnlessOverwritten
    
