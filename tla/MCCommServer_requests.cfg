SPECIFICATION FairSpec
CONSTANTS
    bob = bob
    Members = {bob}
    Workers = {w1, w2}
    Asks = {q1}
    Answers = {r1, r2}
    To <- ToBob
    None = None
INVARIANTS
    AnsweredNotPending
    AnsweredConfirmed
PROPERTIES
    StatusMoves
    BeatingIsOnline
