\* One ordinary turn and one streamed turn, two threads of the pool.
CONSTANTS
    Turns = {ask, stream}
    Streams = {stream}
    Workers = {w1, w2}
    NoThread = NoThread
    Challenges = {1, 2}
    MaxSaves = 3
SPECIFICATION TurnSpec
INVARIANTS TurnsAreSerial
