SPECIFICATION Spec
CONSTANTS
    RX_START = 2
    RX_STOP = 7
    UNITS = 2
    MAX_COUNT = 5
    MIN_CAP = 2
    MIN_TX = 2
    Lens = {1, 3, 5}
    Caps = {1, 2, 4}
    TxFrames <- MCTxFrames
    POLLS = 1
    Traffic <- MCTraffic
INVARIANTS ReadsInsideRing AnswerIsOwn
PROPERTIES ImplementsFrameQueue NetCallReturns
