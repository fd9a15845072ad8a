SPECIFICATION Spec
CONSTANTS
    NCpu = 3
    Buffers <- MCBuffers
    Jobs <- MCJobs
    SPIN = 2
    b1 = b1
    b2 = b2
    j1 = j1
    j2 = j2
INVARIANTS FrameShowsJob NoStrayWrite
PROPERTY CallReturns
