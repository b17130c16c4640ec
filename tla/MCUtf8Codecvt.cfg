SPECIFICATION Spec
CONSTANTS
    Jobs <- MCJobs
    Rooms <- MCRooms
    Rewinds = 1
INVARIANTS
    TypeOK
    InsideBuffers
    PieceIndependent
    OkIsComplete
    UnshiftTellsHalf
PROPERTY ConvertsTheText
