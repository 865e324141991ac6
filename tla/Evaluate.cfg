SPECIFICATION Evaluates
CONSTANTS
    Targets <- MCTargets
    Edges <- MCEdges
    Small <- MCSmall
    CharBytes = {0, 1}
    CstrLengths = {0, 2, 7, 8, 127, 128, 32767}
    BufferSizes = {1, 3, 8}
    Widths = {0, 3, 30}
    Precisions <- MCPrecisions
INVARIANTS
    RunsAsDefined
    FoldsAsItRuns
    SlicesExact
    FitsItsBuffer
