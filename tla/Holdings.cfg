SPECIFICATION Spec
CONSTANTS
    Handles <- MCHandles
    RowIds <- MCRowIds
    Cursors <- MCCursors
    Long <- MCLong
    Buffers <- MCBuffers
    Columns <- MCColumns
    FetchSize = 2
    SequenceNames <- MCSequenceNames
    Objects <- MCObjects
    Descriptors <- MCDescriptors
    Foreign <- MCForeign
    Moments <- MCMoments
    Holders <- MCHolders
    Queries <- MCQueries
    Prepared <- MCPrepared
    Names <- MCNames
    Contents <- MCContents
    Sizes = 3
    Offsets = 8
    Databases <- MCDatabases
    HostValues <- MCHostValues
    MaxCommands = 4
    Sessions <- MCSessions
    Tables <- MCTables
    MaxRows = 2
    BatchedRows = 3
    MaxExec = 3
    MaxNesting = 2
    MaxLocks = 2
INVARIANTS
    HandlesLegal
    DataStays
    TablesLocked
CHECK_DEADLOCK FALSE
