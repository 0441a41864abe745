CONSTANTS
    File <- MCFile
    Document <- MCDocument
    MaxFiles = 4
SPECIFICATION TakeoutSpec
INVARIANTS
    SidecarsSettled
    CleanParseIsComplete
    PhotosAreComponents
