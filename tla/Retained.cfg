SPECIFICATION RetainedSpec
CONSTANTS
    Symbols = {"a", "b"}
    Marker <- MCMarker
    PatternSets <- MCPatternSets
    Limits = {1, 3, 20}
    MaxPatterns = 2
    MaxPattern = 3
    MaxChunk = 2
    MaxOutput = 7
    TreePaths <- MCTreePaths
    PathSequence <- MCPathSequence
    Blobs <- MCBlobs
    BlobSize <- MCBlobSize
    Missing = missing
    ContentLimits <- MCContentLimits
    Bases <- MCBases
    MaxTouched = 2
INVARIANTS
    ProtectedValuesNeverShow
    ChunksDoNotMatter
    NothingWithheldNeedlessly
    OnlyReuseStopsAssembly
    ChangesTellEverything
    ContentsFit
CHECK_DEADLOCK FALSE
