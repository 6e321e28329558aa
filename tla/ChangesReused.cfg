SPECIFICATION AssemblySpec
CONSTANTS
    TreePaths <- MCTreePaths
    PathSequence <- MCPathSequence
    Blobs <- MCBlobs
    BlobSize <- MCBlobSize
    Missing = missing
    ContentLimits <- MCContentLimits
    Bases <- MCBases
    MaxTouched = 2
INVARIANTS
    EveryChangeHasItsLayers
CHECK_DEADLOCK FALSE
