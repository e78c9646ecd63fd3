SPECIFICATION FairSpec
CONSTANTS
    t1 = t1
    t2 = t2
    txt = txt
    dev = dev
    Threads = {t1, t2}
    Files = 2
    Handles = 2
    Fs0 = 2
    Dev = dev
    Devices <- MCDevices
    Paths <- MCPaths
    HostFiles <- MCHostFiles
INVARIANTS
    FilesInv
    HostMatches
    AttachedFound
PROPERTIES
    FilesReturn
