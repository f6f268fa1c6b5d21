CONSTANTS
    w1 = w1
    w2 = w2
    Workers = {w1, w2}
    Paths <- MCPaths
    Names <- MCNames
    Scanned = {"a.md", "b/a_txt.md", "c/a.txt"}
    Listed = {"a.md", "p.pdf"}
    Pdfs = {"p.pdf"}
    Texts = {"report", "note", "blank", "image", "unsafe"}
    Blocks <- MCBlocks
    Undecodable = {"image"}
    Unsafe = {"unsafe"}
    Absent = "Absent"
    Disks <- MCDisks
    Edits <- MCEdits
    UploadIds <- MCUploadIds
    ChunkSize = 8
    Overlap = 2
    MaxCalls = 3
    MaxEdits = 1
SPECIFICATION IngestSpec
INVARIANTS
    TextIsIndexed
    CorpusIsOneLoad
    ChunksAreFaithful
    ChunksKeepToSize
SYMMETRY SymmetryWorkers
CHECK_DEADLOCK FALSE
