SPECIFICATION Spec
CONSTANTS
    note = note
    report = report
    n1 = n1
    p1 = p1
    p2 = p2
    m1 = m1
    Readers = {r1, r2}
    Uploads <- MCUploads
    Corpus <- MCCorpus
    ChunksOf <- MCChunksOf
    PageSize = 2
    MaxResets = 1
    NoIndex = NoIndex
PROPERTY VisibleUnlessRaced
INVARIANT PagingReadsAPrefix
SYMMETRY ReaderSymmetry
