CONSTANTS
    u1 = u1
    u2 = u2
    go = go
    web = web
    the = the
    cafe = cafe
    caf = caf
    i1 = i1
    i2 = i2
    Words <- LexWords
    DroppedWords = {the}
    Pieces <- LexPieces
    Pages <- WebPages
    Queries <- WebQueries
    Indexers = {i1, i2}
    TopK = 1
    BatchRows = 3
    MaxPages = 2
    MaxRestarts = 2
SPECIFICATION Spec
INVARIANTS
    TypeOK
    SearchBounded
    
    RestoreExact
    
    RowsLost
    
    DocCountTruthful
SYMMETRY Symm
