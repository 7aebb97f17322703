\* An upload or a Brief draft, one manual import and one editor at a time.
SPECIFICATION Spec
CONSTANTS
    long = long
    short = short
    noText = noText
    worker = worker
    importer = importer
    e1 = e1
    Texts = {long, short}
    NoText = noText
    MaxPieces = 2
    Pieces <- ChunkCounts
    Worker = worker
    Importer = importer
    Editors = {e1}
    MaxVersion = 3
    Budgets <- Mixes
INVARIANTS
    TextTrue
    Searchable
PROPERTY JobsEnd
CHECK_DEADLOCK FALSE
