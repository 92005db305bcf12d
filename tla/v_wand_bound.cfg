CONSTANTS
    BlockSize = 2
    MaxTf = 4
    VarintBase = 4
    Idf <- LnTable
    Absent = Absent
    Corpora <- Books
    Requests <- Asked
    TitleBoost = 2
    DescBoost = 1
    KMin = 1
    KFactor = 1
SPECIFICATION Spec
INVARIANT SkippedCannotCompete
CHECK_DEADLOCK FALSE
