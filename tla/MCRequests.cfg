SPECIFICATION MCSpec
CONSTANTS
    Documents <- MCDocuments
    BatchFields = 2
    MaxSkips = 1
    MaxFields = 6
    MaxScanFields = 11
    MaxQueryFields = 2
    Clients = {c1, c2}
    Writers = {w1, w2}
    ann = ann
    bot = bot
    home = home
    work = work
SYMMETRY Symmetry
CHECK_DEADLOCK FALSE
INVARIANTS
    
    
    RoutedRight
    WritesToldTruthfully
    BankListExact
    FieldsScanned
