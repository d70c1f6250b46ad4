SPECIFICATION AllSpec
CONSTANTS
    Family = {"foo", "bar"}
    None = None
    NumInodes = 3
    MaxVersion = 3
    Faults = {"call"}
    Chars = {"a",".","'",";",">","~","1"}
    Versions <- MCVersions
    MaxLength = 5
INVARIANTS SettledInOrder RecognitionRight ListingAgrees 
PROPERTY ImplementsVersionedFiles
CHECK_DEADLOCK FALSE
VIEW StateView
