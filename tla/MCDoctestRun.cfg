\* Five programs under nineteen sets of options, with a signal at any point.
SPECIFICATION FairSpec
CONSTANTS
    Main = Main
    w1 = w1
    w2 = w2
    Workers = {w1, w2}
    Nobody = Nobody
    Programs <- Programs5
    Contexts <- Contexts19
    Alphabet <- Letters
    INT_MAX = 49
    Signals = TRUE
CHECK_DEADLOCK FALSE
INVARIANTS
    IInv
    EachLeafOnce
    ExitCodeTells
    SelectedAreRun
    AbortIsPrompt
    HeaderIsCurrent
    InfoIsCurrent
    XmlWellFormed
PROPERTIES
    SkippedForGood
    RunEnds
