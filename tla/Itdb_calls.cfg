SPECIFICATION Spec
CONSTANTS
    HeaderPad = 1
    NULL = NULL
    ForeignTrees <- Trees
    ForeignFile <- ITunesFile
    EqPresets <- NoPresets
    DefaultPresets <- OnePreset
    Names = {11, 12}
    Extensions = {201, 203}
    Texts <- SomeTexts
    Ratings = {300}
    MaxChanges = 3
INVARIANTS TypeOK ShuffleFollows ForeignDataSurvives
PROPERTIES ReadBack DerivedAgrees Implements
