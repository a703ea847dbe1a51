SPECIFICATION MCSpec
CONSTANTS
    Argument <- SomeArguments
    MaxArg = 2
    UintSize = 16
    MaxLength = 40
CHECK_DEADLOCK FALSE
INVARIANTS
    CountsAsAsked
    ScriptOnlyIfBoth
    SameAnywhere
    InWordsOfKey
    OnlyEmptyUnmixed
