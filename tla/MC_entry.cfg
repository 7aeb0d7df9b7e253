CONSTANTS
    Inputs <- MC_ParserLayout
SPECIFICATION Spec
INVARIANTS
    TypeOK
    ReadsBackWhatWasWritten
CHECK_DEADLOCK FALSE
