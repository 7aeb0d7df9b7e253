CONSTANTS
    Inputs <- MC_Written
SPECIFICATION Spec
INVARIANTS
    DecoderConfigRecovered
CHECK_DEADLOCK FALSE
