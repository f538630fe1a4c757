CONSTANTS
    Codes = {50126, 50076, 50034, 65001, 7000218, 1}
    MaxCodes = 3
SPECIFICATION Spec
INVARIANTS VerdictIsRight
CHECK_DEADLOCK FALSE
