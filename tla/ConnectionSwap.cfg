SPECIFICATION Spec
CONSTANTS
    Callers = {a, b, c}
    Ops = {"replace_segments", "get_session", "delete_session", "set_session_status"}
    Live = {l1}
    Whole = {w1, w2}
    StoreFails = FALSE
    MaxMessages = 0
    MaxCrashes = 0
SYMMETRY CallerSymmetry
INVARIANTS TornOnlyDuringSwap ReadNeverMixed
CHECK_DEADLOCK FALSE
