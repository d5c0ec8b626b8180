SPECIFICATION Spec
CONSTANTS
    Callers = {a, b}
    Ops = {"append_chat_message", "clear_chat", "delete_session", "upsert_segment_trans"}
    Live = {l1}
    Whole = {w1}
    StoreFails = TRUE
    MaxMessages = 4
    MaxCrashes = 1
SYMMETRY CallerSymmetry
INVARIANTS TypeOK AckedMessageKept ChatInTimeOrder
CHECK_DEADLOCK FALSE
