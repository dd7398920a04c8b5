SPECIFICATION Spec
CONSTANTS
    UPSF_MAX_STRING_SIZE = 3
    UPSF_MAX_NUM = 2
    Stems = {"", "0", "1", "a", "b"}
    Callers = {c1}
    Messages <- MCMessages
    None = None
    MaxEdits = 0
    Oversized = FALSE
INVARIANT
    StatusBidirectional
