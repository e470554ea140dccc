CONSTANTS
    MaxPage = 2
    MaxSearch = 1
    None = None
SPECIFICATION Spec
INVARIANTS
    EditLinksEdit
CHECK_DEADLOCK FALSE
