SPECIFICATION TabsSpec
CONSTANTS
    OpenTabs = {tab1, tab2}
    Logins = {1}
    SessionIds = {1}
    Tokens = {1, 2, 3, 4, 5, 6}
    Grace = 1
    Idle = 2
    Lifetime = 3
    Horizon = 4
CHECK_DEADLOCK FALSE
INVARIANTS
    Inv
    OneTabStaysSignedIn
