SPECIFICATION Spec
CONSTANTS
    Chats = {c1, c2}
    Users = {c1}
    Signals = {s1}
    Polls = {p1, p2}
    MaxUpdates = 2
    MaxFaults = 1
INVARIANTS
    BroadcastReaches
PROPERTIES
    EveryCommandTaken
