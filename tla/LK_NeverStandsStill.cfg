SPECIFICATION LocksSpec
CONSTANTS
    Tasks = {t1, t2, t3}
    Sections = {"resolve", "update", "set_state", "topology", "settings", "recent", "log", "messages", "chat"}
INVARIANT NeverStandsStill
