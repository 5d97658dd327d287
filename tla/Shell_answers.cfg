CONSTANTS
    tools = tools
    u1 = u1
    Listings = {tools}
    Tools = tools
    Unlisted = Unlisted
    Empty = Empty
    URIs = {u1}
    Given = {"yes"}
    MaxChanges = 0
    MaxLines = 3
    MaxDrops = 1
SPECIFICATION ShellSpec
INVARIANTS LastAnswersUsed
CHECK_DEADLOCK FALSE
