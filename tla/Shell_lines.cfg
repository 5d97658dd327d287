CONSTANTS
    tools = tools
    prompts = prompts
    u1 = u1
    u2 = u2
    Listings = {tools, prompts}
    Tools = tools
    Unlisted = Unlisted
    Empty = Empty
    URIs = {u1, u2}
    Given = {"yes"}
    MaxChanges = 2
    MaxLines = 3
    MaxDrops = 1
SPECIFICATION ShellSpec
INVARIANTS ListsAreCurrent FollowedIsKept
SYMMETRY Symmetry
CHECK_DEADLOCK FALSE
