\* One lost SendReply: the final status of an executed command is owed by nobody.
SPECIFICATION Spec
CONSTANTS
    c1 = c1  c2 = c2  w1 = w1  w2 = w2
    None = None
    Commands <- MCCommands
    Workers = {w1, w2}
    Messages <- MCMessages
    Malformed <- MCNoMalformed
    DedupHistory = 2
    LossyCalls = {"reply"}
    DrainExpires = FALSE
    MaxExits = 0
    MaxCrashes = 0
INVARIANTS FinalReplyOwed
