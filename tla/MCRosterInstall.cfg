SPECIFICATION LiveSpec
CONSTANTS
    r1 = r1
    r2 = r2
    Roots = {r1, r2}
    NoRoot = NoRoot
    NoDoc = NoDoc
    None = None
    Clients = {c1}
    Handlers = {h1}
    Poller = poll
    MaxFaults = 1
    MaxCrashes = 1
    Feed <- MCFeed
    Forged <- MCForged
INVARIANTS Durable Settled CrashSafe PollNeverCut
PROPERTIES NeverRollsBack Converges
CHECK_DEADLOCK FALSE
