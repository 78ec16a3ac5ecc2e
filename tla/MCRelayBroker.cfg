SPECIFICATION FairSpec
CONSTANTS
    p = p
    s = s
    h1 = h1
    None = None
    Agent = {a1, a2}
    Client = {c1}
    Id <- MCId
    Meta <- MCMeta
    ItemLists <- MCLists
    Oversized = {}
    Name <- MCName
    MAX_AGENT_SOURCES = 2
    MAX_CLIENTS = 1
INVARIANTS ClientListFresh CountFresh
PROPERTIES NoFlap AbandonedHostEmpties ImplementsBoard
