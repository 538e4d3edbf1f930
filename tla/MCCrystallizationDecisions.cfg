\* Decisions of the user, and the template of the context they were made in.
SPECIFICATION Spec
CONSTANTS
    s1 = s1
    s2 = s2
    c1 = c1
    c2 = c2
    c3 = c3
    NoContext = NoContext
    Empty = Empty
    ContextIds = {s1, s2, c1, c2, c3}
    Capabilities = {"files.write"}
    Stored <- MCStored
    Documents <- MCDocuments
    MaxEvents = 4
    MaxChanges = 3
PROPERTIES
    DecisionsReachTheTemplate
CHECK_DEADLOCK FALSE
