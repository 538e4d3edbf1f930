\* Two stored contexts and three more, four changes in a row.
SPECIFICATION Spec
CONSTANTS
    s1 = s1
    s2 = s2
    c1 = c1
    c2 = c2
    c3 = c3
    NoContext = NoContext
    Empty = Empty
    ContextIds = {s1, s2, c1, c2, c3}
    Capabilities = {"files.write"}
    Stored <- MCStored
    Documents <- MCDocuments
    MaxEvents = 4
    MaxChanges = 4
SYMMETRY NewIds
INVARIANTS
    NothingPrivateTravels
    NothingIsPreauthorized
    InterfacesAreValid
PROPERTIES
    PreviewAgrees
\* The changes explored run out.
CHECK_DEADLOCK FALSE
