SPECIFICATION Spec
CONSTANTS
    Pieces <- MCPieces
    Documents <- MCDocuments
    FieldOf <- MCFieldOf
    Ports <- MCPorts
    MaxDepth = 1
    Null = Null
INVARIANTS LeavesAreKept MembersStayMembers
CHECK_DEADLOCK FALSE
