SPECIFICATION Spec
CONSTANT MaxCalls = 5
INVARIANTS TypeOK SendTrue DeleteTrue NoSpill CommandMode
CHECK_DEADLOCK FALSE
