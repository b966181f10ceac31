SPECIFICATION Spec
CONSTANTS
    client = client
    handler = handler
    Threads = {client, handler}
    Creator = client
    MaxRefs = 3
INVARIANTS
    DestroyedOnce
CHECK_DEADLOCK FALSE
