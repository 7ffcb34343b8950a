CONSTANTS
    Clis = 3
    MaxUpsets = 1
    MaxConsoles = 1
    Defined = {"none", "resident", "managed"}
    Agents = {a1, a2}
    SessionIds = {1, 2}
    MaxSilent = 0
SPECIFICATION Spec
INVARIANTS SessionNotShared
PROPERTIES  NestedHandedBack
CHECK_DEADLOCK FALSE
