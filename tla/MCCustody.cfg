SPECIFICATION MCCustodySpec
CONSTANTS
    s1 = s1
    s2 = s2
    s3 = s3
    m1 = m1
    m2 = m2
    Stores = {s1, s2, s3}
    Machines = {m1, m2}
    MachineOf <- MCMachineOf
    NoStore = NoStore
    Changes = {1, 2}
    LifeRequests = {1}
    MaxEdits = 2
    MaxUpsets = 2
INVARIANTS  DefinitionIsSnapshot BriefOnce
PROPERTIES OnlyThatLifetime
CHECK_DEADLOCK FALSE
