SPECIFICATION DeliverySpec
CONSTANTS
    Launches = 3
    HostTier = {2}
    MaxControls = 2
    MaxQuiet = 1
    MaxRootEdits = 1
    MaxContracts = 2
    MaxLetters = 2
    MaxReminders = 1
    MaxRepairs = 1
    MaxMail = 3
    MaxWork = 3
    BufferCap = 2
    MaxChanges = 1
INVARIANTS OwnerNotStopped ListFindsState SentOnce NoLostWake BufferBound
PROPERTIES ForgottenStays  
CHECK_DEADLOCK FALSE
