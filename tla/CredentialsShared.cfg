\* Two processes with a shared secret share storage and critical section, under fairness.
SPECIFICATION FairSpec
CONSTANTS
    a1 = a1
    a2 = a2
    Agents = {a1, a2}
    Provisioned = {a1, a2}
    Persistent = {a1, a2}
    Rsa = FALSE
    UseLock = TRUE
    SaveReportsErrors = TRUE
    RatSurvivesRotation = TRUE
    Calls = {"onboard", "rotate", "update"}
    MaxClients = 2
    MaxGrants = 4
    MaxKeys = 0
    MaxLate = 1
INVARIANT CredentialsWhole
INVARIANT StorageIsNewestSaved
PROPERTY ReportedSuccessIsStored
PROPERTY ClientNeverChanges
PROPERTY RefinesSync
PROPERTY SectionIsLeft
