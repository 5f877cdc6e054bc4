\* Two processes with RSA key pairs made by the agents, which also get access tokens, without a
\* critical section, from a service that drops a registration token with the next rotation.
SPECIFICATION Spec
CONSTANTS
    a1 = a1
    a2 = a2
    Agents = {a1, a2}
    Provisioned = {a1}
    Persistent = {a1, a2}
    Rsa = TRUE
    UseLock = FALSE
    SaveReportsErrors = FALSE
    RatSurvivesRotation = FALSE
    Calls = {"onboard", "rotate", "update", "token"}
    MaxClients = 2
    MaxGrants = 3
    MaxKeys = 3
    MaxLate = 0
INVARIANT EqualKeysMeanEqualTokens
INVARIANT TokenBelongsToClient
CHECK_DEADLOCK FALSE
