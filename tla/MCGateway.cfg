SPECIFICATION FairSpec
CONSTANTS
    c1 = c1  c2 = c2
    Calls = {c1, c2}
    Does <- MCDoes
    Nobody = Nobody
    HttpTimeout = 1
    Margin = 2
    TokenTTL = 3
    MaxRequests = 1
    ConsecutiveFailures = 2
INVARIANTS
    AnswersAreTrue
    TokenValidOnArrival
    ProviderIsShielded
PROPERTIES
    CallsReturn
