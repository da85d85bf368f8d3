SPECIFICATION FairSpec
CHECK_DEADLOCK FALSE
CONSTANTS
    ann = ann
    bob = bob
    eve = eve
    NoOne = NoOne
    People = {ann, bob, eve}
    Capacity = 2
    MaxRequests = 1
    MaxEntries = 3
    MaxMessages = 2
    MaxFaults = 1
INVARIANTS
    OneHand
    ResultsAreTrue
PROPERTIES
    ExchangesAreAgreed
    QuestionsEnd
