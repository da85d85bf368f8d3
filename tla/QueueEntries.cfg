SPECIFICATION Spec
CONSTANTS
    ann = ann
    bob = bob
    eve = eve
    NoOne = NoOne
    People = {ann, bob, eve}
    Markers = {ann}
    Capacity = 2
    MaxFaults = 1
    Limits <- Instances
INVARIANTS OneSeatEach BlockedStayOut AnswersAreTrue
PROPERTIES SwapsAreAgreed PlacesAreKept BlocksAreKept MarksFollowPeople ImplementsSeating
