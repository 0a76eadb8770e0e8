CONSTANTS
    s1 = s1
    s2 = s2
    Station = {s1, s2}
    None = none
    Quantity = {1, 8, 9}
    MaxRequests = 3
SPECIFICATION Spec
INVARIANTS NoOldAnswer AnswerFits OwnAnswer
