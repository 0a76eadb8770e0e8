CONSTANTS
    WordBits = 2
    AccumulatorBits = 6
    AnswerWords = {0, 1, 2}
    Setups <- MCSetups
    StartTime = 4
    EndTime = 10
SPECIFICATION TableSpec
INVARIANTS ValueIsReading
PROPERTIES QualityNeedsReading
