\* Six headers, then up to five slices of text around tokens and markers.
CONSTANTS
    Tokens <- TwoTokens
    DigitValue <- Decimal
    Numeral <- OneChunk
    Chunks = 1
    MaxMarkerDigits = 2
    MaxVerdictLine = 3
    NoValue = NoValue
    Error = Error
    Openings <- Headers
    Fragments <- Mixed
    MaxSlices = 5
SPECIFICATION Spec
INVARIANTS
    NothingLeakedOrWithheld
    AnswerIsReference
    EventsInOrder
