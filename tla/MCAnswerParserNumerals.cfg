\* Brackets around digits int() takes and one it refuses.
CONSTANTS
    Tokens <- TwoTokens
    DigitValue <- Superscript
    Numeral <- OneChunk
    Chunks = 1
    MaxMarkerDigits = 2
    MaxVerdictLine = 3
    NoValue = NoValue
    Error = Error
    Openings <- ShortHeader
    Fragments <- Numbering
    MaxSlices = 5
SPECIFICATION Spec
INVARIANTS
    AnyTextIsRead
