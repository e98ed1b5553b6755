\* A failed stream and rag_qa_errors_total.
CONSTANTS
    MaxDeltas = 1
    None = None
SPECIFICATION Spec
INVARIANTS
    ErrorCountedOnce
