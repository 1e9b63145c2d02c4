CONSTANTS
    a = a
    b = b
    c = c
    N = 2
    Texts = {a, b, c}
    Near <- MCNear
    Length <- MCLength
    Sources = {"stated", "inferred"}
    Categories = {"scope"}
    Confidence <- MCConfidence
    MaxFacts = 2
    InferredCap = 2
    InsightCap = 1
    RecallLimit = 1
    MaxOps = 4
SPECIFICATION Spec
INVARIANT MemoryInv
PROPERTIES EditLosesNothing KnowledgeIsDeliberate
CHECK_DEADLOCK FALSE
