SPECIFICATION Spec
CONSTANTS
    w1 = w1
    w2 = w2
    Windows <- MCWindows
    Sizes = {1}
    Positions = {0, 1}
    NoMove = NoMove
    MaxSerial = 2
    MaxInbox = 2
INVARIANTS
    CohortShape
PROPERTIES
    FrozenUntilPresented
    StragglerKeepsMove
    AnswerIsForThisCohort
    ImplementsBarrier
VIEW MCView
