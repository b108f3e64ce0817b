CONSTANTS
    Word <- MCWord
    Script <- MCScript
CHECK_DEADLOCK FALSE
SPECIFICATION Spec
INVARIANTS
    AnswersRight
    EveryAnswerEnds
PROPERTY
    ParseReturns
