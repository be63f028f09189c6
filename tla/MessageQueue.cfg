SPECIFICATION Spec
CONSTANTS
    MaxMessages = 5
    MaxCount = 3
INVARIANTS TypeOK UniqueIds AnswersMatch SettledOnce
PROPERTIES OthersUntouched
