SPECIFICATION EvalSpec
CONSTANTS
    Cases <- MCCases
    Answers <- MCAnswers
INVARIANTS
    CreditIsEarned
    HostExecutionIsOnRecord
    ChangedTestsVoidTheRepair
    AnswersAreTakenWhole
