\* One task, two attempts, the first of them delivered twice.
SPECIFICATION FairSpec
CONSTANTS
    t = t
    d1 = d1
    d2 = d2
    d3 = d3
    Tasks = {t}
    Deliveries = {d1, d2, d3}
    TaskOf <- AllOneTask
    AttemptOf <- Attempts
    RulesOf <- WorkRules
    Answers <- SampleAnswers
INVARIANTS
    CalledOncePerAttempt
PROPERTIES
    ImplementsRegister
    AnswerSettles
CHECK_DEADLOCK FALSE
