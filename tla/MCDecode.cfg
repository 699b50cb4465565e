CONSTANTS
    Answers <- SomeAnswers
SPECIFICATION Spec
INVARIANTS
    TypeOK
    DecodedAsSent
    RulesHonest
