CONSTANTS
    d1 = d1
    d2 = d2
    t1 = t1
    t2 = t2
    Docs = {d1}
    Texts = {t1, t2}
    None = None
    MaxQueries = 3
    HeaderLimit = 5
    MessageLimit = 4
    ReadLimit = 8
    PumpLimit = 2
    Headers = {2, 5, 6}
    Lengths = {0, 4, 5}
    MaxWaiting = 3
SPECIFICATION ClientSpec
CHECK_DEADLOCK FALSE
INVARIANTS TypesOK FramesJudged InFlightMatches DefinitionAsked AnswersMatchText ServerCounted RestartedOnce
PROPERTIES QueriesResolved
