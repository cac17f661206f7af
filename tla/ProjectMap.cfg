SPECIFICATION FairSpec
CONSTANTS
    Projects = {p1}
    Terms = {"4", "5"}
    TermName <- MCTermName
    Types = {"456"}
    Args = {"", "Ivanhoe"}
    Requests = {r1, r2}
    Others = {r2}
    Asked <- SomeFilters
    Edits <- SomeNodes
    MaxEdits = 1
    NoRow = NoRow
INVARIANTS TypeOK AnswersExplained RowsExplained SearchExact SearchNarrows
PROPERTIES EventuallyFresh
