SPECIFICATION FairSpec
CONSTANTS
    c1 = c1
    c2 = c2
    c3 = c3
    q1 = q1
    q2 = q2
    h1 = h1
    h2 = h2
    Calls = {c1, c2, c3}
    Queries = {q1, q2}
    QueryOf <- TwoQueries
    Bypass = {c3}
    Shas = {h1, h2}
    MAX_CONCURRENT_CALLS = 2
    MEMO_CAPACITY = 1
    MaxMoves = 2
INVARIANTS TypeOK AnswerDescribesItsCall
PROPERTY EveryCallIsAnswered
CHECK_DEADLOCK FALSE
