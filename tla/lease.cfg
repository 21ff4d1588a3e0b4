\* One page of two that refresh one token, and each part of the page on its own.
SPECIFICATION FairConsole
CONSTANTS
    Requests = {w1, w2}
    NoRequest = NoRequest
    Own = {w1}
    Edits = {e1, e2}
    Queries = {q1, q2}
    Nothing = Nothing
    MaxAsks = 3
    MaxRows = 1
INVARIANTS
    Exclusive
    OutcomeIsOwn
    ListIsAsked
PROPERTIES
    OutcomeStable
    EditsKept
    PageIsTold
\* When every request is over, and the list was asked for often enough, nothing
\* is left to do.
CHECK_DEADLOCK FALSE
