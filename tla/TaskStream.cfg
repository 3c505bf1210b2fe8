\* Two tasks one after the other on one session, with a history of one, so
\* that a streamed task is evicted; one client, since clients share nothing.
SPECIFICATION StreamSpec
CONSTANTS
    TaskIDs = {t1, t2}
    Sessions = {s1}
    MaxTasks = 1
    NoTask = NoTask
    NoSession = NoSession
    Clients = {c1}
    Lines = {x, y}
    MaxOutput = 2
INVARIANTS StreamTypeOK SentIsPrefix EndedIsWhole FinalAnswerIsWhole
PROPERTIES StreamEnds
