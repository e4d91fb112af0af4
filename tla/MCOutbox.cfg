CONSTANTS
    viewed = viewed
    message = message
    again = again
    job = job
    application = application
    messaging = messaging
    p1 = p1
    p2 = p2
    Events = {viewed, message, again}
    KeyOf <- MCKeyOf
    Node = {job, application}
    Buffering = {messaging}
    Falling = {messaging}
    HomeOf <- MCHomeOf
    Polls = {p1, p2}
    PollOf <- MCPollOf
    BatchSize = 1
    MaxFaults = 3
SPECIFICATION MCSpec
INVARIANTS
    TypeOK
    NothingIsSkipped
PROPERTIES
    RefinesEventDelivery
    StoredIsCounted
