SPECIFICATION MailboxSpec
CONSTANTS
    w1 = w1
    w2 = w2
    w3 = w3
    Writers = {w1, w2, w3}
    Refused = {w3}
    MaxSeq = 3
    Serialised = FALSE
    MaxRestarts = 1
    NoPayload = NoPayload
INVARIANTS
    UncontendedAckIsOwn
    ConsumedOncePerCommit
CHECK_DEADLOCK FALSE
