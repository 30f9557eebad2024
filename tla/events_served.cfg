CONSTANTS
    client = client
    handler = handler
    page1 = page1
    page2 = page2
    NoEvent = NoEvent
    Publishers <- MCPublishers
    Handlers <- MCHandlers
    Subscribers <- MCSubscribers
    Cap = 2
    ChanCap = 1
    MaxSeq = 3
SPECIFICATION Safety
INVARIANT SubscribersServed
CHECK_DEADLOCK FALSE
