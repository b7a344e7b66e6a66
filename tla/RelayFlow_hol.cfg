\* A client that stops reading its socket, under the fairness the event
\* loop and asyncio.Lock give every server task.  Same bounds as
\* RelayFlow.cfg.
CONSTANTS
    Conns = {c1, c2}
    Ids = {p1, p2}
    Sessions = {s1}
    NoId = NoId
    NoSession = NoSession
    EmptyId = NoId
    HighWater = 0
    MaxRelayed = 1

SPECIFICATION SlowReaderSpec
VIEW FlowView

PROPERTY StalePeerEvicted
