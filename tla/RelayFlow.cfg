\* Clients that keep reading.  Two connections, two ids and one session are
\* enough for a lock section to write to another connection's socket (a
\* join notice, a DISCONNECT) and for one connection to hold two ids.
\* HighWater = 0: one unread frame makes drain() wait, which is what the
\* transport does when a frame is larger than its high-water mark (64 KiB
\* by default; a DATA frame may carry up to 10 MiB).  One relayed DATA
\* byte exercises both halves of the accounting.  No symmetry (the run
\* checks liveness); the view leaves out `sent`, which no guard reads.
CONSTANTS
    Conns = {c1, c2}
    Ids = {p1, p2}
    Sessions = {s1}
    NoId = NoId
    NoSession = NoSession
    EmptyId = NoId
    HighWater = 0
    MaxRelayed = 1

SPECIFICATION ReadingSpec
VIEW FlowView

INVARIANT FlowTypeOK
INVARIANT AccountingBound
PROPERTY StalePeerEvicted
