\* Two holders and two global objects: nested, overlapping, moved and
\* overwritten holders; two SIGINTs: one that coalesces with the other, one
\* that comes while the other is being delivered; two installs and more.  With a
\* receiver held, only the first (ReceiverBound).
CONSTANTS
    Holders = {h1, h2}
    Globals = {g1, g2}
    Receivers = {r1}
    MaxSignals = 2
    None = none
    MaxTokens = 2
SPECIFICATION Spec
CHECK_DEADLOCK FALSE
INVARIANTS TypeOK NothingStranded NoForgedSignal WatcherFollowsHolders
CONSTRAINT ReceiverBound
PROPERTIES AcceptedReachesHolder UninstallReturns
