SPECIFICATION FairSpec
CONSTANTS
    Peer <- MCPeer
    Incoming <- MCIncoming
    MaxPeers = 1
    OfferCap = 1
    SendCap = 1
    InfoCap = 1
    CallbackTTL = 0
    MaxOffers = 2
    WireCap = 1
INVARIANT OffersReliable
INVARIANT IdFileLive
PROPERTY Reconnects
PROPERTY EndsClean
INVARIANT ClientSound
CHECK_DEADLOCK FALSE
