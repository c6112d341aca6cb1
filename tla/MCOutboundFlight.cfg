SPECIFICATION FairFlightSpec
CONSTANTS
    p1 = p1
    p2 = p2
    Packet = {p1, p2}
    Stream = {s1, s2}
    Control = Control
    NoStream = NoStream
    NoPacket = NoPacket
    MAX_PACKET_SIZE = 2
    PacketSize <- MCPacketSize
    LOSS_PAUSE_MARGIN = 1
    MAX_RESENDS_PER_ITERATION = 2
    MAX_PACKET_RETRANSMITS = 1
    MAX_RTO_BACKOFF = 2
    MIN_RTO = 1
    INITIAL_RTO = 1
    MAX_RTO = 2
    MIN_TLP_TIMEOUT = 1
INVARIANTS
    MapsInLockstep
    ResendsAreExcludedFromRtt
    PendingIsQueued
    SingleHolder
    FlightConservation
    AbortedStreamHoldsNothing
PROPERTY
    FlightDrains
