SPECIFICATION LinkSpec
CONSTANTS
    Packet = {m1, m2}
    Oversized = {m2}
    NoPacket = NoPacket
    RETAIN_TIME = 2
    MAX_PENDING_RECEIPTS = 2
    MESSAGE_CONFIRMATION_TIMEOUT = 1
    MAX_PACKET_RETRANSMITS = 1
INVARIANT
    AckedIsCommitted
