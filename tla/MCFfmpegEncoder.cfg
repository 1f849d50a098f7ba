CONSTANTS
    alice = alice
    bob = bob
    Users <- MCUsers
    Packets <- MCPackets
    MaxLost = 6
SPECIFICATION Spec
SYMMETRY Symmetry
INVARIANTS
    PacketReleased
    UsableUntilNewFails
    NeverTheOtherCodec
    DecodersGetThePacket
    StubAgrees
\* A crash ends the program, and MaxLost the calls of New.
CHECK_DEADLOCK FALSE
