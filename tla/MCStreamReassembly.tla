------------------------- MODULE MCStreamReassembly -------------------------
EXTENDS StreamReassembly, TLC

CONSTANTS p1, p2
MCPusher == {p1, p2}
=============================================================================
