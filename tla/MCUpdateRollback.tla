-------------------------- MODULE MCUpdateRollback --------------------------
EXTENDS UpdateRollback

MCWedged == {1}
MCCorrupt == {2}
=============================================================================
