--------------------------- MODULE MCSwapRequests ---------------------------
EXTENDS SwapRequests, TLC
CONSTANTS ann, bob, eve
=============================================================================
