--------------------------- MODULE MCReviewSweep ---------------------------
EXTENDS ReviewSweep
CONSTANTS a, b
=============================================================================
