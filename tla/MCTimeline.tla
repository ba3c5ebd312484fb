----------------------------- MODULE MCTimeline -----------------------------
EXTENDS Timeline
=============================================================================
