--------------------------- MODULE MCTokenRotation ----------------------------
EXTENDS TokenRotation
\* The app token and the consumers share only the clock and stop(): they are explored apart.
Apart == created = {} \/ (valid[App] = 0 /\ Len(requests[App]) <= 1)
=============================================================================
