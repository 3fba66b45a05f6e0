--------------------------- MODULE MCEventRouter ----------------------------
EXTENDS EventRouter

\* Every subscription type in turn.
AllTypes == Subscribable
=============================================================================
