----------------------------- MODULE MCProcess -----------------------------
EXTENDS ProcessCallStack
MCStatuses == {-1, 0, 5}
=============================================================================
