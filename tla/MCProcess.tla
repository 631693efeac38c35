------------------------------ MODULE MCProcess -------------------------------
EXTENDS Process

MCWorkloadOf == [p \in Puts |-> "web"]
==============================================================================
