---------------------------- MODULE MCNtpClient ----------------------------
EXTENDS NtpClient

\* Servers that need a lookup differ in nothing but the name: of these, one is
\* enough to start with.
FirstServers == Numeric \cup {CHOOSE s \in Servers \ Numeric : TRUE}

MCInit == Init /\ config \in FirstServers

MCSpec == MCInit /\ [][Next]_vars /\ Fairness
=============================================================================
