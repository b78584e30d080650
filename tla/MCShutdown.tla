----------------------------- MODULE MCShutdown ------------------------------
EXTENDS Shutdown

\* Every stage of the countdown, a request in the past, and the two kinds of
\* request whose restart never comes.
AllRequests == -1..10 \cup {12}
=============================================================================
