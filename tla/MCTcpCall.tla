----------------------------- MODULE MCTcpCall ------------------------------
EXTENDS TcpCall

MCAddrs      == {1}
MCCoroutines == {6, 7}   \* one of them is a descriptor too
=============================================================================
