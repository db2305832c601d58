---------------------------- MODULE MCUdpSession ----------------------------
EXTENDS UdpSession, TLC

\* Controllers differ in nothing but their name.
Interchangeable == Permutations(Controllers)
=============================================================================
