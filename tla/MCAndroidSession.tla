-------------------------- MODULE MCAndroidSession --------------------------
EXTENDS AndroidSession

\* Two sessions, one request to open each, one file to send in each.
MCCalls == {1, 2} \X {0, 1}
=============================================================================
