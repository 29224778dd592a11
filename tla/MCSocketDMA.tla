---------------------------- MODULE MCSocketDMA ----------------------------
\* A render thread (the main one, which takes KeyboardInterrupt) and an audio
\* thread on one connection.
EXTENDS SocketDMA
=============================================================================
