---------------------------- MODULE MCAudioPipe ----------------------------
EXTENDS AudioPipe
=============================================================================
