---------------------------- MODULE MCNativeSend ----------------------------
EXTENDS NativeSend

\* Two streams: the second frame of file 1 follows one of file 2.
MCFrames == <<[file |-> 1, offset |-> 0], [file |-> 2, offset |-> 0],
              [file |-> 1, offset |-> 4]>>
=============================================================================
