---------------------------- MODULE MCFlowControl ----------------------------
(* A small instance of FlowControl; a block is 4, a frame 2.                *)
EXTENDS FlowControl

\* More files than streams: one that needs the window twice and ends in a short
\* block and frame, one resumed, one empty, and one that is whole already.
ManySize  == <<9, 5, 0, 4>>
ManyStart == <<0, 4, 0, 4>>
=============================================================================
