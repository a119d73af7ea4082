---------------------------- MODULE MCEdgeAppCore ----------------------------
(* Instances of EdgeAppCore for TLC: two processor models, each with one    *)
(* block to keep and one for its outputs, and a frame too many.             *)
EXTENDS EdgeAppCore

AllBlocks == {"b1", "b2", "b3"}
AllFrames == {"f1", "f2"}
AllStreams == {"s1", "s2", "s3"}
=============================================================================
