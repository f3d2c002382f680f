------------------------ MODULE MC_SharedConnection ------------------------
(* Statement modes for the run of SharedConnection.                        *)
EXTENDS SharedConnection

(* Forward-only streams of one and of two rows per chunk.                 *)
ForwardOnlyStreams == {FO} \X {1, 2}
====
