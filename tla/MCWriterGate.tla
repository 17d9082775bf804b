---------------------------- MODULE MCWriterGate ----------------------------
(* The writer gate with three connections, each address registered twice.  *)
(* No symmetry: the run checks liveness too.                               *)
EXTENDS WriterGate
=============================================================================
