--------------------------- MODULE MCMemoryBuffer ---------------------------
(* Model values for MemoryBuffer: room for three entries and five units of *)
(* memory; one size of which three fit, one that fits once, one never.     *)
EXTENDS MemoryBuffer

MCSizes == {1, 3, 6}
=============================================================================
