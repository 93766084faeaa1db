------------------------- MODULE MCPipelineHistory --------------------------
(* PipelineHistory for TLC, with the data of MCPipeline.  Nothing tells two *)
(* pages or two hashing cores apart.                                        *)
EXTENDS PipelineHistory, MCPipeline

Symmetry == Permutations(Packet) \cup Permutations(Hasher)
=============================================================================
