----------------------------- MODULE MCPipeline -----------------------------
(* The queue, the buffers and the retune are checked with one handler (the *)
(* relay's connection carries every phone's commands), and apart from them *)
(* the modes, with two handlers.                                           *)
EXTENDS Pipeline, TLC

Symmetry == Permutations(Bufs) \cup Permutations(Handlers)
              \cup Permutations(Freqs) \cup Permutations(Modes)
=============================================================================
