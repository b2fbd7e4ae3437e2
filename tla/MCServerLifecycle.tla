------------------------- MODULE MCServerLifecycle -------------------------
(* Two connections, with the proportions of the configured durations:      *)
(* 8 s, 10 s, 2 s and 10 s are 4, 5, 1 and 5 ticks of two seconds.         *)
EXTENDS ServerLifecycle
=============================================================================
