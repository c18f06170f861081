-------------------------- MODULE MCMulticoreFasta --------------------------
(* Small instances of MulticoreFasta for TLC; the bounds are in the .cfg. *)
EXTENDS MulticoreFasta

\* Two calls, as main makes: seven blocks, the last one short, then one block
\* for four threads, whose last line is full.
TwoCalls == <<27, 4>>
=============================================================================
