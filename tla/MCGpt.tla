------------------------------- MODULE MCGpt -------------------------------
(***************************************************************************)
(* Small models: two heads of one channel, two words, one or two layers,   *)
(* passes over one and two tokens, a first thread and up to three others.  *)
(***************************************************************************)
EXTENDS Gpt
=============================================================================
