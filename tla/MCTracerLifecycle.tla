------------------------- MODULE MCTracerLifecycle -------------------------
EXTENDS TracerLifecycle

CONSTANTS HeadBlocks,    \* the heads that arrive, with --para-id
          AllBlocks,     \* ... and with --all, which has one more task
          HistoricalTo   \* the end of a historical range

(* The three ways the documentation shows to start the tracer. *)
EveryCommandLine ==
  {[mode |-> "para", source |-> "head", last |-> HeadBlocks],
   [mode |-> "all", source |-> "head", last |-> AllBlocks],
   [mode |-> "para", source |-> "historical", last |-> HistoricalTo]}

OneParachain == {[mode |-> "para", source |-> "head", last |-> HeadBlocks]}

OneRange == {[mode |-> "para", source |-> "historical", last |-> HistoricalTo]}
=============================================================================
