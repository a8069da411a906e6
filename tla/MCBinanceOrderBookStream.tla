---------------------- MODULE MCBinanceOrderBookStream ----------------------
(***************************************************************************)
(* BinanceOrderBookStream for TLC: levels are interchangeable.             *)
(***************************************************************************)
EXTENDS BinanceOrderBookStream, TLC

LevelsSymmetric == Permutations(Levels)
=============================================================================
