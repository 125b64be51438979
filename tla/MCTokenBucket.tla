---------------------------- MODULE MCTokenBucket ---------------------------
(* TokenBucket for TLC; the constants are in the cfg file.                  *)
EXTENDS TokenBucket
=============================================================================
