------------------------------- MODULE MCMd5 -------------------------------
(* Md5 for TLC: blocks of 8 bytes, 16 bytes to the counter word.            *)
EXTENDS Md5
=============================================================================
