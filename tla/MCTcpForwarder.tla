-------------------------- MODULE MCTcpForwarder --------------------------
(***************************************************************************)
(* Two incarnations of one four-tuple, with a byte from each remote end:   *)
(* the reader of the first may still hold its byte when the second, whose  *)
(* window takes one byte at first, is in use.  Sequence numbers wrap after *)
(* two of them.                                                            *)
(***************************************************************************)
EXTENDS TcpForwarder

MCMaxBytes == <<1, 1>>
=============================================================================
