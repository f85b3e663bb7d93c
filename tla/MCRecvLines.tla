----------------------------- MODULE MCRecvLines -----------------------------
(***************************************************************************)
(* An instance of RecvLines for TLC: chunks without a line's end, with one *)
(* at either end, and with two; a command, and one that its line does not  *)
(* complete.                                                               *)
(***************************************************************************)
EXTENDS RecvLines

MCChunks == {<<NAME>>, <<NEWLINE>>, <<NAME, NUMBER>>, <<NUMBER, NEWLINE, NAME>>,
             <<NEWLINE, NEWLINE, NUMBER, NAME, NAME>>}
=============================================================================
