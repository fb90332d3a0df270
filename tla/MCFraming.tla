----------------------------- MODULE MCFraming -----------------------------
(***************************************************************************)
(* Payloads for Framing: one that ends with STX and runs into the next     *)
(* message, one that holds four STX with what can be read as a short       *)
(* length behind them, and one that has nothing of this.                   *)
(***************************************************************************)
EXTENDS Framing

MCPayloads == {<<7, STX>>, <<STX, STX, STX, STX, 0>>}
MCPlainPayloads == {<<7>>}
=============================================================================
