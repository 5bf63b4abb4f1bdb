----------------------------- MODULE MCTransport -----------------------------
(***************************************************************************)
(* Small instances of Transport for TLC.                                   *)
(***************************************************************************)
EXTENDS Transport

QuicFaults == {"quic"} \X {"loss", "late", "restart"}
LinkLoss == {<<"quic", "loss">>}
=============================================================================
