---------------------------- MODULE MCAcpSession -----------------------------
(***************************************************************************)
(* Small instances of AcpSession; there is nothing to define.              *)
(***************************************************************************)
EXTENDS AcpSession
=============================================================================
