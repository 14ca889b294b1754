---------------------------- MODULE MCTlsRecords ----------------------------
(* Four records for TLC: two of the handshake, data, and close_notify.      *)
EXTENDS TlsRecords

FourRecords == <<7, 6, 6, 6>>
=============================================================================
