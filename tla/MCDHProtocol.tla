--------------------------- MODULE MCDHProtocol ---------------------------
(* Small instances of the DH build for TLC. *)
EXTENDS DHOwnership, DHMetadata, TLC

CONSTANTS k1, k2, c1, c2, v1, v2

(* One key per entry, and two keys of the same entry. *)
IndexSpread == k1 :> 0 @@ k2 :> 1
IndexSame   == k1 :> 0 @@ k2 :> 0

(* All trace lines in the file of one client, or one file per key. *)
TraceOne    == k1 :> c1 @@ k2 :> c1
TraceTwo    == k1 :> c1 @@ k2 :> c2
=============================================================================
