--------------------------- MODULE MCEncryptedAudit ---------------------------
(* Room for two entries, blocks of two: an overflow, a rotation, an expiry and *)
(* two blocks fit the bound on hashes.                                         *)
EXTENDS EncryptedAudit

=============================================================================
