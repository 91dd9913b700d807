--------------------------- MODULE MCProvisioning ---------------------------
(* Small units.  Two serials of one length that end in the same two        *)
(* characters in another order, so that a run cut off over the other's     *)
(* record may leave one that passes the checksum, and one that is shorter. *)
(* The first two characters of the longer ones cancel out in the checksum, *)
(* as two erased bytes do.                                                 *)
EXTENDS Provisioning

MCSerials == { <<1, 1, 2>>, <<2, 2, 1>> }
=============================================================================
