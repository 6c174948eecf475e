------------------------ MODULE MCConfirmationEmail ------------------------
(***************************************************************************)
(* The shops of MCOrderReservation with their confirmation emails.         *)
(***************************************************************************)
EXTENDS ConfirmationEmail, MCOrderReservation
=============================================================================
