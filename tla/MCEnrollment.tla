---------------------------- MODULE MCEnrollment ----------------------------
(***************************************************************************)
(* Instances of Enrollment: explorer and sync process, with a certificate  *)
(* authority or with the certificates of the connection profile.           *)
(***************************************************************************)
EXTENDS Enrollment
=============================================================================
