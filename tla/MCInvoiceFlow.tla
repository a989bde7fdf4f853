---------------------------- MODULE MCInvoiceFlow ----------------------------
(***************************************************************************)
(* Instances of InvoiceFlow for TLC.  No symmetry: a property is temporal. *)
(***************************************************************************)
EXTENDS InvoiceFlow
=============================================================================
