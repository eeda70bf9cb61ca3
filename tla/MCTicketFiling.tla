--------------------------- MODULE MCTicketFiling ---------------------------
(***************************************************************************)
(* Three runs that meet the same CVE: one files its ticket, a second one    *)
(* may overlap and file again, a third follows; each may race with the      *)
(* others, the index and the analysts.                                      *)
(***************************************************************************)
EXTENDS TicketFiling, TLC

CONSTANTS r1, r2, r3

MCRuns == {r1, r2, r3}
=============================================================================
