--------------------------- MODULE MCRefreshLease ---------------------------
(***************************************************************************)
(* The instance of WebConsole, and with it of RefreshLease, for TLC.       *)
(***************************************************************************)
EXTENDS WebConsole, TLC
=============================================================================
