-------------------------------- MODULE Office --------------------------------
(***************************************************************************)
(* The backend's smaller modules and the client that signs in to it, which *)
(* share the way requests are handled and write no table of one another:   *)
(* the endpoints in mix belong to one of them.                             *)
(***************************************************************************)
EXTENDS Identity, BackOffice

OfficeInit == Init /\ BackOfficeInit

OfficeNext ==
  \/ Next /\ UNCHANGED officeVars
  \/ BackOfficeNext /\ UNCHANGED identityVars

OfficeSpec == OfficeInit /\ [][OfficeNext]_<<vars, officeVars>> /\ ClientFairness
=============================================================================
