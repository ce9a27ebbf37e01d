------------------------------ MODULE MCServer ------------------------------
(***************************************************************************)
(* Server with two datagrams, a connection and fewer slots than jobs.  A   *)
(* forwarded query may outlast the drain and so may an idle connection; a  *)
(* lookup may last exactly to its deadline.                                *)
(***************************************************************************)
EXTENDS Server
=============================================================================
