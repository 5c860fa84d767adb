-------------------------- MODULE MCConfiguration --------------------------
(***************************************************************************)
(* A small instance of Configuration.                                      *)
(***************************************************************************)
EXTENDS Configuration

CONSTANTS d, n, dhcp

MCPosts == {[name |-> n, subnet |-> dhcp, gateway |-> n, mac |-> n], [temp |-> n, trap |-> n]}
MCOnePost == {[subnet |-> dhcp, gateway |-> n, trap |-> n]}
=============================================================================
