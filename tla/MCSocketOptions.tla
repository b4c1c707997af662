-------------------------- MODULE MCSocketOptions --------------------------
(***************************************************************************)
(* Instances of SocketOptions: two groups of one family, one of the other; *)
(* options that have something in common are used together.                *)
(***************************************************************************)
EXTENDS SocketOptions

MCGroups ==
  {[family |-> "AF_INET", no |-> 1], [family |-> "AF_INET", no |-> 2],
   [family |-> "AF_INET6", no |-> 1]}

MCPrograms ==
  {{"join_group", "leave_group", "outbound_interface"},
   {"keep_alive", "v6_only", "enable_connection_aborted"},
   {"linger", "send_buffer_size", "always_fail"}}

=============================================================================
