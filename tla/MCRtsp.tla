------------------------------ MODULE MCRtsp ------------------------------
(***************************************************************************)
(* Policies of reconnection for the runs of Rtsp: for ever, once, never.   *)
(***************************************************************************)
EXTENDS Rtsp

MCPolicies == {[reconnect |-> TRUE, max |-> 0], [reconnect |-> TRUE, max |-> 1],
               [reconnect |-> FALSE, max |-> 0]}

Forever == {[reconnect |-> TRUE, max |-> 0]}

=============================================================================
