---------------------------- MODULE MCSignaling ----------------------------
(* The messages that matter to each program. *)
EXTENDS Signaling

MCPeer == {"a", "b"}

MCIncoming == [recv |-> {"offer"}, send |-> {"offer", "answer"},
               scan |-> {"join", "update", "left", "info"}]

=============================================================================
