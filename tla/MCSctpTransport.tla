--------------------------- MODULE MCSctpTransport ---------------------------
(* Instances of SctpTransport for TLC.                                      *)
EXTENDS SctpTransport, TLC

Symmetry == Permutations(Channels)

(* The calls a careful application does not make while a handler runs.     *)
(* Each of them leads the code into a state its comments rule out; each    *)
(* violation run drops one of them.                                        *)
Careful ==
  {<<"teardown", "stop">>,   <<"teardown", "create">>, <<"teardown", "start">>,
   <<"detach", "create">>,   <<"detach", "start">>,
   <<"stopped", "create">>,
   <<"close", "stop">>,      <<"close", "start">>,
   <<"channel", "close">>,
   <<"connecting", "stop">>,
   <<"open_all", "stop">>}

(* Calls are made at rest or from a low handler, and from there only sends. *)
Calls == {"create", "close", "send", "start", "stop"}
OnlyFromLow ==
  ((Callbacks \ {"low"}) \X Calls) \cup {<<"stopped", "create">>}
    \cup {<<"low", op>> : op \in Calls \ {"send"}}

(* One careless call each.                                                  *)
StopInCloseHandler == Careful \ {<<"close", "stop">>}
CloseInChannelHandler == Careful \ {<<"channel", "close">>}
=============================================================================
