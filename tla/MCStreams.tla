----------------------------- MODULE MCStreams -----------------------------
(* Model checking of Streams: binary sizes, and arguments that are empty or    *)
(* look like the protocol.                                                     *)
EXTENDS Streams

Binary == <<"0", "1">>

FewCommands == {<<(<<"a">>)>>, <<(<<"a">>), (<<>>)>>, <<(<<"b">>), <<"*", LF>>>>}
=============================================================================
