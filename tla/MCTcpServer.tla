---------------------------- MODULE MCTcpServer -----------------------------
(* Model checking TcpServer: two clients of the remote_bitbang protocol.   *)
EXTENDS TcpServer

MCScript == << <<"w", "R", "R", "R">>, <<"R">> >>
LongScript == << <<"R", "R", "R", "R">> >>
=============================================================================
