-------------------------- MODULE MCClientCommands --------------------------
(* Names for ClientCommands: one whose commands fit into a packet and one    *)
(* that is too long for an upload.                                           *)
EXTENDS ClientCommands

MCName == {<<"a">>, <<"a", "b">>}
MCContent == {<<>>, <<"a">>}
=============================================================================
