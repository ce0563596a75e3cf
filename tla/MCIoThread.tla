------------------------------ MODULE MCIoThread ------------------------------
(* Two markets; a reload may drop "b" or bring it back.                      *)
EXTENDS IoThread

MCMarkets == {"a", "b"}
MCLists == {{"a"}, {"a", "b"}}
=============================================================================
