--------------------------- MODULE MCBridgeNames ---------------------------
EXTENDS BridgeNames

Letters == {"a", "b"}

Key(x, y) == <<x, y>>

SomeKeys == {Key("a", "a"), Key("a", "b"), Key("b", "a")}

(* The start of a key, a key, a key and the start of another. *)
SomeWords == {<<"a">>, <<"a", "b">>, <<"a", "b", "a">>}

TwoUsers == {<<"a">>, <<"a", "a">>}
=============================================================================
