-------------------------------- MODULE MCRules --------------------------------
(* Constants of RuleDesk.                                                    *)
EXTENDS RuleDesk

MCPieces == {<<"a">>, <<"*">>, <<"=", ">">>, <<"$", "1">>, <<";">>, <<"\\">>, <<"=">>, <<"b">>}
=============================================================================
