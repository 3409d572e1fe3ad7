---------------------------- MODULE MCRequests ----------------------------
EXTENDS Requests

CONSTANTS api, pypi, tmp, app, root

(* apt has no registry in _REGISTRIES. npm shares the one host here, so that *)
(* a list of two hosts is the most there is.                                *)
MCRegistry == [pip |-> {pypi}, npm |-> {pypi}, apt |-> {}]

(* Success, a failure, and a failure whose numeral can be cut.              *)
MCCodes == {<<"0">>, <<"1">>, <<"1", "0">>}
=============================================================================
