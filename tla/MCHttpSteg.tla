----------------------------- MODULE MCHttpSteg -----------------------------
(***************************************************************************)
(* HttpSteg for TLC, with bytes of two values, so that three URLs cut one. *)
(***************************************************************************)
EXTENDS HttpSteg

Index == <<"index", "html">>
App == <<"app", "js">>
Paper == <<"paper", "pdf">>
Minified == <<"jquery", "min", "js">>

MCDict == <<Index, App, Paper>>
MCStored == {<< >>, <<Index, App, Paper>>, <<Paper, Index>>}
MCRecorded == {Index, App}
MCBlocks == {<<0, 1>>, <<1, 0>>}
MinifiedDict == <<Index, Minified>>
MinifiedStored == {MinifiedDict}
=============================================================================
