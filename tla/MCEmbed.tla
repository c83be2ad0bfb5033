------------------------------- MODULE MCEmbed -------------------------------
(***************************************************************************)
(* Embed for TLC: traces in which the turns alternate, in which a side has *)
(* two or three turns running, in which the first or a later packet has no *)
(* room for what chop insists on, and one that begins with the server.     *)
(***************************************************************************)
EXTENDS Embed

SomeTraces == <<<<6, -4, 5>>, <<6, 4, 3, -5, -4>>, <<5, -4, -3, 4>>, <<2, -4>>,
                <<6, -2, 4>>, <<-4, 6>>>>
=============================================================================
