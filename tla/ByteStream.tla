----------------------------- MODULE ByteStream -----------------------------
(***************************************************************************)
(* What a chop circuit promises the two upstream programs it joins: one    *)
(* byte stream in each direction.  What comes out at one end is a prefix   *)
(* of what went in at the other, and an end of file comes out only after   *)
(* everything that was written before it.                                  *)
(*                                                                         *)
(* Units of data are numbered by their place in the stream.                *)
(***************************************************************************)
EXTENDS Integers, Sequences

CONSTANTS Ends,        \* the two ends
          Other(_)     \* the end opposite to a given one

VARIABLES
    written,     \* written[e]: how many units the program at e has written
    ended,       \* ended[e]: that program has closed its side
    delivered,   \* delivered[e]: the units the program at e was given
    told         \* told[e]: that program was given the end of file

streamVars == <<written, ended, delivered, told>>

Init ==
    /\ written = [e \in Ends |-> 0]
    /\ ended = [e \in Ends |-> FALSE]
    /\ delivered = [e \in Ends |-> <<>>]
    /\ told = [e \in Ends |-> FALSE]

Write(e) ==
    /\ ~ended[e]
    /\ written'[e] \in Nat /\ written'[e] > written[e]
    /\ written' = [written EXCEPT ![e] = written'[e]]
    /\ UNCHANGED <<ended, delivered, told>>

Finish(e) ==
    /\ ~ended[e]
    /\ ended' = [ended EXCEPT ![e] = TRUE]
    /\ UNCHANGED <<written, delivered, told>>

Deliver(e) ==
    /\ ~told[e]
    /\ \E m \in Len(delivered[e])+1 .. written[Other(e)] :
          delivered' = [delivered EXCEPT ![e] = [i \in 1 .. m |-> i]]
    /\ UNCHANGED <<written, ended, told>>

TellEnd(e) ==
    /\ ended[Other(e)]
    /\ Len(delivered[e]) = written[Other(e)]
    /\ told' = [told EXCEPT ![e] = TRUE]
    /\ UNCHANGED <<written, ended, delivered>>

Next == \E e \in Ends : Write(e) \/ Finish(e) \/ Deliver(e) \/ TellEnd(e)

Spec == Init /\ [][Next]_streamVars
=============================================================================
