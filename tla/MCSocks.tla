------------------------------ MODULE MCSocks ------------------------------
(***************************************************************************)
(* Socks for TLC: requests of every version and address type, good ones    *)
(* and ones that the parser refuses.                                       *)
(***************************************************************************)
EXTENDS Socks

V5(methods, cmd, atyp, addr) ==
    [version |-> 5, methods |-> methods, cmd |-> cmd, atyp |-> atyp,
     addr |-> addr, port |-> <<0, 8>>]
V4(version, cmd, user, host) ==
    [version |-> version, cmd |-> cmd, user |-> user, host |-> host,
     addr |-> <<1, 0, 0, 2>>, port |-> <<0, 8>>]

SomeRequests ==
    {V5(m, 1, 1, <<1, 2, 0, 3>>) : m \in {<<0>>, <<2, 0>>, <<2, 2, 2, 0>>, <<2>>}}
    \cup {V5(<<0>>, 1, 3, a) : a \in {<<>>, <<7>>, <<7, 0, 7>>}}
    \cup {V5(<<0>>, 1, 4, <<1, 2, 3, 4, 5>>), V5(<<0>>, 2, 1, <<1, 2, 3, 4>>),
          V5(<<0>>, 1, 2, <<1, 2, 3, 4>>)}
    \cup {V4(4, 1, u, h) : u \in {<<>>, <<7, 7>>}, h \in {<<>>, <<8>>, <<8, 8, 8>>}}
    \cup {V4(4, 1, <<7, 7, 7, 7, 7>>, <<8, 8, 8, 8, 8, 8>>), V4(4, 2, <<7>>, <<>>),
          V4(6, 1, <<7>>, <<>>), V4(4, 1, <<7, 7, 7, 7, 7, 7, 7, 7>>, <<>>)}

TwoBytes == <<5, 1>>
=============================================================================
