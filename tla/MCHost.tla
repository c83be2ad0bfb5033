------------------------------- MODULE MCHost -------------------------------
(***************************************************************************)
(* Host for TLC: two processes, command lines and files that agree, that   *)
(* conflict, and that are refused.                                         *)
(***************************************************************************)
EXTENDS Host

SomeCmdLines ==
    {[opts |-> <<"pid-file">>, ports |-> <<1>>],
     [opts |-> <<"pid-file", "registration-helper">>, ports |-> <<2>>],
     [opts |-> <<"config-file", "daemon", "allow-kqueue">>, ports |-> <<>>],
     [opts |-> <<"no-log", "log-file">>, ports |-> <<1>>],
     [opts |-> <<"daemon", "daemon">>, ports |-> <<1>>]}

SomeFiles ==
    {[opts |-> [o \in {"pid-file", "allow-kqueue"} |->
                   IF o = "pid-file" THEN "text" ELSE "false"], ports |-> <<1, 2>>],
     [opts |-> [o \in {"daemon"} |-> "false"], ports |-> <<1>>],
     [opts |-> [o \in {"unknown"} |-> "text"], ports |-> <<1>>]}
=============================================================================
