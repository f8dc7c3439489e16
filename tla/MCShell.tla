------------------------------ MODULE MCShell ------------------------------
(* Shell with two letters, commands of one to three of them, some of which *)
(* begin another, and a line that just holds boot with two arguments.      *)
EXTENDS Shell

MCName ==
    [boot |-> <<"b">>, cat |-> <<"c">>, ls |-> <<"b", "b">>, sdinit |-> <<"b", "c">>,
     debug |-> <<"c", "b">>, serialboot |-> <<"c", "c">>,
     fileboot |-> <<"b", "b", "b">>, testfile |-> <<"b", "b", "c">>,
     relocate |-> <<"b", "c", "b">>, fatpart |-> <<"b", "c", "c">>,
     hexcat |-> <<"c", "b", "b">>]
=============================================================================
