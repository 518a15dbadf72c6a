------------------------------ MODULE MCTester ------------------------------
(* In a buffer of 4 a line of two characters just fits and one of three    *)
(* does not; <<"q", "x">> is a quit to the server but not to the tester.   *)
(* Lines that begin with "y" are valid commands.                           *)
EXTENDS Tester

CONSTANTS c1, c2

MCScripts == {<<<<"y">>, <<"y", "x">>, <<"y">>>>, <<<<"x", "y">>, <<"q">>>>,
              <<<<"q", "x">>, <<"y", "y">>>>, <<<<"x", "y", "x">>, <<>>>>,
              <<<<>>, <<"y">>>>}

(* One client that sends every script; two that both send one; and one     *)
(* that sends while the other cannot open its script, closes, and so makes *)
(* running 0 for both.                                                     *)
MCLaunches ==
  [clients : {{c1}}, script : MCScripts, interactive : BOOLEAN, unopened : {{}}]
    \cup [clients : {{c1, c2}}, script : {<<<<"q">>>>, <<<<"y", "y">>>>}, interactive : {FALSE},
           unopened : {{}}]
    \cup [clients : {{c1, c2}}, script : {<<>>}, interactive : {TRUE}, unopened : {{}}]
    \cup [clients : {{c1, c2}}, script : {<<<<>>, <<>>, <<"y", "y">>>>}, interactive : {FALSE},
           unopened : {{c2}}]
=============================================================================
