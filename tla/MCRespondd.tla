----------------------------- MODULE MCRespondd -----------------------------
(***************************************************************************)
(* Bounded instance of Respondd: a word, a request of two words, and one   *)
(* that respondd does not know; two seconds a token.                       *)
(***************************************************************************)
EXTENDS Respondd

MCMessages == {<<"known">>, <<"known", "known">>, <<"unknown">>}
=============================================================================
