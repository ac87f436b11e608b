---------------------------- MODULE MCJsonService ----------------------------
(* A small instance of the JSON service for TLC.                           *)
EXTENDS JsonService

GoodText == <<"{", "quote", "a", "}">>
CutText  == <<"{", "quote">>            \* no closing brace
Texts    == {GoodText, CutText}
=============================================================================
