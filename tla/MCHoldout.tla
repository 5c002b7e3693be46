------------------------------ MODULE MCHoldout ------------------------------
(* Small splits for Holdout.  Bodies a to d, p and q are long enough in both  *)
(* senses, s is a token short and z a character.  With a floor of two and a   *)
(* target of three a freeze meets its target, ends between the two, or        *)
(* refuses, as the B0 corpus has it.                                          *)
EXTENDS Holdout

MCBodies == {"a", "b", "c", "d", "p", "q", "s", "z"}
MCChars  == [x \in MCBodies |-> IF x = "z" THEN 4 ELSE 5]
MCTokens == [x \in MCBodies |-> IF x = "s" THEN 3 ELSE IF x = "a" THEN 4 ELSE 6]

Split(titles, bodies) == [k \in DOMAIN titles |-> [title |-> titles[k], body |-> bodies[k]]]

MCCorpora == {
  \* a title and a body that may be in use, a short one, more than the target
  [train |-> Split(<<"p", "q">>, <<"p", "q">>),
   validation |-> Split(<<"1", "2", "q", "3", "4">>, <<"a", "s", "b", "q", "c">>)],
  \* the same body twice, a stub, one that is used
  [train |-> Split(<<"p", "q">>, <<"s", "d">>),
   validation |-> Split(<<"1", "2", "3", "4">>, <<"a", "a", "z", "d">>)],
  \* titles that stand for two articles, one of them in use
  [train |-> Split(<<"p", "q">>, <<"p", "z">>),
   validation |-> Split(<<"1", "2", "1", "2">>, <<"a", "b", "s", "p">>)],
  [train |-> Split(<<"p", "p">>, <<"p", "q">>),
   validation |-> Split(<<"1", "2", "1">>, <<"a", "p", "q">>)] }
=============================================================================
