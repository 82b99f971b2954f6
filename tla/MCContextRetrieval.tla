-------------------------- MODULE MCContextRetrieval --------------------------
(* Two agents whose queries differ in the role only; answers around the     *)
(* threshold, the budget and the smallest cut.                              *)
EXTENDS ContextRetrieval

Found(p, s, t) == [path |-> p, score |-> s, tokens |-> t]

MCQueries == {[role |-> r, task |-> "t", head |-> "h"] : r \in {"tester", "reviewer"}}

MCCallers == Permutations(Callers)

MCAnswers == [
  semantic    |-> {<<>>, <<Found("b", 29, 1250), Found("a", 40, 2000), Found("f", 30, 90)>>},
  lexical     |-> {<<>>},
  symbol      |-> {<<>>},
  path        |-> {<<>>, <<Found("b", 60, 4900), Found("a", 100, 1250), Found("c", 100, 3000)>>},
  dependency  |-> {<<>>},
  git_history |-> {<<>>, <<Found("d", 80, 100), Found("e", 80, 1)>>}]
===============================================================================
