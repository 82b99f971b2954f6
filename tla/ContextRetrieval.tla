--------------------------- MODULE ContextRetrieval ---------------------------
(***************************************************************************)
(* Context retrieval, core/application/rag/service.py: agents that ask one *)
(* ContextRetrievalService for context, its cache, and what it makes of    *)
(* the results of the searches.                                            *)
(*                                                                         *)
(* The searches of a query are awaited one after the other; other agents   *)
(* run in between.  What a search of Forge answers is a choice, the empty  *)
(* answer of a search that raised included.  Scores are per cent.  The     *)
(* service's clock is left out: the age that retrieve_context compares     *)
(* with its limit is the age of the request, so no entry ever expires.     *)
(***************************************************************************)
EXTENDS Integers, SequencesExt

CONSTANTS
  Callers,
  Queries,     \* [role, task, head]; of the text only the first 100 characters count
  Answers,     \* [strategy -> set of sequences of results], <<>> included
  MaxClears    \* bound: calls of clear_cache

\* The builders of ContextAssemblyService: strategies and token budget.
Strategies == [
  planner  |-> {"semantic", "lexical", "path", "dependency"},
  coder    |-> {"semantic", "lexical", "symbol", "path", "dependency"},
  debugger |-> {"semantic", "lexical", "symbol", "git_history", "dependency"},
  tester   |-> {"semantic", "lexical", "symbol", "path"},
  reviewer |-> {"semantic", "lexical", "symbol", "path", "git_history"},
  security |-> {"semantic", "lexical", "symbol", "path", "git_history", "dependency"}]

Budget == [planner |-> 12000, coder |-> 8000, debugger |-> 8000,
           tester |-> 8000, reviewer |-> 10000, security |-> 10000]

SearchOrder == <<"semantic", "lexical", "symbol", "path", "dependency", "git_history">>

MinRelevance == 30
MinViable == 100

Result == [path : STRING, score : Nat, tokens : Nat]

ASSUME QueryAssumption ==
  /\ \A q \in Queries : q.role \in DOMAIN Strategies
  /\ \A s \in DOMAIN Answers : <<>> \in Answers[s] /\ Answers[s] \subseteq Seq(Result)

VARIABLES
  cache,    \* key -> [contexts, since], or NotCached
  query,    \* the query a caller is waiting for, or NoQuery
  todo,     \* its searches that have not answered
  found,    \* the results so far, all_results; of the retrieval behind a bundle
  begun,    \* the number of clears when it began
  bundle,   \* [query, contexts, since, begun]: the last bundle a caller got, or NoBundle
  clears,   \* calls of clear_cache
  overtaken \* keys whose retrieval was running when the cache was last cleared

vars == <<cache, query, todo, found, begun, bundle, clears, overtaken>>

NotCached == [contexts |-> <<>>, since |-> -1]
NoQuery == [role |-> "none"]
NoBundle == [query |-> NoQuery, contexts |-> <<>>, since |-> -1, begun |-> -1]

\* _cache_key; the variant forgets the strategies.
KeyOfText(q) == <<q.task, q.head, {}>>
Key(q) == <<q.task, q.head, Strategies[q.role]>>

Keys == {Key(q) : q \in Queries}

Init ==
  /\ cache = [k \in Keys |-> NotCached]
  /\ query = [c \in Callers |-> NoQuery]
  /\ todo = [c \in Callers |-> <<>>]
  /\ found = [c \in Callers |-> <<>>]
  /\ begun = [c \in Callers |-> 0]
  /\ bundle = [c \in Callers |-> NoBundle]
  /\ clears = 0
  /\ overtaken = {}

------------------------------------------------------------------------------
(* From results to contexts.                                               *)

\* The results that pass the threshold, the first of each path only.
Kept(results) ==
  {i \in DOMAIN results :
     /\ results[i].score >= MinRelevance
     /\ \A j \in 1..(i - 1) :
          results[j].score >= MinRelevance => results[j].path # results[i].path}

\* sort by relevance: stable, best first.  The n-th is the one that n-1 others
\* come before.
Before(results, i, j) ==
  \/ results[i].score > results[j].score
  \/ results[i].score = results[j].score /\ i < j

Ahead(results, i) == {j \in Kept(results) : Before(results, j, i)}

Ranked(results) ==
  [n \in 1..Cardinality(Kept(results)) |->
     results[CHOOSE i \in Kept(results) : Cardinality(Ahead(results, i)) = n - 1]]

Tokens(contexts) ==
  LET sum[n \in 0..Len(contexts)] == IF n = 0 THEN 0 ELSE sum[n - 1] + contexts[n].tokens
  IN  sum[Len(contexts)]

\* The rest of the budget goes to one context that is cut to it.
Truncated(context, rest) ==
  [context EXCEPT !.tokens = rest, !.score = (@ * 8) \div 10]

\* _apply_token_budget: the whole contexts that fit, then the first that does
\* not, cut, if the rest is worth it; the variant goes on with the smaller ones.
FittingAny(contexts, budget) ==
  FoldLeft(LAMBDA taken, c : IF Tokens(taken) + c.tokens <= budget
                             THEN Append(taken, c) ELSE taken, <<>>, contexts)

Fitting(contexts, budget) ==
  LET whole == CHOOSE n \in 0..Len(contexts) :
                 /\ Tokens(SubSeq(contexts, 1, n)) <= budget
                 /\ \A m \in (n + 1)..Len(contexts) :
                      Tokens(SubSeq(contexts, 1, m)) > budget
      taken == SubSeq(contexts, 1, whole)
      rest == budget - Tokens(taken)
  IN  IF whole < Len(contexts) /\ rest > MinViable
      THEN Append(taken, Truncated(contexts[whole + 1], rest))
      ELSE taken

Bundle(q, contexts, since, start) ==
  [query |-> q, contexts |-> contexts, since |-> since, begun |-> start]

------------------------------------------------------------------------------
(* retrieve_context.                                                       *)

CacheHit(c, q) ==
  /\ query[c] = NoQuery
  /\ cache[Key(q)] # NotCached
  /\ bundle' = [bundle EXCEPT ![c] =
       Bundle(q, cache[Key(q)].contexts, cache[Key(q)].since, clears)]
  /\ found' = [found EXCEPT ![c] = <<>>]
  /\ UNCHANGED <<cache, query, todo, begun, clears, overtaken>>

CacheMiss(c, q) ==
  /\ query[c] = NoQuery
  /\ cache[Key(q)] = NotCached
  /\ query' = [query EXCEPT ![c] = q]
  /\ todo' = [todo EXCEPT ![c] =
       SelectSeq(SearchOrder, LAMBDA s : s \in Strategies[q.role])]
  /\ found' = [found EXCEPT ![c] = <<>>]
  /\ begun' = [begun EXCEPT ![c] = clears]
  /\ bundle' = [bundle EXCEPT ![c] = NoBundle]
  /\ UNCHANGED <<cache, clears, overtaken>>

\* One of the _..._search methods answers; an exception is an empty answer.
SearchAnswers(c, results) ==
  /\ todo[c] # <<>>
  /\ results \in Answers[Head(todo[c])]
  /\ found' = [found EXCEPT ![c] = @ \o results]
  /\ todo' = [todo EXCEPT ![c] = Tail(@)]
  /\ UNCHANGED <<cache, query, begun, bundle, clears, overtaken>>

\* The contexts go to the cache under the key, whatever is there by now.
Retrieved(c) ==
  /\ query[c] # NoQuery /\ todo[c] = <<>>
  /\ LET q == query[c]
         contexts == Fitting(Ranked(found[c]), Budget[q.role])
     IN  /\ cache' = [cache EXCEPT ![Key(q)] =
                        [contexts |-> contexts, since |-> begun[c]]]
         /\ bundle' = [bundle EXCEPT ![c] = Bundle(q, contexts, begun[c], begun[c])]
  /\ query' = [query EXCEPT ![c] = NoQuery]
  /\ UNCHANGED <<todo, found, begun, clears, overtaken>>

\* The caller is cancelled while a search runs: CancelledError is no Exception.
Cancelled(c) ==
  /\ todo[c] # <<>>
  /\ query' = [query EXCEPT ![c] = NoQuery]
  /\ todo' = [todo EXCEPT ![c] = <<>>]
  /\ found' = [found EXCEPT ![c] = <<>>]
  /\ UNCHANGED <<cache, begun, bundle, clears, overtaken>>

\* What clear_cache leaves; the variant only forgets what found nothing.
ClearedOfEmpty(entries) ==
  [k \in DOMAIN entries |-> IF entries[k].contexts = <<>> THEN NotCached ELSE entries[k]]
Cleared(entries) == [k \in DOMAIN entries |-> NotCached]

ClearCache ==
  /\ clears < MaxClears
  /\ cache' = Cleared(cache)
  /\ clears' = clears + 1
  /\ overtaken' = {Key(query[c]) : c \in {d \in Callers : query[d] # NoQuery}}
  /\ UNCHANGED <<query, todo, found, begun, bundle>>

Next ==
  \/ ClearCache
  \/ \E c \in Callers :
       \/ Retrieved(c) \/ Cancelled(c)
       \/ \E q \in Queries : CacheHit(c, q) \/ CacheMiss(c, q)
       \/ \E s \in DOMAIN Answers : \E results \in Answers[s] : SearchAnswers(c, results)

Spec == Init /\ [][Next]_vars

------------------------------------------------------------------------------
(* Properties.                                                             *)

Given == {bundle[c] : c \in Callers} \ {NoBundle}

\* What an agent gets fits the budget of its own role, also when the cache
\* answers with what another agent's retrieval put there.
BundleFits == \A b \in Given : Tokens(b.contexts) <= Budget[b.query.role]

\* The best of some results: no path twice, best first, and a path that was
\* left out is no better than any that was taken; only the last is cut.
BestOf(results, given) ==
  LET first == {results[i] : i \in Kept(results)}
      left == {r \in first : \A n \in DOMAIN given : given[n].path # r.path}
  IN  /\ \A m, n \in DOMAIN given :
           m < n => /\ given[m].path # given[n].path
                    /\ given[m].score >= given[n].score
                    /\ given[m] \in first
      /\ \A r \in left : \A n \in DOMAIN given :
           \E best \in first : best.path = given[n].path /\ best.score >= r.score

\* A retrieval hands over the best of what it found, as the searches first
\* reported it.
BestKept ==
  \A c \in Callers :
    bundle[c] # NoBundle /\ found[c] # <<>> => BestOf(found[c], bundle[c].contexts)

\* After clear_cache an agent gets results that were searched for after it,
\* except for a key whose retrieval was running at the time: that one writes
\* its old results to the cleared cache.
FreshAfterClear ==
  \A b \in Given :
    b.begun = clears /\ b.since < clears => Key(b.query) \in overtaken
==============================================================================
