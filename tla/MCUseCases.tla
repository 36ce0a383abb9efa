----------------------------- MODULE MCUseCases ----------------------------
(* Two presets, one of them quadratic, chat and speech terms, and files with *)
(* repeated, foreign and missing kinds.                                      *)
EXTENDS UseCases, TLC

MCTerms ==
  ("chat"  :> [workload |-> "llm", prompt |-> 50, reuse |-> 20]) @@
  ("docs"  :> [workload |-> "llm", prompt |-> 90, reuse |-> 60]) @@
  ("voice" :> [workload |-> "asr", prompt |-> 0, reuse |-> 0])

(* Everything drawn into the longest prompts. *)
MCDrawn == { ("chat" :> Zero) @@ ("docs" :> Frac(1, 1)) @@ ("voice" :> Zero) }

Linear == [quadratic |-> FALSE, factor |-> 1]
Heavy  == [quadratic |-> FALSE, factor |-> 4]
Square == [quadratic |-> TRUE, factor |-> 1]

MCScaleKinds == {Linear, Heavy, Square}

Def(base, terms, sk, seed, max, batch) ==
  [key |-> <<base, 1>>, terms |-> terms, sk |-> sk, seed |-> seed, max |-> max, batch |-> batch]

MCPresets == << Def("talk", "chat", Linear, 4, 8, FALSE), Def("index", "docs", Heavy, 1, 4, TRUE) >>

(* A library that repeats a key and one that empties the panel's. *)
MCLibraries ==
  { << Def("talk", "chat", Heavy, 1, 1, FALSE), Def("talk", "voice", Square, 2, 1, TRUE) >>, <<>> }

Item(kind, terms, sk, scale, locked, batch, shape) ==
  [kind |-> kind, terms |-> terms, sk |-> sk, scale |-> scale, locked |-> locked,
   batch |-> batch, shape |-> shape]

MCDefaultSet == << Item(<<"talk", 1>>, "chat", Linear, 4, FALSE, FALSE, "office") >>

(* The kinds of the first set may be missing from the panel's library. *)
MCProjectSets ==
  { << Item(<<"index", 1>>, "voice", Heavy, 4, TRUE, FALSE, "flat"),
       Item(<<"talk", 2>>, "docs", Square, 4, FALSE, TRUE, "office") >> }
============================================================================
