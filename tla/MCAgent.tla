------------------------------- MODULE MCAgent -------------------------------
EXTENDS CodingAgent, TLC

CONSTANTS a, b

Symmetric == Permutations({a, b})

EditAndAsk == {<<"write", "ask">>, <<"finish">>}
EditAndFinish == {<<"write", "finish">>}
=============================================================================
