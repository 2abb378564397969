-------------------------- MODULE MCDiagnosticBudget --------------------------
(***************************************************************************)
(* Small instances of DiagnosticBudget.                                    *)
(***************************************************************************)
EXTENDS DiagnosticBudget, TLC

CONSTANTS a1, a2, a3, c1, c2, chat, embedding

ThreeAttempts == {a1, a2, a3}
TwoClients == {c1, c2}

Interchangeable == Permutations(AttemptIds) \cup Permutations(Clients)

\* A chat operation priced by input and output, and an embedding priced by input,
\* as in diagnostic-v2.json.
ChatPrice == [input |-> 1, output |-> 1, inputPrice |-> 1, outputPrice |-> 3]
EmbeddingPrice == [input |-> 1, output |-> 0, inputPrice |-> 1, outputPrice |-> 0]

BothOperations == {chat, embedding}
\* The two halves of a price, each with an operation of its own.
LeanProfile == [op \in BothOperations |-> IF op = chat THEN [ChatPrice EXCEPT !.input = 0]
                                          ELSE EmbeddingPrice]

\* Room for two quotes, and for another once less usage has been settled.
TwoLeanQuotes == [attempts |-> 3, tokens |-> 2, cost |-> 6]

\* Less than the attempts of a call that is retried and falls back.
LowAllowance == {2}
ChatOnly == {chat}
==============================================================================
