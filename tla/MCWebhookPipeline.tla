------------------------- MODULE MCWebhookPipeline -------------------------
(***************************************************************************)
(* Small instances of WebhookPipeline.  Calls c1 and c2 share container h1 *)
(* (a crash of it ends both), c3 has h2 for itself.                        *)
(***************************************************************************)
EXTENDS WebhookPipeline, TLC

CONSTANTS e1, e2, e3, q1, q2, w1, w2, c1, c2, c3, h1, h2

MCHostOf == [c \in Calls |-> IF c = c3 THEN h2 ELSE h1]

\* Where all calls are in one container, the members of each set are
\* interchangeable (for invariants and step properties).
Interchangeable == Permutations(Events \ UnknownTopics) \cup Permutations(Requests)
                       \cup Permutations(Workers) \cup Permutations(Calls)
=============================================================================
