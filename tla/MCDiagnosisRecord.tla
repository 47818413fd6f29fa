-------------------------- MODULE MCDiagnosisRecord --------------------------
(* The small instance of DiagnosisRecord, on the incidents of the lab.       *)
EXTENDS DiagnosisRecord, MCConversationLog, LabIncidents

\* The two requests of the chat page are alike, and so are the attempts of d1.
Alike == Permutations(Request) \cup Permutations({a1, a2})

\* Two questions, then an answer, then another question.
Questions == {1, 2, 4}

\* A catalog of two services; the statement at fault is confirmed, the pod
\* of a service is a suspicion.
Catalog == ("orders" :> {"payments"}) @@ ("payments" :> {})
Listed == ("trace" :> {"orders"}) @@ ("explain" :> {})
Downstream == ("trace" :> {"payments", Outside}) @@ ("explain" :> {})
Suspects == {[pod |-> FALSE, sql |-> TRUE, blamed |-> {}, confirmed |-> TRUE],
             [pod |-> TRUE, sql |-> FALSE, blamed |-> {"payments"}, confirmed |-> FALSE]}
\* A click on a service, and a question about any.
Asked == (d1 :> "orders") @@ (d2 :> "unknown")
AskedBy == (d1 :> "SERVICE") @@ (d2 :> "QUESTION")
Services == DOMAIN Catalog
Calls == DOMAIN Listed
=============================================================================
