---------------------------- MODULE MCSqsConsumer ----------------------------
(* Two instances share the queue and its two messages.  One may be         *)
(* malformed; a message that is not may be refused by what is stored.      *)
EXTENDS SqsConsumer, TLC

Symmetry == Permutations(Consumers)

\* Nothing waits but for a worker slot or a transaction: time does not pass
\* between a receive and a dispatch that is possible.
Prompt ==
    \A c \in Consumers :
        /\ \A h \in handlers[c] : h.step = "process"
        /\ batch[c] # {} => Cardinality(handlers[c]) = Concurrency

PromptSpec == Init /\ [][Next /\ (Tick => Prompt)]_vars
=============================================================================
