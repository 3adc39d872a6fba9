------------------------- MODULE MCReactivePublisher -------------------------
(* Small instances of ReactivePublisher. *)
EXTENDS ReactivePublisher

\* What clients send as max_tries: a negative number, none, and up to Top
TriesSent == -1..Top
=============================================================================
