------------------------------ MODULE MCStack ------------------------------
(* The instance of Stack that TLC checks. *)
EXTENDS Stack

MCItems == {Flight(1), Flight(2), Alert} \cup {App(n) : n \in 1..Chunks}

\* Verification on, and off in the way the check of init refuses.
MCTlsOptions == {[roots |-> TRUE, servername |-> TRUE, reject |-> TRUE], NoOptions}

\* Host names and patterns: a first label of up to two (three) characters before
\* fixed ones, with a trailing dot or an empty label for the short ones.
Sub(first, rest) == {<<l>> \o r : l \in first, r \in rest}

MCHostnames ==
    Sub(SeqOf({"a", "b"}, 3) \ {<<>>}, {<<<<"b">>, <<"a">>>>})
    \cup Sub({<<"a">>, <<"A">>, <<"xn--">>, <<"xn--", "a">>},
             {<<>>, <<<<>>>>, <<<<"b">>>>, <<<<"b">>, <<"a">>, <<>>>>})

MCPatterns ==
    Sub(SeqOf({"a", "b", "*"}, 3), {<<<<"b">>, <<"a">>>>})
    \cup Sub({<<"a">>, <<"A">>, <<"*">>, <<"xn--", "*">>, <<"xn--">>, <<"bad">>, <<>>},
             {<<>>, <<<<"b">>>>, <<<<"b">>, <<"A">>, <<>>>>, <<<<>>, <<"a">>>>})
=============================================================================
