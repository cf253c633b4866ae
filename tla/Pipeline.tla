------------------------------ MODULE Pipeline ------------------------------
(***************************************************************************)
(* What an HTTP/1.1 server connection promises its client, whatever the    *)
(* program behind it does: the bytes it sends are those of the responses,  *)
(* in the order in which the requests came, each response to its end       *)
(* before the next begins, and none before its request.  Or it refuses the *)
(* connection: an error response, which need not wait for the requests     *)
(* that came before, is then the first and the last thing it sends.  (A    *)
(* client with requests outstanding cannot tell it from the response to    *)
(* the first of them.)                                                     *)
(***************************************************************************)
EXTENDS Naturals, Sequences, FiniteSets

CONSTANT N   \* requests a client sends over the connection: 1..N in order

VARIABLES received,  \* requests received
          wire,      \* pieces of responses sent
          open       \* the connection can still send

pipelineVars == <<received, wire, open>>

\* Request 0 stands for no request: the response to bytes that are none, or to
\* none in time.
Parts == {"continue", "head", "data", "end", "whole", "error"}
Piece(r, part) == [of |-> r, part |-> part]

EndsResponse(p) == p.part \in {"end", "whole"}

\* How many responses are sent whole, and the request whose response is next.
Sent(w) == Cardinality({i \in DOMAIN w : EndsResponse(w[i])})
Turn == Sent(wire) + 1

Init == received = 0 /\ wire = <<>> /\ open = TRUE

Receive == /\ received < N
           /\ received' = received + 1
           /\ UNCHANGED <<wire, open>>

Send == /\ open
        /\ Turn <= received
        /\ \E part \in Parts \ {"error"} : wire' = Append(wire, Piece(Turn, part))
        /\ UNCHANGED received
        /\ open' \in BOOLEAN

Reject == /\ open
          /\ wire = <<>>
          /\ wire' = Append(wire, Piece(0, "error"))
          /\ open' = FALSE
          /\ UNCHANGED received

Close == /\ open
         /\ open' = FALSE
         /\ UNCHANGED <<received, wire>>

Next == Receive \/ Send \/ Reject \/ Close

Spec == Init /\ [][Next]_pipelineVars
=============================================================================
