----------------------------- MODULE ReplyStream -----------------------------
(***************************************************************************)
(* What the engine promises the client of one connection, with no word of   *)
(* buffers, readiness or system calls: requests are answered one at a time, *)
(* in the order they arrive and only once they have arrived whole; a reply  *)
(* is sent byte for byte before the next request is looked at; and a        *)
(* connection that has stopped sends nothing more.                          *)
(***************************************************************************)
EXTENDS Framing

VARIABLES script,   \* what the connection carries
          arrived,  \* bytes of the request stream the client has sent
          answered, \* requests for which a reply has been made
          wire,     \* the bytes handed to the network, in order
          open      \* the connection is being served

vars == <<script, arrived, answered, wire, open>>

Init == /\ script \in Scripts
        /\ arrived = 0
        /\ answered = 0
        /\ wire = <<>>
        /\ open = TRUE

Arrive == /\ arrived < RequestEnd(script, Len(script))
          /\ arrived' = arrived + 1
          /\ UNCHANGED <<script, answered, wire, open>>

Answer == /\ open
          /\ Len(wire) = ReplyEnd(script, answered)
          /\ answered < Len(script)
          /\ Answerable(script[answered + 1])
          /\ arrived >= RequestEnd(script, answered + 1)
          /\ answered' = answered + 1
          /\ UNCHANGED <<script, arrived, wire, open>>

Transmit == /\ open
            /\ \E n \in 1 .. ReplyEnd(script, answered) - Len(wire) :
                  wire' = wire \o [k \in 1..n |-> Len(wire) + k - 1]
            /\ UNCHANGED <<script, arrived, answered, open>>

Stop == /\ open
        /\ open' = FALSE
        /\ UNCHANGED <<script, arrived, answered, wire>>

Next == Arrive \/ Answer \/ Transmit \/ Stop

Spec == Init /\ [][Next]_vars
=============================================================================
