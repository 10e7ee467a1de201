------------------------------- MODULE Exchange -------------------------------
(***************************************************************************)
(* What an HTTP connection promises its client: answers come one for one   *)
(* and in the order of the requests, until the exchange is over.           *)
(***************************************************************************)
EXTENDS Naturals, Sequences

CONSTANT Conn   \* connections of clients

VARIABLES
  asked,      \* number of requests each client has sent
  answers,    \* the requests answered, in the order of their answers
  over        \* connections on which nothing is answered any more

exchange == <<asked, answers, over>>

Init ==
  /\ asked = [c \in Conn |-> 0]
  /\ answers = [c \in Conn |-> <<>>]
  /\ over = {}

Ask(c) ==
  /\ asked' = [asked EXCEPT ![c] = @ + 1]
  /\ UNCHANGED <<answers, over>>

(* The oldest request that has no answer; the answer may be the last. *)
Answer(c) ==
  /\ c \notin over
  /\ Len(answers[c]) < asked[c]
  /\ answers' = [answers EXCEPT ![c] = Append(@, Len(@) + 1)]
  /\ over' \in {over, over \cup {c}}
  /\ UNCHANGED asked

End(S) ==
  /\ over' = over \cup S
  /\ UNCHANGED <<asked, answers>>

Next == \/ \E c \in Conn : Ask(c) \/ Answer(c)
        \/ \E S \in SUBSET Conn : End(S)

Spec == Init /\ [][Next]_exchange
=============================================================================
