--------------------------- MODULE OrderedDelivery ---------------------------
(***************************************************************************)
(* What a one-way message path between two threads promises to the code on *)
(* either side of it: messages come out in the order they went in, none is *)
(* invented, repeated or skipped, and while the path is open every message *)
(* that went in eventually comes out.  Messages may leave in batches.      *)
(* Implemented by EventDispatcher (native callbacks to JavaScript) and by  *)
(* the queue of AsyncSender (JavaScript to the send thread).               *)
(***************************************************************************)
EXTENDS Naturals, Sequences

CONSTANT Message        \* whatever travels on the path

VARIABLES sent,         \* the messages accepted so far, in order
          received,     \* the messages handed to the other side, in order
          open          \* FALSE once the path was shut

vars == <<sent, received, open>>

Init == /\ sent = <<>>
        /\ received = <<>>
        /\ open = TRUE

\* A shut path may still take messages: it promises nothing of them.
Accept == /\ \E m \in Message : sent' = Append(sent, m)
          /\ UNCHANGED <<received, open>>

\* One or more of the oldest undelivered messages come out.
Deliver == /\ \E k \in Len(received) + 1 .. Len(sent) :
                received' = SubSeq(sent, 1, k)
           /\ UNCHANGED <<sent, open>>

Shut == /\ open
        /\ open' = FALSE
        /\ UNCHANGED <<sent, received>>

Next == Accept \/ Deliver \/ Shut

Spec == Init /\ [][Next]_vars /\ WF_vars(open /\ Deliver)
=============================================================================
