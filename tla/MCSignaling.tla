------------------------------ MODULE MCSignaling ------------------------------
(* Signaling with six remote descriptions, and the history of whether the      *)
(* application ever was in a hurry: one run checks what holds of every         *)
(* application together with what holds of an Unhurried one.                   *)
EXTENDS Signaling

DataOffer == Remote("offer", TRUE, 2)
RestartedOffer == Remote("offer", TRUE, 3)
EmptyOffer == Remote("offer", FALSE, 2)
DataAnswer == Remote("answer", TRUE, 2)
EmptyAnswer == Remote("answer", FALSE, 2)
DataPranswer == Remote("pranswer", TRUE, 2)

MCRemotes == {DataOffer, RestartedOffer, EmptyOffer, DataAnswer, EmptyAnswer, DataPranswer}

VARIABLE hurried

\* The step is a call that MayBegin excludes where the application is Unhurried.
Hurries ==
    /\ \E i \in 1 .. Len(s.events) : s.events[i].type = "localdescription"
    /\ calls' > calls
    /\ tasks # tasks' /\ tasks'[Len(tasks')].type \in {"offer", "rollback"}

MCInit == Init /\ hurried = FALSE
MCNext == Next /\ hurried' = (hurried \/ Hurries)
MCSpec == MCInit /\ [][MCNext]_<<vars, hurried>>

\* ImplementsOfferAnswer, until the application hurries: every step, a late native
\* event and the refresh timer included, is a step of the offer/answer exchange or
\* leaves its descriptions alone.
UnhurriedExchange == Exchange!Init /\ [][hurried' \/ Exchange!Next]_(Exchange!vars)
=============================================================================
