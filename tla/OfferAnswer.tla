----------------------------- MODULE OfferAnswer -----------------------------
(***************************************************************************)
(* The offer/answer exchange as an application sees it: the types of the   *)
(* four descriptions of a peer connection.  One side's offer is pending at *)
(* a time, an answer completes the offer of the other side, and completing *)
(* it makes both current; a rollback forgets what is pending and nothing   *)
(* else.  Implemented by Signaling.                                        *)
(***************************************************************************)
VARIABLES currentLocal, pendingLocal, currentRemote, pendingRemote

vars == <<currentLocal, pendingLocal, currentRemote, pendingRemote>>

None == "none"

Init == /\ <<currentLocal, currentRemote>> \in
               {<<None, None>>, <<"offer", "answer">>, <<"answer", "offer">>}
        /\ pendingLocal = None
        /\ pendingRemote = None

\* A later offer of the same side replaces the one before.
LocalOffer == /\ pendingRemote = None
              /\ pendingLocal' = "offer"
              /\ UNCHANGED <<currentLocal, currentRemote, pendingRemote>>

\* A remote offer that meets a local one rolls that back first.
RemoteOffer == /\ pendingLocal = None
               /\ pendingRemote' = "offer"
               /\ UNCHANGED <<currentLocal, currentRemote, pendingLocal>>

LocalPranswer == /\ pendingRemote = "offer"
                 /\ pendingLocal' = "pranswer"
                 /\ UNCHANGED <<currentLocal, currentRemote, pendingRemote>>

RemotePranswer == /\ pendingLocal = "offer"
                  /\ pendingRemote' = "pranswer"
                  /\ UNCHANGED <<currentLocal, currentRemote, pendingLocal>>

LocalAnswer == /\ pendingRemote = "offer"
               /\ currentLocal' = "answer"
               /\ currentRemote' = "offer"
               /\ pendingLocal' = None
               /\ pendingRemote' = None

RemoteAnswer == /\ pendingLocal = "offer"
                /\ currentLocal' = "offer"
                /\ currentRemote' = "answer"
                /\ pendingLocal' = None
                /\ pendingRemote' = None

Rollback == /\ pendingLocal' = None
            /\ pendingRemote' = None
            /\ UNCHANGED <<currentLocal, currentRemote>>

Next == \/ LocalOffer \/ RemoteOffer
        \/ LocalPranswer \/ RemotePranswer
        \/ LocalAnswer \/ RemoteAnswer
        \/ Rollback

Spec == Init /\ [][Next]_vars

-----------------------------------------------------------------------------
\* The current descriptions are one offer and the answer to it, or none.
CurrentArePaired ==
    <<currentLocal, currentRemote>> \in
        {<<None, None>>, <<"offer", "answer">>, <<"answer", "offer">>}

\* Two offers never meet: what one side has pending beside the offer of the
\* other is a provisional answer to it.
NoGlare ==
    /\ pendingLocal \in {None, "offer", "pranswer"}
    /\ pendingRemote \in {None, "offer", "pranswer"}
    /\ pendingLocal = "offer" => pendingRemote \in {None, "pranswer"}
    /\ pendingRemote = "offer" => pendingLocal \in {None, "pranswer"}
=============================================================================
