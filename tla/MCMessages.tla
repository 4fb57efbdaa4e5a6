----------------------------- MODULE MCMessages -----------------------------
(***************************************************************************)
(* Instances for TLC of what arrives from outside and when it likes: the   *)
(* one-time codes, the WhatsApp webhook and the postal events.  A          *)
(* behaviour is about one of them, its part.                               *)
(***************************************************************************)
EXTENDS Otp, WhatsappInbox, PostalEvents, TLC

VARIABLE part

partVars == <<otpVars, inboxVars, postalVars, part>>

MCSentAt == [m \in Inbound |-> m - 1]
MCFrom == [m \in Inbound |-> "c"]
MCScans == {[at |-> 1, words |-> {"prebooking"}, reason |-> FALSE, rts |-> FALSE],
            [at |-> 2, words |-> {"movement"}, reason |-> FALSE, rts |-> FALSE],
            [at |-> 3, words |-> {"delivered"}, reason |-> FALSE, rts |-> FALSE],
            [at |-> 4, words |-> {"return"}, reason |-> FALSE, rts |-> TRUE]}
Symmetry == Permutations(Senders) \cup Permutations(Guessers) \cup Permutations(Parcels)

Init ==
    /\ part \in {"otp", "inbox", "postal"}
    /\ OtpInit /\ InboxInit /\ PostalInit
    /\ part # "otp" => ~failing
    /\ part # "postal" =>
         alone /\ \A o \in Parcels :
             parcel[o].status = "NEW" /\ ~parcel[o].pending /\ ~parcel[o].approved
    /\ \A o \in Parcels : parcel[o].status = "PACKED" => ~parcel[o].approved

Next ==
    /\ UNCHANGED part
    /\ \/ part = "otp" /\ OtpNext /\ UNCHANGED <<inboxVars, postalVars>>
       \/ part = "inbox" /\ InboxNext /\ UNCHANGED <<otpVars, postalVars>>
       \/ part = "postal" /\ PostalNext /\ UNCHANGED <<otpVars, inboxVars>>

Spec == Init /\ [][Next]_partVars

-----------------------------------------------------------------------------
\* The variables of the three parts keep their types.
MessagesTypeOK == OtpTypeOK /\ InboxTypeOK /\ PostalTypeOK
=============================================================================
