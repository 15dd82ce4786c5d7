---------------------------- MODULE Reservations ----------------------------
(* What the rental site promises to whoever asks for a vehicle: dates are     *)
(* held for one renter at a time, from the request on; a request is accepted, *)
(* at once or after the host's review, or ends; and what has ended is over.   *)
(* Where decisions may come late (Final is FALSE) a reservation may be        *)
(* decided on again after it was accepted or ended, but only while nobody     *)
(* else has its dates.                                                        *)
CONSTANTS Booking,      \* the reservations that may be asked for
          Overlapping,  \* pairs of reservations whose dates overlap
          Final         \* whether every decision is taken on the latest state

VARIABLE reservation    \* what the renter was told last

Taken == {"requested", "in_review", "accepted"}

DatesFree(b) ==
    \A c \in Booking \ {b} : <<b, c>> \in Overlapping => reservation[c] \notin Taken

Become(b, status) == reservation' = [reservation EXCEPT ![b] = status]

Init == reservation = [b \in Booking |-> "free"]

Request(b) == reservation[b] = "free" /\ DatesFree(b) /\ Become(b, "requested")

Review(b) == reservation[b] = "requested" /\ Become(b, "in_review")

Accept(b) == reservation[b] \in {"requested", "in_review"} /\ Become(b, "accepted")

End(b) == reservation[b] # "free" /\ Become(b, "over")

DecideLate(b) ==
    /\ ~Final /\ reservation[b] # "free" /\ DatesFree(b)
    /\ Become(b, "in_review") \/ Become(b, "accepted")

Next == \E b \in Booking :
    Request(b) \/ Review(b) \/ Accept(b) \/ End(b) \/ DecideLate(b)

Spec == Init /\ [][Next]_reservation

-----------------------------------------------------------------------------
\* No two renters are ever told that they have dates which overlap.
DatesApart ==
    \A b, c \in Booking : b # c /\ <<b, c>> \in Overlapping =>
        ~({reservation[b], reservation[c]} \subseteq Taken)

\* What has ended never comes back.
EndedIsOver ==
    [][Final => \A b \in Booking : reservation[b] = "over" => reservation'[b] = "over"]_reservation
=============================================================================
