---------------------------- MODULE ReceiptTable ----------------------------
(***************************************************************************)
(* What the usage ledger promises: one receipt per executed unit, which    *)
(* moves once, as long as nothing has spoilt the table.                    *)
(***************************************************************************)
CONSTANT Units

VARIABLES
    seen,   \* the receipt of each unit that a reader sees
    kept,   \* the one that a power loss cannot take
    spoilt  \* nothing is promised

Outcomes == {"success", "failed", "manual"}

\* A unit is begun, or metered once; what is pending gets one outcome.
Moves(old, new) ==
    /\ new.kind = "row"
    /\ \/ old.kind = "none"
       \/ old.state = "pending" /\ \E s \in Outcomes : new = [old EXCEPT !.state = s]

Init ==
    /\ \A unit \in Units : seen[unit].kind = "none"
    /\ kept = seen
    /\ ~spoilt

Record(unit) ==
    /\ Moves(seen[unit], seen'[unit])
    /\ \A other \in Units \ {unit} : seen'[other] = seen[other]
    /\ kept' = seen' \/ kept' = kept

\* What is seen may become permanent without a further step.
Settle ==
    /\ seen' = seen
    /\ kept' = seen

\* A unit keeps what it shows, or a stage between that and what was kept.
PowerLoss ==
    /\ kept' = seen'
    /\ \A unit \in Units :
         \/ seen'[unit] = seen[unit]
         \/ seen'[unit] = kept[unit]
         \/ Moves(kept[unit], seen'[unit]) /\ Moves(seen'[unit], seen[unit])

Next == Settle \/ PowerLoss \/ \E unit \in Units : Record(unit)

Spec == Init /\ [][~spoilt /\ ~spoilt' => Next]_<<seen, kept>>
=============================================================================
