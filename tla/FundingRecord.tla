--------------------------- MODULE FundingRecord ---------------------------
(***************************************************************************)
(* What the table paper_funding_events promises (persistFundingEvent and   *)
(* confirmFundingEvent in src/src/lib/db/edge-store.server.ts): a          *)
(* settlement is recorded once, provisionally or at its settled rate, a    *)
(* provisional record is confirmed at most once, and nothing demotes or    *)
(* removes a record.                                                       *)
(***************************************************************************)
CONSTANT Key    \* (symbol, settlement time)

VARIABLE record \* Key -> "none", "provisional" or "settled"

Init == record = [k \in Key |-> "none"]

Insert(k) ==
    /\ record[k] = "none"
    /\ \E status \in {"provisional", "settled"} :
           record' = [record EXCEPT ![k] = status]

Confirm(k) ==
    /\ record[k] = "provisional"
    /\ record' = [record EXCEPT ![k] = "settled"]

Next == \E k \in Key : Insert(k) \/ Confirm(k)

Spec == Init /\ [][Next]_record
=============================================================================
