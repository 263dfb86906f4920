------------------------------ MODULE OnceOnly ------------------------------
(***************************************************************************)
(* What the external-effect coordinator promises of each effect key: it is *)
(* opened once, emitted at most once, confirmed only after it was emitted, *)
(* and declared withdrawn or barred only if it was not and never will be.  *)
(***************************************************************************)
CONSTANT Keys

VARIABLE effect

Stage == {"unknown", "open", "emitted", "confirmed", "withdrawn", "barred"}

(* The life of one effect: a claim is inserted; it is handed over, or      *)
(* proved not to have been, or sealed before the handoff; an emitted       *)
(* effect may be confirmed.                                                *)
Follows ==
    {<<"unknown", "open">>, <<"open", "emitted">>, <<"open", "withdrawn">>,
     <<"open", "barred">>, <<"emitted", "confirmed">>}

Init == effect = [k \in Keys |-> "unknown"]

Advance(k, stage) ==
    /\ <<effect[k], stage>> \in Follows
    /\ effect' = [effect EXCEPT ![k] = stage]

Next == \E k \in Keys, stage \in Stage : Advance(k, stage)

Spec == Init /\ [][Next]_effect
=============================================================================
