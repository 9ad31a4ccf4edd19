---------------------------- MODULE MCConnection ----------------------------
(***************************************************************************)
(* Small instances of Connection: the calls that the .cfg files pick from. *)
(***************************************************************************)
EXTENDS ConnectionSender

Call(i, kind, n, asking) == [id |-> i, kind |-> kind, n |-> n, asking |-> asking]

ASend == Call(1, "send", 1, FALSE)
AnAsk == Call(2, "send", 1, TRUE)
ATrans == Call(3, "trans", 1, FALSE)
AMany == Call(4, "many", 3, FALSE)
AnEmptyTrans == Call(5, "trans", 0, FALSE)
APing == Call(6, "send", 1, FALSE)

NoCalls == {}
OneCall == {ASend}
TwoCalls == {ASend, AnAsk}
Batches == {AMany, AnEmptyTrans}
ManyAndTrans == {AMany, ATrans}
OnePing == {APing}

=============================================================================
