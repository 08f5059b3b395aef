--------------------------- MODULE MCStreamProcess ---------------------------
(* Instances of StreamProcess, side by side.  Partition 0 carries entity 1: an *)
(* event, a late one, and one after which both have expired.  Partition 1      *)
(* carries entity 2: an event, the same event again, and a third record.  A    *)
(* setup takes a prefix of each; its malformed records do not decode.          *)
EXTENDS StreamProcess

CONSTANTS LongTrouble, ShortTrouble   \* bounds: faults and stops, by setup

Sent(id, entity, at, amount, offset) ==
  [id |-> id, entity |-> entity, at |-> at, amount |-> amount,
   partition |-> entity, offset |-> offset]

MCEventOf ==
  (<<0, 0>> :> Sent("a", 1, 2, 1, 0)) @@ (<<0, 1>> :> Sent("b", 1, 1, 2, 1)) @@
  (<<0, 2>> :> Sent("c", 1, 4, 1, 2)) @@ (<<1, 0>> :> Sent("d", 2, 1, 1, 0)) @@
  (<<1, 1>> :> Sent("d", 2, 1, 1, 0))

Setup(source, policy, length, malformed) ==
  [source |-> source, policy |-> policy, length |-> length, malformed |-> malformed]

Long == Setup("kafka", "dlq", 0 :> 2 @@ 1 :> 3, {<<1, 2>>})
Short ==
  {Setup("kafka", "dlq", 0 :> 1 @@ 1 :> 2, {<<1, 1>>}),
   Setup("kafka", "halt", 0 :> 1 @@ 1 :> 2, {<<1, 1>>}),
   Setup("kafka", "halt", 0 :> 1 @@ 1 :> 1, {}),
   Setup("stdin", "halt", 0 :> 3, {})}
MCSetups == {Long} \cup Short

MCNext ==
  /\ Next
  /\ faults' + stops' <= IF setup = Long THEN LongTrouble ELSE ShortTrouble

MCSpec == Init /\ [][MCNext]_<<vars, setup>> /\ Fairness
=============================================================================
