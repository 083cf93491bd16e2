--------------------------- MODULE MCShardManager ---------------------------
(***************************************************************************)
(* A small instance of ShardManager.                                       *)
(***************************************************************************)
EXTENDS ShardManager

(* An empty map; and two shards on one instance, one on another, a load    *)
(* that calls for rebalancing.                                             *)
Empty == [s \in Shards |-> Missing]
TwoAndOne == [s \in Shards |-> IF s = 2 THEN "i2" ELSE "i1"]
MCStarts == {Empty, TwoAndOne}

(* A shard that goes back and forth, so that loads of 2 and 1 come and go. *)
ThereAndBack == {<<0, "i1">>, <<0, "i2">>}

(* What runs beside initialize_shards, fixed at the start of a behaviour:  *)
(* lookups, or tasks that move shards.                                     *)
VARIABLE callers

MCInit ==
    /\ Init
    /\ callers \in {"lookups", "tasks"}
    /\ callers = "lookups" => shards = Empty
    /\ callers = "tasks" => \A l \in Lookups : hash[l] = 0

MCNext ==
    /\ Next
    /\ callers = "lookups" => UNCHANGED taskVars
    /\ callers = "tasks" => UNCHANGED walkVars
    /\ UNCHANGED callers

MCSpec == MCInit /\ [][MCNext]_<<vars, callers>> /\ Fairness
=============================================================================
