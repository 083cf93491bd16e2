--------------------------- MODULE MCProjections ---------------------------
(***************************************************************************)
(* Two values of one account, and two transactions of it, sent in single   *)
(* updates.  In one set-up reads are of the account, which takes its two    *)
(* values, in the other of its list, which takes the two transactions: the *)
(* two reads never touch the same cache.                                   *)
(***************************************************************************)
EXTENDS Projections, TLC

CONSTANTS a1, t1, t2

VARIABLE callers

MCAccountOf == [t \in Transactions |-> a1]

MCUpdates ==
    {[accounts |-> <<<<a1, v>>>>, transactions |-> <<>>] : v \in Values}
      \cup {[accounts |-> <<>>, transactions |-> <<t>>] : t \in Transactions}

(* What is sent in each set-up.                                            *)
SentBy ==
    [accounts |-> {u \in MCUpdates : u.transactions # <<t2>>},
     lists |-> {u \in MCUpdates : \A i \in DOMAIN u.accounts : u.accounts[i][2] = 1}]

MCInit == Init /\ callers \in {"accounts", "lists"}

MCNext ==
    /\ Next
    /\ Range(channel') \subseteq SentBy[callers]
    /\ callers = "accounts" => UNCHANGED listing
    /\ callers = "lists" => UNCHANGED getting
    /\ UNCHANGED callers

MCSpec == MCInit /\ [][MCNext]_<<vars, callers>> /\ Fairness
=============================================================================
