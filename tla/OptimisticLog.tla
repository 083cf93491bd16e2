---------------------------- MODULE OptimisticLog ----------------------------
(***************************************************************************)
(* What EventStoreTrait::save_events promises its callers, whatever goes   *)
(* on behind it: an append-only log per aggregate, guarded by the version  *)
(* the caller expects.  A call that is answered Ok has appended its events *)
(* at that moment, right after the expected version; a call that is        *)
(* answered with an error has appended nothing; every call gets at most    *)
(* one answer.  A caller may go away, and then its call may still take     *)
(* effect, once, with nobody told.                                         *)
(***************************************************************************)
EXTENDS Integers, FiniteSets

CONSTANTS
    Requests,       \* concurrent activations of save_events
    Aggregates,     \* aggregate ids
    CallsOf,        \* arguments: aggregate, expected version, number of events
    InitialRows     \* versions stored for each aggregate at start-up

VARIABLES
    stage,          \* where each activation stands
    call,           \* its arguments
    reply,          \* its answer
    log             \* the stored versions of each aggregate

logVars == <<stage, call, reply, log>>

Stages == {"idle", "pending", "answered", "abandoned"}
Refusals == {"conflict", "validation", "database", "dropped"}

NoCall(r) == CHOOSE c \in CallsOf[r] : TRUE

(* The version of an aggregate: its highest stored version, 0 for none.    *)
IsCurrent(S, v) ==
    \/ S = {} /\ v = 0
    \/ v \in S /\ \A w \in S : w =< v

LogInit ==
    /\ stage = [r \in Requests |-> "idle"]
    /\ call = [r \in Requests |-> NoCall(r)]
    /\ reply = [r \in Requests |-> "none"]
    /\ log = InitialRows

Invoke(r) ==
    /\ stage[r] = "idle"
    /\ \E c \in CallsOf[r] : call' = [call EXCEPT ![r] = c]
    /\ stage' = [stage EXCEPT ![r] = "pending"]
    /\ UNCHANGED <<reply, log>>

Unanswered(r) == stage[r] \in {"pending", "abandoned"}

(* The requests of S leave the system, the waiting ones with an answer.    *)
Settle(S, answers) ==
    /\ \A r \in S : Unanswered(r)
    /\ stage' = [r \in Requests |->
                    IF r \notin S THEN stage[r]
                    ELSE IF stage[r] = "pending" THEN "answered" ELSE "idle"]
    /\ call' = [r \in Requests |->
                   IF r \in S /\ stage[r] = "abandoned" THEN NoCall(r) ELSE call[r]]
    /\ \E answer \in answers :
          reply' = [r \in Requests |->
                      IF r \in S /\ stage[r] = "pending" THEN answer ELSE reply[r]]

Succeed(r) ==
    LET c == call[r] IN
    /\ IsCurrent(log[c.agg], c.expected)
    /\ log' = [log EXCEPT ![c.agg] =
                 @ \cup (c.expected + 1 .. c.expected + c.count)]
    /\ Settle({r}, {"ok"})

(* One failure may refuse several calls at once.                           *)
Refuse(S) ==
    /\ Settle(S, Refusals)
    /\ UNCHANGED log

Return(r) ==
    /\ stage[r] = "answered"
    /\ stage' = [stage EXCEPT ![r] = "idle"]
    /\ call' = [call EXCEPT ![r] = NoCall(r)]
    /\ reply' = [reply EXCEPT ![r] = "none"]
    /\ UNCHANGED log

(* The caller goes away; the call is withdrawn in time, or it is not.      *)
Abandon(r) ==
    /\ stage[r] = "pending"
    /\ \/ /\ stage' = [stage EXCEPT ![r] = "idle"]
          /\ call' = [call EXCEPT ![r] = NoCall(r)]
       \/ /\ stage' = [stage EXCEPT ![r] = "abandoned"]
          /\ UNCHANGED call
    /\ UNCHANGED <<reply, log>>

LogNext ==
    \/ \E r \in Requests : Invoke(r) \/ Succeed(r) \/ Return(r) \/ Abandon(r)
    \/ \E S \in (SUBSET Requests) \ {{}} : Refuse(S)

LogSpec == LogInit /\ [][LogNext]_logVars
=============================================================================
