------------------------------ MODULE OneShot ------------------------------
(***************************************************************************)
(* What the interaction hub promises to a tool and to the user, with none  *)
(* of its bookkeeping: every question is answered at most once, with a     *)
(* value the user really submitted or with a timeout, and a user told      *)
(* that the answer was delivered can rely on it having been the one the    *)
(* waiting tool received.  Interactions.tla implements this module.        *)
(***************************************************************************)
EXTENDS Naturals

CONSTANT Ids            \* interaction ids

Values   == {"yes", "no"}
Verdicts == {"none", "timeout"} \union Values

VARIABLES
  said,     \* said[i]: the values submitted so far for question i
  verdict,  \* verdict[i]: what the waiter of i was given, "none" before that
  acked     \* <<i, v>>: the user was told that answer v to i was delivered

oneShotVars == <<said, verdict, acked>>

OneShotInit ==
  /\ said = [i \in Ids |-> {}]
  /\ verdict = [i \in Ids |-> "none"]
  /\ acked = {}

\* The questions of S still open are given up; a verdict, once given, stays.
GivenUp(S, i) == i \in S /\ verdict[i] = "none"

\* The user answers i with v.  The answer may reach the waiter, and it may
\* make the hub give up other questions (a rejection stops the run).
Answer(i, v) ==
  \E S \in SUBSET (Ids \ {i}) :
    /\ said' = [said EXCEPT ![i] = @ \union {v}]
    /\ \/ /\ verdict[i] = "none"
          /\ acked' = acked \union {<<i, v>>}
          /\ verdict' = [j \in Ids |->
                           IF j = i THEN v
                           ELSE IF GivenUp(S, j) THEN "timeout" ELSE verdict[j]]
       \/ /\ acked' = acked
          /\ verdict' = [j \in Ids |-> IF GivenUp(S, j) THEN "timeout" ELSE verdict[j]]

\* A waiter finds an answer submitted before it started to wait.
TakeEarly(i) ==
  /\ verdict[i] = "none"
  /\ \E v \in said[i] : verdict' = [verdict EXCEPT ![i] = v]
  /\ UNCHANGED <<said, acked>>

\* Timeouts, a cancelled run, a stopped sub-session.
GiveUp ==
  \E S \in SUBSET Ids :
    /\ verdict' = [j \in Ids |-> IF GivenUp(S, j) THEN "timeout" ELSE verdict[j]]
    /\ UNCHANGED <<said, acked>>

\* A new run forgets what was submitted for questions that are still open.
Forget ==
  /\ said' = [i \in Ids |-> IF verdict[i] = "none" THEN {} ELSE said[i]]
  /\ UNCHANGED <<verdict, acked>>

OneShotNext ==
  \/ \E i \in Ids, v \in Values : Answer(i, v)
  \/ \E i \in Ids : TakeEarly(i)
  \/ GiveUp
  \/ Forget

OneShotSpec == OneShotInit /\ [][OneShotNext]_oneShotVars
=============================================================================
