----------------------------- MODULE SharedList -----------------------------
(****************************************************************************)
(* What threads that share a list expect of it: append() adds one element   *)
(* at the end at the moment it returns, or fails; an assignment sets one    *)
(* element, whose value is nobody's to rely on while it runs.               *)
(****************************************************************************)
EXTENDS Naturals, Sequences

CONSTANTS
  Thread,
  Value,
  NULL,   (* no statement *)
  Unset   (* an element while it is assigned to *)

VARIABLES
  list,   (* sequence of values *)
  doing   (* the statement each thread is in: an index, 0 for an append() *)
          (* that has none yet, and a value; or NULL *)

vars == <<list, doing>>

Init ==
  /\ list = <<>>
  /\ doing = [t \in Thread |-> NULL]

BeginAppend(t, v) ==
  /\ doing[t] = NULL
  /\ doing' = [doing EXCEPT ![t] = [index |-> 0, value |-> v]]
  /\ UNCHANGED list

BeginSet(t, i, v) ==
  /\ doing[t] = NULL
  /\ doing' = [doing EXCEPT ![t] = [index |-> i, value |-> v]]
  /\ list' = [list EXCEPT ![i] = Unset]

End(t) ==
  /\ doing[t] # NULL
  /\ LET d == doing[t]
     IN  list' = IF d.index = 0 THEN Append(list, d.value)
                 ELSE [list EXCEPT ![d.index] = d.value]
  /\ doing' = [doing EXCEPT ![t] = NULL]

Fail(t) ==
  /\ doing[t] # NULL /\ doing[t].index = 0
  /\ doing' = [doing EXCEPT ![t] = NULL]
  /\ UNCHANGED list

Next ==
  \E t \in Thread :
    \/ \E v \in Value : BeginAppend(t, v)
    \/ \E i \in DOMAIN list, v \in Value : BeginSet(t, i, v)
    \/ End(t) \/ Fail(t)

Spec == Init /\ [][Next]_vars
=============================================================================
