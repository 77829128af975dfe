------------------------------- MODULE PyList -------------------------------
(****************************************************************************)
(* What EMList promises: a Python list that outlives its process, with      *)
(* assignment to an index and append().  A statement that returns has       *)
(* taken effect and changes one element.  One that the process dies in has  *)
(* taken effect or not, or it has spoilt the old value of its own element.  *)
(****************************************************************************)
EXTENDS Naturals, Sequences

CONSTANTS
  Value,
  NULL,
  Torn    (* a value that was half overwritten *)

VARIABLES
  list,   (* sequence of values *)
  busy,   (* the statement under way: index and value; or NULL *)
  open    (* FALSE while no process has the list open *)

vars == <<list, busy, open>>

Init ==
  /\ list = <<>>
  /\ busy = NULL
  /\ open = TRUE

(* l[i - 1] = v, or l.append(v) if i is one past the end. *)
Begin(i, v) ==
  /\ open /\ busy = NULL
  /\ busy' = [index |-> i, value |-> v]
  /\ UNCHANGED <<list, open>>

(* What the list is once the statement has taken effect. *)
Updated ==
  IF busy.index > Len(list) THEN Append(list, busy.value)
  ELSE [list EXCEPT ![busy.index] = busy.value]

(* The statement takes effect, ... *)
Apply ==
  /\ busy # NULL
  /\ list' = Updated
  /\ UNCHANGED <<busy, open>>

(* ... possibly by overwriting the old value, ... *)
Tear ==
  /\ busy # NULL /\ busy.index \in DOMAIN list
  /\ list' = [list EXCEPT ![busy.index] = Torn]
  /\ UNCHANGED <<busy, open>>

(* ... and returns. *)
End ==
  /\ busy # NULL
  /\ list' = Updated
  /\ busy' = NULL
  /\ UNCHANGED open

(* append() fails, and the list is as it was. *)
Fail ==
  /\ busy # NULL /\ busy.index = Len(list) + 1
  /\ busy' = NULL
  /\ UNCHANGED <<list, open>>

(* The process closes the list, or dies. *)
Stop ==
  /\ open
  /\ open' = FALSE /\ busy' = NULL
  /\ UNCHANGED list

Start ==
  /\ ~open
  /\ open' = TRUE
  /\ UNCHANGED <<list, busy>>

Next ==
  \/ \E i \in 1 .. Len(list) + 1, v \in Value : Begin(i, v)
  \/ Apply \/ Tear \/ End \/ Fail \/ Stop \/ Start

Spec == Init /\ [][Next]_vars
=============================================================================
