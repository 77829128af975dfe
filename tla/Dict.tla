-------------------------------- MODULE Dict --------------------------------
(****************************************************************************)
(* What EMDict promises: a Python dict that outlives its process.  An       *)
(* assignment or deletion that returns has taken effect, and changes the    *)
(* one key it is about.  One that the process dies in has taken effect or   *)
(* not, or it has spoilt the old value of its own key, never another key.   *)
(****************************************************************************)
CONSTANTS
  Key,
  Value,
  NULL,   (* the value of a `del' statement *)
  Torn    (* a value that was half overwritten *)

VARIABLES
  dict,   (* partial function from keys to values *)
  busy,   (* the assignment or deletion under way, or NULL *)
  open    (* FALSE while no process has the dictionary open *)

vars == <<dict, busy, open>>

Init ==
  /\ dict = [k \in {} |-> NULL]
  /\ busy = NULL
  /\ open = TRUE

Begin(k, v) ==
  /\ open /\ busy = NULL
  /\ busy' = [key |-> k, value |-> v]
  /\ UNCHANGED <<dict, open>>

(* The statement takes effect, ... *)
Apply ==
  /\ busy # NULL
  /\ dict' = IF busy.value = NULL
             THEN [k \in DOMAIN dict \ {busy.key} |-> dict[k]]
             ELSE [k \in DOMAIN dict \cup {busy.key} |->
                     IF k = busy.key THEN busy.value ELSE dict[k]]
  /\ UNCHANGED <<busy, open>>

(* ... possibly by overwriting the old value, ... *)
Tear ==
  /\ busy # NULL
  /\ busy.key \in DOMAIN dict
  /\ dict' = [dict EXCEPT ![busy.key] = Torn]
  /\ UNCHANGED <<busy, open>>

(* ... and returns. *)
End ==
  /\ busy # NULL
  /\ IF busy.value = NULL
     THEN busy.key \notin DOMAIN dict
     ELSE busy.key \in DOMAIN dict /\ dict[busy.key] = busy.value
  /\ busy' = NULL
  /\ UNCHANGED <<dict, open>>

(* An assignment to a key that is not there fails, and the dictionary is as *)
(* it was.                                                                  *)
Fail ==
  /\ busy # NULL /\ busy.key \notin DOMAIN dict
  /\ busy' = NULL
  /\ UNCHANGED <<dict, open>>

(* The process closes the dictionary, or dies. *)
Stop ==
  /\ open
  /\ open' = FALSE /\ busy' = NULL
  /\ UNCHANGED dict

Start ==
  /\ ~open
  /\ open' = TRUE
  /\ UNCHANGED <<dict, busy>>

Next ==
  \/ \E k \in Key, v \in Value \cup {NULL} : Begin(k, v)
  \/ Apply \/ Tear \/ End \/ Fail \/ Stop \/ Start

Spec == Init /\ [][Next]_vars
=============================================================================
