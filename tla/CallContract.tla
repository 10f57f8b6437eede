---------------------------- MODULE CallContract ----------------------------
(***************************************************************************)
(* What one call through the client promises its caller, with no retries,  *)
(* no wire and no counters: it starts, takes effect on the server some     *)
(* number of times, and ends with a verdict.  A call that may not be       *)
(* repeated takes effect at most once; a success has taken effect; a       *)
(* refusal of such a call means it never did and never will; an unknown    *)
(* verdict promises nothing, and the effect may even come later.           *)
(*                                                                         *)
(* Transport implements it (Contract in Transport, ImplementsContract in   *)
(* TransportProofs).                                                       *)
(***************************************************************************)

CONSTANTS
  Calls,        \* the calls made through one client
  Occurrences   \* names for the times a call's handler may run

VARIABLES
  phase,        \* phase[c] \in {"idle", "running", "ended"}
  repeatable,   \* repeatable[c]: c may take effect more than once
  effects,      \* effects[c]: the occurrences at which c took effect
  verdict       \* verdict[c]: what the caller was told

vars == <<phase, repeatable, effects, verdict>>

Init ==
  /\ phase = [c \in Calls |-> "idle"]
  /\ repeatable = [c \in Calls |-> FALSE]
  /\ effects = [c \in Calls |-> {}]
  /\ verdict = [c \in Calls |-> "none"]

Start(c) ==
  /\ phase[c] = "idle"
  /\ phase' = [phase EXCEPT ![c] = "running"]
  /\ \E r \in BOOLEAN : repeatable' = [repeatable EXCEPT ![c] = r]
  /\ UNCHANGED <<effects, verdict>>

TakeEffect(c) ==
  /\ phase[c] # "idle"
  /\ repeatable[c] \/ (effects[c] = {} /\ verdict[c] # "refused")
  /\ \E o \in Occurrences \ effects[c] :
        effects' = [effects EXCEPT ![c] = @ \cup {o}]
  /\ UNCHANGED <<phase, repeatable, verdict>>

End(c, v) ==
  /\ phase[c] = "running"
  /\ v = "success" => effects[c] # {}
  /\ v = "refused" => repeatable[c] \/ effects[c] = {}
  /\ phase' = [phase EXCEPT ![c] = "ended"]
  /\ verdict' = [verdict EXCEPT ![c] = v]
  /\ UNCHANGED <<repeatable, effects>>

Next ==
  \E c \in Calls :
    \/ Start(c)
    \/ TakeEffect(c)
    \/ \E v \in {"success", "refused", "unknown"} : End(c, v)

Spec == Init /\ [][Next]_vars
=============================================================================
