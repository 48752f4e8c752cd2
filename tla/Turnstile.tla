----------------------------- MODULE Turnstile -----------------------------
(***************************************************************************)
(* What a counting semaphore promises: calls line up, and whenever fewer   *)
(* than Permits of them are inside the first of the line goes in.  Module  *)
(* Semaphore is shown to implement this specification.                     *)
(***************************************************************************)
EXTENDS Naturals, Sequences, FiniteSets

CONSTANTS Caller, Permits

VARIABLES line,    \* the calls that have arrived and not yet gone in
          inside   \* the calls that have gone in and not yet left

turnstileVars == <<line, inside>>

TurnstileInit == line = <<>> /\ inside = {}

Arrive(c) ==
  /\ c \notin inside
  /\ \A i \in DOMAIN line : line[i] # c
  /\ line' = Append(line, c)
  /\ UNCHANGED inside

Enter ==
  /\ line # <<>>
  /\ Cardinality(inside) < Permits
  /\ inside' = inside \cup {Head(line)}
  /\ line' = Tail(line)

Leave(c) ==
  /\ c \in inside
  /\ inside' = inside \ {c}
  /\ UNCHANGED line

TurnstileNext == Enter \/ \E c \in Caller : Arrive(c) \/ Leave(c)

TurnstileSpec == TurnstileInit /\ [][TurnstileNext]_turnstileVars
=============================================================================
