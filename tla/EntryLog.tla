------------------------------ MODULE EntryLog ------------------------------
(***************************************************************************)
(* What the circular buffer promises its users: it keeps the MAX most      *)
(* recently added entries, oldest first, and adding one when it already    *)
(* holds MAX drops the oldest and hands its memory back to the caller.     *)
(***************************************************************************)
EXTENDS Naturals, Sequences

CONSTANTS MAX, NULL, Entries

VARIABLES
  log,   \* the entries held, oldest first
  ret    \* what the last operation returned

vars == <<log, ret>>

Init == log = <<>> /\ ret = NULL

Add(e) ==
  IF Len(log) = MAX
    THEN /\ log' = Append(Tail(log), e)
         /\ ret' = Head(log).buffptr
    ELSE /\ log' = Append(log, e)
         /\ ret' = NULL

Clear == log' = <<>> /\ ret' = NULL

Next == Clear \/ \E e \in Entries : Add(e)

Spec == Init /\ [][Next]_vars
=============================================================================
