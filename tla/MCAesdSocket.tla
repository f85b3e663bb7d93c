---------------------------- MODULE MCAesdSocket ----------------------------
(***************************************************************************)
(* Instances of AesdSocket for TLC.                                        *)
(***************************************************************************)
EXTENDS AesdSocket, TLC

CONSTANTS c1, c2, a, b, seek0, seek1

\* Two clients at once, with a line each.
Crowd == [script |-> (c1 :> <<a>>) @@ (c2 :> <<b>>), patient |-> FALSE, ticks |-> 0]

\* Two clients at once, one of which has nothing to send, and the timer twice.
Solo == [script |-> (c1 :> <<a>>) @@ (c2 :> <<>>), patient |-> FALSE, ticks |-> 2]

\* Two clients at once, one with two lines.
Talker == [script |-> (c1 :> <<a>>) @@ (c2 :> <<b, a>>), patient |-> FALSE, ticks |-> 0]

\* Two clients at once, a line and a seek command.
Seeker == [script |-> (c1 :> <<a>>) @@ (c2 :> <<seek0>>), patient |-> FALSE, ticks |-> 0]

\* Lines and seek commands, one client after the other.
Queue == [script |-> (c1 :> <<a, seek0>>) @@ (c2 :> <<b, seek1, a>>), patient |-> TRUE, ticks |-> 0]

CrowdOnly == {Crowd}
CrowdAndSolo == {Crowd, Solo}
SeekerOnly == {Seeker}
CrowdsAndQueue == {Talker, Seeker, Queue}

Targets == (seek0 :> 0) @@ (seek1 :> 1)
=============================================================================
