---------------------------- MODULE EchoService ----------------------------
(***************************************************************************)
(* What the echo servers of src/WebRTC/tcpserver promise their visitors:   *)
(* each line comes back once, in order, to the one who said it, and the    *)
(* service only fails in a way a visitor has caused.                       *)
(***************************************************************************)
EXTENDS Integers

CONSTANTS Conns, MaxLines

VARIABLES
  visitor,  \* "out", "in" or "gone"
  said,     \* the last line of a visitor
  heard,    \* the last line that came back
  fragile,  \* the service may be brought down
  up        \* the service runs

vars == <<visitor, said, heard, fragile, up>>

Init ==
  /\ visitor = [c \in Conns |-> "out"]
  /\ said = [c \in Conns |-> 0]
  /\ heard = [c \in Conns |-> 0]
  /\ fragile \in BOOLEAN
  /\ up = TRUE

Enter(c) ==
  /\ visitor[c] = "out" /\ up
  /\ visitor' = [visitor EXCEPT ![c] = "in"]
  /\ UNCHANGED <<said, heard, fragile, up>>

(* One line after the other: nothing is said before the echo is back.      *)
Say(c) ==
  /\ visitor[c] = "in" /\ heard[c] = said[c] /\ said[c] < MaxLines
  /\ said' = [said EXCEPT ![c] = @ + 1]
  /\ UNCHANGED <<visitor, heard, fragile, up>>

Hear(c) ==
  /\ visitor[c] = "in" /\ heard[c] < said[c]
  /\ heard' = [heard EXCEPT ![c] = @ + 1]
  /\ UNCHANGED <<visitor, said, fragile, up>>

Leave(c) ==
  /\ visitor[c] = "in"
  /\ visitor' = [visitor EXCEPT ![c] = "gone"]
  /\ UNCHANGED <<said, heard, fragile, up>>

(* Somebody left with an echo unheard.                                     *)
Fail ==
  /\ fragile /\ up
  /\ \E c \in Conns : visitor[c] = "gone" /\ heard[c] < said[c]
  /\ up' = FALSE
  /\ UNCHANGED <<visitor, said, heard, fragile>>

Next == Fail \/ \E c \in Conns : Enter(c) \/ Say(c) \/ Hear(c) \/ Leave(c)

Spec == Init /\ [][Next]_vars
=============================================================================
