------------------------------ MODULE ChatRoom ------------------------------
(***************************************************************************)
(* What the chat server promises to the people in the room: who is in the  *)
(* room under which chat ID, and what each of them hears.  Everybody who   *)
(* is there hears the same lines in the same order; a line carries the ID  *)
(* of the one who wrote it and is heard once, and not by its author.  The  *)
(* room does not promise to pass every text on, it may show a line that is *)
(* empty or holds the end of a text only, and it may put people out.       *)
(***************************************************************************)
EXTENDS Naturals, Sequences

CONSTANTS
  Conns,     \* the people, one connection each
  Ids,       \* chat IDs
  MaxTexts   \* how many texts each of them writes at most

VARIABLES
  id,     \* the chat ID of each person, 0 outside the room
  heard,  \* what each person has been sent
  said,   \* the last text of each person that was passed on
  away,   \* those who have hung up, whether or not the room knows
  closed  \* the server is gone

vars == <<id, heard, said, away, closed>>

Members == {c \in Conns : id[c] # 0}

(* The lines.  A text is known by its number, 0 is none from its beginning.*)
Welcome(n) == [kind |-> "welcome", id |-> n, text |-> 0]
Joined(n) == [kind |-> "joined", id |-> n, text |-> 0]
Line(n, i) == [kind |-> "line", id |-> n, text |-> i]
CautionLine == [kind |-> "caution", id |-> 0, text |-> 0]

Init ==
  /\ id = [c \in Conns |-> 0]
  /\ heard = [c \in Conns |-> <<>>]
  /\ said = [c \in Conns |-> 0]
  /\ away = {}
  /\ closed = FALSE

Tell(S, line) ==
  heard' = [c \in Conns |-> IF c \in S THEN Append(heard[c], line) ELSE heard[c]]

(* Those who hear what is said in a step: who is put out by it does not.   *)
Present == {c \in Conns \ away : id[c] # 0 /\ id'[c] # 0}

OthersKeepTheirId(S) == \A d \in Conns \ S : id'[d] \in {id[d], 0}

HangUp(c) ==
  /\ c \notin away
  /\ away' = away \cup {c}
  /\ UNCHANGED <<id, heard, said, closed>>

(* c comes in under an ID that nobody has, is welcomed and announced. *)
Join(c, n) ==
  /\ c \notin Members /\ \A d \in Members : id[d] # n
  /\ id'[c] = n /\ OthersKeepTheirId({c})
  /\ heard' = [d \in Conns |->
       IF d = c /\ d \notin away THEN Append(heard[d], Welcome(n))
       ELSE IF d \in Present THEN Append(heard[d], Joined(n))
       ELSE heard[d]]
  /\ UNCHANGED <<said, away, closed>>

(* Everybody else hears a text of c that comes after those passed on so far. *)
Say(c, i) ==
  /\ c \in Members /\ i > said[c]
  /\ said' = [said EXCEPT ![c] = i]
  /\ OthersKeepTheirId({}) /\ id'[c] = id[c]
  /\ Tell(Present \ {c}, Line(id[c], i))
  /\ UNCHANGED <<away, closed>>

(* A line without a text, or with the end of one, under whatever ID. *)
Noise(n) ==
  /\ UNCHANGED <<said, away, closed>>
  /\ OthersKeepTheirId({})
  /\ Tell({d \in Present : id[d] # n}, Line(n, 0))

(* Who is alone is told so. *)
Caution(c) ==
  /\ Members = {c}
  /\ Tell({c} \ away, CautionLine)
  /\ UNCHANGED <<id, said, away, closed>>

Leave(c) ==
  /\ c \in Members
  /\ id' = [id EXCEPT ![c] = 0]
  /\ UNCHANGED <<heard, said, away, closed>>

(* The server goes down, at times in the middle of a line: some of those   *)
(* who were there have heard it, the rest have not.                        *)
Close ==
  /\ closed' = TRUE
  /\ \/ UNCHANGED <<heard, said>>
     \/ \E S \in SUBSET (Members \ away) :
          \/ /\ \E n \in Ids : Tell(S, Line(n, 0))
             /\ UNCHANGED said
          \/ \E c \in Members \ S, i \in 1..MaxTexts :
               /\ i > said[c]
               /\ Tell(S, Line(id[c], i))
               /\ said' = [said EXCEPT ![c] = i]
          \/ /\ \E c \in Conns \ Members, n \in Ids :
                  heard' = [d \in Conns |->
                    IF d \in S THEN Append(heard[d], Joined(n))
                    ELSE IF d = c /\ d \notin away THEN Append(heard[d], Welcome(n))
                    ELSE heard[d]]
             /\ UNCHANGED said
  /\ UNCHANGED <<id, away>>

Next ==
  \/ \E c \in Conns : HangUp(c)
  \/ /\ ~closed
     /\ \/ Close
        \/ \E c \in Conns : Leave(c) \/ Caution(c)
        \/ \E c \in Conns, n \in Ids : Join(c, n)
        \/ \E c \in Conns, i \in 1..MaxTexts : Say(c, i)
        \/ \E n \in Ids : Noise(n)

Spec == Init /\ [][Next]_vars
=============================================================================
