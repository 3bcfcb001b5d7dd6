---------------------------- MODULE RecentLines ----------------------------
(***************************************************************************)
(* What the firmware's log promises, with no ring, no indices and no lock: *)
(* it remembers the last Depth lines, oldest first, and a GET_LOG request  *)
(* delivers exactly the lines remembered at one instant.  NoLine stands    *)
(* for a place that no line has filled yet.                                *)
(*                                                                         *)
(* RP2040Log implements this specification.                                *)
(***************************************************************************)
EXTENDS Integers

CONSTANTS Lines,   \* what one call of rp2040_log can leave behind
          NoLine,  \* the content of a place never written
          Depth    \* LOG_BUFFER_LINE_COUNT, at least 1

VARIABLES recent,     \* recent[1] is the oldest line remembered
          delivered   \* the body of the last GET_LOG reply

vars == <<recent, delivered>>

Init == /\ recent = [i \in 1..Depth |-> NoLine]
        /\ delivered = <<>>

Record(line) == /\ recent' = [i \in 1..Depth |->
                                IF i = Depth THEN line ELSE recent[i + 1]]
                /\ UNCHANGED delivered

Deliver == /\ delivered' = recent
           /\ UNCHANGED recent

Next == \/ \E line \in Lines : Record(line)
        \/ Deliver

Spec == Init /\ [][Next]_vars
=============================================================================
