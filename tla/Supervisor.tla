---------------------------- MODULE Supervisor ----------------------------
(***************************************************************************)
(* What the manager promises, without lists, timers, signals or objects: a *)
(* unit has at most one process and no two units the same one; a process   *)
(* that was asked to end is never taken for a working one again; a unit is *)
(* free for its next process only when the last one has ended; and a slot  *)
(* changes its card in the driver only while its unit has no process, or   *)
(* when the process that ended is buried.                                  *)
(***************************************************************************)
CONSTANTS Unit,  \* what has to run
          Slot,  \* the units that stand for a slot
          Proc,  \* processes
          Card,  \* types of cards
          None

VARIABLES works,   \* the process of a unit, or None
          asked,   \* units whose process was asked to end
          ended,   \* processes that have ended and are not buried
          online   \* the card of a slot in the driver, or None

supVars == <<works, asked, ended, online>>

Init ==
  /\ works = [u \in Unit |-> None] /\ asked = {} /\ ended = {}
  /\ online = [s \in Slot |-> None]

Busy == {works[u] : u \in Unit}

Fork(u, p) ==
  /\ works[u] = None /\ p \notin Busy
  /\ works' = [works EXCEPT ![u] = p]
  /\ UNCHANGED <<asked, ended, online>>

\* units, all with a process: one, or at the end every one of them
Ask(us) ==
  /\ \A u \in us : works[u] # None
  /\ asked' = asked \cup us
  /\ UNCHANGED <<works, ended, online>>

\* A process ends, of its own accord or not.
End(p) ==
  /\ p \in Busy \ ended
  /\ ended' = ended \cup {p}
  /\ UNCHANGED <<works, asked, online>>

Bury(u) ==
  /\ works[u] \in ended
  /\ works' = [works EXCEPT ![u] = None]
  /\ asked' = asked \ {u} /\ ended' = ended \ {works[u]}
  /\ IF u \in Slot
     THEN \E c \in Card \cup {None} : online' = [online EXCEPT ![u] = c]
     ELSE UNCHANGED online

\* The driver takes a card of a slot without a process, or gives it up.
Change(s) ==
  /\ works[s] = None
  /\ \E c \in Card \cup {None} : (c = None \/ online[s] = None) /\ online' = [online EXCEPT ![s] = c]
  /\ UNCHANGED <<works, asked, ended>>

\* A new manager knows nothing of the processes of the last one; the driver
\* keeps its cards.
NewManager ==
  /\ works' = [u \in Unit |-> None] /\ asked' = {} /\ ended' = {}
  /\ UNCHANGED online

Next ==
  \/ \E u \in Unit : Bury(u) \/ \E p \in Proc : Fork(u, p)
  \/ \E us \in SUBSET Unit : Ask(us)
  \/ \E p \in Proc : End(p)
  \/ \E s \in Slot : Change(s)
  \/ NewManager

Spec == Init /\ [][Next]_supVars
===========================================================================
