---------------------------- MODULE ApplicationFSM ----------------------------
(***************************************************************************)
(* The stage machine of a job application: the table of legal moves, the   *)
(* state sets derived from it, and the two operations the rest of the      *)
(* system calls.  Constant-level: the machine keeps no state of its own.   *)
(***************************************************************************)

Edge(from, to) == [from |-> from, to |-> to]

InterviewStages == {"phone_screen", "technical", "final_round"}

\* Mutant: a draft can be ghosted.
TRANSITIONS_GhostedDraft ==
  { Edge("wishlist", "draft"),        Edge("draft", "applied"), Edge("draft", "ghosted"),
    Edge("applied", "phone_screen"),  Edge("phone_screen", "technical"),
    Edge("technical", "final_round"), Edge("final_round", "offer"),
    Edge("offer", "accepted"),        Edge("offer", "declined"),
    Edge("offer", "rejected") }
  \cup { Edge(s, e) : s \in {"applied"} \cup InterviewStages,
                      e \in {"rejected", "ghosted", "withdrawn"} }
  \cup { Edge(e, "applied") : e \in {"rejected", "ghosted", "withdrawn"} }

TRANSITIONS ==
  { Edge("wishlist", "draft"),        Edge("draft", "applied"),
    Edge("applied", "phone_screen"),  Edge("phone_screen", "technical"),
    Edge("technical", "final_round"), Edge("final_round", "offer"),
    Edge("offer", "accepted"),        Edge("offer", "declined"),
    Edge("offer", "rejected") }
  \cup { Edge(s, e) : s \in {"applied"} \cup InterviewStages,
                      e \in {"rejected", "ghosted", "withdrawn"} }
  \cup { Edge(e, "applied") : e \in {"rejected", "ghosted", "withdrawn"} }

TERMINAL_STATES == {"accepted", "declined", "archived"}
VALID_STATES    == { e.from : e \in TRANSITIONS } \cup { e.to : e \in TRANSITIONS }
                   \cup TERMINAL_STATES
ENTRY_STATES    == {"wishlist", "draft", "applied"}
ACTIVE_STATES   == VALID_STATES \ (TERMINAL_STATES \cup {"rejected", "ghosted", "withdrawn"})

\* The code raises InvalidTransitionError exactly when this is FALSE.
assert_transition(from, to) ==
  \/ to = "archived" /\ from \notin TERMINAL_STATES
  \/ Edge(from, to) \in TRANSITIONS

\* Mutant: a terminal stage still offers archiving.
valid_next_states_FromTerminal(from) ==
  { e.to : e \in { x \in TRANSITIONS : x.from = from } } \cup {"archived"}

\* What the web client offers as buttons and drop targets.
valid_next_states(from) ==
  LET nexts == { e.to : e \in { x \in TRANSITIONS : x.from = from } }
  IN  IF from \in TERMINAL_STATES \/ nexts = {} THEN {} ELSE nexts \cup {"archived"}
===============================================================================
