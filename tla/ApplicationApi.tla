---------------------------- MODULE ApplicationApi ----------------------------
(***************************************************************************)
(* What the web client knows of the API: the answers to the writes of one  *)
(* application, each taken at one instant of the row (ApplicationWrites    *)
(* shows the statements behind it), and the affordances app/lib/           *)
(* transitions.ts derives from the table of stages.                        *)
(***************************************************************************)
EXTENDS ApplicationFSM, Integers

CONSTANT None

Ok == 200   NotFound == 404   Conflict == 409   Invalid == 422   Unavailable == 503

\* assert_transition! runs on the loaded record, before the version is compared.
TransitionAnswers(row, to, version) ==
  IF row = None                             THEN {NotFound}
  ELSE IF ~assert_transition(row.status, to) THEN {Invalid}
  ELSE IF row.version # version             THEN {Conflict}
  ELSE {Ok}

\* A details form names the version it was rendered from; a validation may fail.
UpdateAnswers(row, version) ==
  IF row = None                 THEN {NotFound}
  ELSE IF row.version # version THEN {Conflict, Invalid}
  ELSE {Ok, Invalid}

\* An upload names none: it conflicts only with a write between its own load and
\* UPDATE, and an unreadable or oversized file is refused.
UploadAnswers(row) == IF row = None THEN {NotFound} ELSE {Ok, Conflict, Invalid}

DestroyAnswers(row) == IF row = None THEN {NotFound} ELSE {Ok, Conflict}

\* fetch timed out or was refused: the API may or may not have done the work.
apiFetch(answers) == answers \cup {Unavailable}

-------------------------------------------------------------------------------
CONFIRM_REQUIRED  == {"rejected", "accepted", "declined", "withdrawn", "archived"}
STAGE_NOTE_STATES == InterviewStages \cup {"offer"}

\* Mutant: the edge to applied alone, which draft has too.
canRevive_AnyEdge(status, arrived) == arrived /\ Edge(status, "applied") \in TRANSITIONS

\* Whether the fetched table calls this a re-opening; FALSE when none arrived.
canRevive(status, arrived) ==
  /\ arrived
  /\ status \notin ACTIVE_STATES
  /\ Edge(status, "applied") \in TRANSITIONS
===============================================================================
