-------------------------- MODULE MCManualForward ---------------------------
(* Two assignees, two pages with the button, a list that sweeps, and what  *)
(* the console and the panel show meanwhile, of a new mail or of one that  *)
(* a run has assigned and forwarded to a first assignee.  As a second      *)
(* world the settings page changes the operators there are; the first one  *)
(* takes any assignee it is given, so nothing of it depends on the second. *)
EXTENDS MailConsole, AssigneeAdmin

CONSTANT First   \* that assignee

(* What the pages may show is worked out once, here.                       *)
ASSUME ShownAssumption == Shown \in [Held -> SUBSET View]

VARIABLE world

worldVars == <<vars, adminVars, world>>

Forwarded(user) ==
  /\ assignment = [user |-> user, status |-> "forwarded"]
  /\ note = [n \in NoteId |-> IF n = 1 THEN [kind |-> "auto", user |-> user, status |-> "sent"]
                              ELSE Unused]
  /\ run = "auto_assigned"

MCInit ==
  /\ AdminInit
  /\ \/ world = "forward" /\ operator = [o \in Operators |-> NoOperator]
     \/ world = "settings" /\ Init
  /\ \/ Init
     \/ /\ Forwarded(First)
        /\ click = [c \in Clicks |-> Idle] /\ sender = [n \in NoteId |-> "none"]
        /\ sweep = [s \in Sweepers |-> Idle] /\ decided = NoUser
        /\ delivered = [n \in NoteId |-> 0]
        /\ raced = FALSE /\ moved = FALSE /\ lost = {} /\ runs = 0 /\ faults = 0

MCNext ==
  \/ world = "forward" /\ Next /\ UNCHANGED <<adminVars, world>>
  \/ world = "settings" /\ AdminNext /\ UNCHANGED <<vars, world>>
MCSpec == MCInit /\ [][MCNext]_worldVars /\ Fairness
=============================================================================
