--------------------------- MODULE Participation -----------------------------
(***************************************************************************)
(* What meetings/manager.rs promises its callers about the participation   *)
(* of one user in one meeting: a status, calls that are running, and       *)
(* answers.  Each call takes effect at one instant, the one at which it    *)
(* answers, and get_meeting_details never shows anything in between.       *)
(* There is no lock, no delete and no insert here.  Module Meetings        *)
(* implements this one.                                                    *)
(*                                                                         *)
(* Two things are promised less firmly than a reader would hope, because   *)
(* the code does not keep more: a set_interest or confirm_participation    *)
(* that fails, or that a crash cuts off, may have lost the old status; and *)
(* a cancellation empties whatever status it finds.                        *)
(***************************************************************************)
EXTENDS Integers, FiniteSets

CONSTANTS Task, User, Me, Organizer, Capacity

VARIABLES status,   \* the status of Me, "none" without one
          others,   \* the other users who attend
          gone,     \* the meeting has been deleted
          call,     \* task -> the call it runs, or "none"
          answer    \* task -> the answer of its last call, or "none"

promises == <<status, others, gone, call, answer>>

Attends(s) == s \in {"Confirmed", "Present"}

Attendees == others \cup (IF Attends(status) THEN {Me} ELSE {})

Calls == {"details", "set", "clear", "confirm", "cancel"}

Init == /\ others \subseteq User \ {Me}
        /\ Cardinality(Attendees) <= Capacity
        /\ gone \in BOOLEAN
        /\ call = [t \in Task |-> "none"]
        /\ answer = [t \in Task |-> "none"]

(* A call begins beside those that run, and its last answer is forgotten.  *)
Ask(t) ==
    /\ call[t] = "none"
    /\ \E c \in Calls : call' = [call EXCEPT ![t] = c]
    /\ answer' = [answer EXCEPT ![t] = "none"]
    /\ UNCHANGED <<status, others, gone>>

(* The call of t ends with answer a and leaves the status s.               *)
Answer(t, a, s) ==
    /\ call' = [call EXCEPT ![t] = "none"]
    /\ answer' = [answer EXCEPT ![t] = a]
    /\ status' = s
    /\ UNCHANGED <<others, gone>>

SetInterest(t) ==
    /\ call[t] = "set"
    /\ \/ Answer(t, "Success", "Interested")
       \/ \E s \in {status, "none"} : Answer(t, "ERR_DB_WRITE_FAILED", s)

ClearInterest(t) ==
    /\ call[t] = "clear"
    /\ \/ Answer(t, "Success", "none")
       \/ Answer(t, "ERR_DB_DELETE_FAILED", status)

HasPlace == Cardinality(Attendees) < Capacity

HasRight == status = "Invited" \/ Organizer = Me

Confirm(t) ==
    /\ call[t] = "confirm"
    /\ ~gone /\ HasPlace /\ HasRight
    /\ \/ Answer(t, "Success", "Confirmed")
       \/ \E s \in {status, "none"} : Answer(t, "ERR_DB_WRITE_FAILED", s)

Refuse(t) ==
    /\ call[t] = "confirm"
    /\ \/ gone /\ Answer(t, "ERR_MEETING_NOT_FOUND", status)
       \/ ~HasPlace /\ Answer(t, "ERR_MEETING_FULL", status)
       \/ ~HasRight /\ Answer(t, "ERR_NOT_INVITED", status)

(* Whether a warning is due is the subject of Meetings!NoFalseWarning.     *)
Cancel(t) ==
    /\ call[t] = "cancel"
    /\ \/ \E a \in {"Success", "ReputationWarning"} : Answer(t, a, "none")
       \/ Answer(t, "ERR_DB_DELETE_FAILED", status)
       \/ gone /\ Answer(t, "ERR_MEETING_NOT_FOUND", status)

(* The details show a status that some call left, or an error.  Whether    *)
(* the meeting has been cancelled is not said here.                        *)
Details(t) ==
    /\ call[t] = "details"
    /\ \/ gone /\ Answer(t, "ERR_MEETING_NOT_FOUND", status)
       \/ ~gone /\ Answer(t, "ERR_MEETING_CANCELLED", status)
       \/ ~gone /\ Answer(t, IF Attends(status) THEN "attending"
                             ELSE IF status = "Interested" THEN "interested"
                             ELSE "neither", status)

Prune == gone' = TRUE /\ UNCHANGED <<status, others, call, answer>>

Crash ==
    /\ \/ UNCHANGED status
       \/ (\E t \in Task : call[t] \in {"set", "confirm"}) /\ status' = "none"
    /\ call' = [t \in Task |-> "none"]
    /\ answer' = [t \in Task |-> "none"]
    /\ UNCHANGED <<others, gone>>

Next == \/ \E t \in Task : Ask(t) \/ Details(t) \/ SetInterest(t) \/ ClearInterest(t)
                              \/ Confirm(t) \/ Refuse(t) \/ Cancel(t)
        \/ Prune \/ Crash

Spec == Init /\ [][Next]_promises
==============================================================================
