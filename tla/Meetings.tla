------------------------------ MODULE Meetings -------------------------------
(***************************************************************************)
(* Participation of one user in one meeting on one device:                 *)
(* meetings/manager.rs over the meeting_participants table.                *)
(*                                                                         *)
(* The module is the asynchronous interface MeetingsManager offers, by     *)
(* itself and through AppController: each method takes &self, so whoever   *)
(* holds the manager's Arc may await any number of calls at once.  No      *)
(* caller is wired in the repository, and none is assumed here.  The calls *)
(* share the database behind one RwLock, which set_interest and            *)
(* confirm_participation hold for writing from the first statement to the  *)
(* last, and which cancel_participation takes twice: for reading, then     *)
(* again for writing.                                                      *)
(* Between the delete and the insert of a status change the process can be *)
(* killed, and each of the two statements can fail on its own; the code    *)
(* uses no transaction here.                                               *)
(***************************************************************************)
EXTENDS Integers, FiniteSets

CONSTANTS User,                 \* user hashes with a row or not in the meeting
          Me,                   \* identity.phone_hash of this device
          Organizer,            \* meeting.organizer_phone_hash
          Capacity,             \* meeting.max_participants
          Task,                 \* slots for concurrently running tasks
          NoTask,
          TicksPerHour,         \* 3600 seconds
          WarningHours,         \* reputation_warning_threshold_hours
          Start,                \* meeting.start_time, in ticks
          MaxClock              \* bound of the clock

ASSUME MeetingAssumption ==
    /\ Me \in User /\ Organizer \in User
    /\ IsFiniteSet(User)
    /\ Capacity \in Nat
    /\ NoTask \notin Task
    /\ TicksPerHour \in Nat \ {0}
    /\ WarningHours \in Nat /\ Start \in Nat /\ MaxClock \in Nat

VARIABLES rows,       \* meeting_participants of the meeting: user -> status
          meeting,    \* the row of the meetings table
          pc,         \* task -> what it waits for or does next
          result,     \* task -> what its call returned
          readers,    \* tasks that hold the RwLock for reading
          writer,     \* the task that holds it for writing
          now,
          first,      \* history: Invited or Confirmed when Me was, at the beginning
          before      \* history: the row the holder of the write lock found

vars == <<rows, meeting, pc, result, readers, writer, now, first, before>>

------------------------------------------------------------------------------
(* Nothing here tells PendingApproval, NoShow and Rejected apart.          *)
ParticipantStatus == {"Invited", "Interested", "Confirmed", "Present", "Other"}

Row == ParticipantStatus \cup {"none"}

(* The methods a caller can await.                                         *)
Calls == {"details", "set", "clear", "confirm", "cancel"}

Phase == Calls \cup {"idle", "insert_interested", "insert_confirmed", "cancel_write"}

Result == {"none", "Success", "ReputationWarning", "ERR_MEETING_NOT_FOUND",
           "ERR_MEETING_FULL", "ERR_NOT_INVITED", "ERR_DB_WRITE_FAILED",
           "ERR_DB_DELETE_FAILED", "ERR_MEETING_CANCELLED",
           "attending", "interested", "neither"}

Attending == {"Confirmed", "Present"}

TypeOK == /\ rows \in [User -> Row]
          /\ meeting \in {"Active", "Cancelled", "Gone"}
          /\ pc \in [Task -> Phase]
          /\ result \in [Task -> Result]
          /\ readers \in SUBSET Task
          /\ writer \in Task \cup {NoTask}
          /\ readers # {} => writer = NoTask
          /\ now \in 0..MaxClock
          /\ first \in Row /\ before \in Row

Guests == {u \in User : rows[u] \in Attending}

(* The rows of other users are whatever earlier sessions stored; a state   *)
(* above the capacity is not one confirm_participation could have left.    *)
Init == /\ rows \in [User -> Row]
        /\ Cardinality(Guests) <= Capacity
        /\ first = IF rows[Me] \in {"Invited", "Confirmed"} THEN rows[Me] ELSE "none"
        /\ before = "none"
        /\ meeting \in {"Active", "Cancelled", "Gone"}
        /\ pc = [t \in Task |-> "idle"]
        /\ result = [t \in Task |-> "none"]
        /\ readers = {} /\ writer = NoTask
        /\ now = 0

------------------------------------------------------------------------------
(* Reading without asking for the lock, for the mutation runs.             *)
CanRead_Always == TRUE

CanRead == writer = NoTask

CanWrite == writer = NoTask /\ readers = {}

Return(t, r) == /\ pc' = [pc EXCEPT ![t] = "idle"]
                /\ result' = [result EXCEPT ![t] = r]

(* The delete statement with the filter on this meeting and this user.     *)
DeleteMine == rows' = [rows EXCEPT ![Me] = "none"]

------------------------------------------------------------------------------
(* set_interest(true): delete whatever row there is, ignoring an error;    *)
(* then insert, which fails when the old row is still there.               *)
SetInterest(t) ==
    /\ pc[t] = "set" /\ CanWrite
    /\ writer' = t /\ before' = rows[Me]
    /\ DeleteMine \/ UNCHANGED rows
    /\ pc' = [pc EXCEPT ![t] = "insert_interested"]
    /\ UNCHANGED <<meeting, result, readers, now, first>>

(* The insert of a row for Me; ok is FALSE when the statement fails for a  *)
(* reason of its own (disk, lock) rather than because of a row it finds.   *)
InsertMine_ErrorIgnored(t, status, ok) ==
    /\ rows' = IF ok /\ rows[Me] = "none" THEN [rows EXCEPT ![Me] = status] ELSE rows
    /\ Return(t, "Success")

InsertMine(t, status, ok) ==
    IF ok /\ rows[Me] = "none"
    THEN rows' = [rows EXCEPT ![Me] = status] /\ Return(t, "Success")
    ELSE UNCHANGED rows /\ Return(t, "ERR_DB_WRITE_FAILED")

SetInterestInsert(t) ==
    /\ pc[t] = "insert_interested"
    /\ \E ok \in BOOLEAN : InsertMine(t, "Interested", ok)
    /\ writer' = NoTask /\ before' = "none"
    /\ UNCHANGED <<meeting, readers, now, first>>

(* set_interest(false): one delete, whose error is returned.               *)
ClearInterest(t) ==
    /\ pc[t] = "clear" /\ CanWrite
    /\ \/ DeleteMine /\ Return(t, "Success")
       \/ UNCHANGED rows /\ Return(t, "ERR_DB_DELETE_FAILED")
    /\ UNCHANGED <<meeting, readers, writer, now, first, before>>

------------------------------------------------------------------------------
(* confirm_participation: the checks, in the order of the code.            *)
Refusal_OffByOne ==
    IF meeting = "Gone" THEN "ERR_MEETING_NOT_FOUND"
    ELSE IF Cardinality(Guests) > Capacity THEN "ERR_MEETING_FULL"
    ELSE IF Organizer # Me /\ rows[Me] # "Invited" THEN "ERR_NOT_INVITED"
    ELSE "none"

Refusal_AnyoneJoins ==
    IF meeting = "Gone" THEN "ERR_MEETING_NOT_FOUND"
    ELSE IF Cardinality(Guests) >= Capacity THEN "ERR_MEETING_FULL"
    ELSE "none"

Refusal ==
    IF meeting = "Gone" THEN "ERR_MEETING_NOT_FOUND"
    ELSE IF Cardinality(Guests) >= Capacity THEN "ERR_MEETING_FULL"
    ELSE IF Organizer # Me /\ rows[Me] # "Invited" THEN "ERR_NOT_INVITED"
    ELSE "none"

ConfirmRefused(t) ==
    /\ pc[t] = "confirm" /\ CanWrite
    /\ Refusal # "none"
    /\ Return(t, Refusal)
    /\ UNCHANGED <<rows, meeting, readers, writer, now, first, before>>

Confirm(t) ==
    /\ pc[t] = "confirm" /\ CanWrite
    /\ Refusal = "none"
    /\ writer' = t /\ before' = rows[Me]
    /\ DeleteMine \/ UNCHANGED rows
    /\ pc' = [pc EXCEPT ![t] = "insert_confirmed"]
    /\ UNCHANGED <<meeting, result, readers, now, first>>

ConfirmInsert(t) ==
    /\ pc[t] = "insert_confirmed"
    /\ \E ok \in BOOLEAN : InsertMine(t, "Confirmed", ok)
    /\ writer' = NoTask /\ before' = "none"
    /\ UNCHANGED <<meeting, readers, now, first>>

------------------------------------------------------------------------------
(* cancel_participation: the meeting and the warning under the read lock.  *)
(* Rust's integer division truncates towards zero.                         *)
TruncDiv(a, b) == IF a >= 0 THEN a \div b ELSE -((-a) \div b)

HoursLeft == TruncDiv(Start - now, TicksPerHour)

CancelVerdict_OffByOne ==
    IF HoursLeft <= WarningHours /\ HoursLeft > 0 THEN "ReputationWarning" ELSE "Success"

CancelVerdict ==
    IF HoursLeft < WarningHours /\ HoursLeft > 0 THEN "ReputationWarning" ELSE "Success"

(* The read guard is taken here and dropped again by the same task in      *)
(* CancelDrop, which is where drop(db_read) stands.                        *)
Cancel(t) ==
    /\ pc[t] = "cancel" /\ CanRead /\ t \notin readers
    /\ IF meeting = "Gone"
       THEN /\ Return(t, "ERR_MEETING_NOT_FOUND")
            /\ UNCHANGED readers
       ELSE /\ readers' = readers \cup {t}
            /\ result' = [result EXCEPT ![t] = CancelVerdict]
            /\ UNCHANGED pc
    /\ UNCHANGED <<rows, meeting, writer, now, first, before>>

(* cancel_participation without its drop(db_read).                         *)
CancelDrop_GuardKept(t) ==
    /\ pc[t] = "cancel" /\ t \in readers
    /\ pc' = [pc EXCEPT ![t] = "cancel_write"]
    /\ UNCHANGED <<rows, meeting, result, readers, writer, now, first, before>>

CancelDrop(t) ==
    /\ pc[t] = "cancel" /\ t \in readers
    /\ readers' = readers \ {t}
    /\ pc' = [pc EXCEPT ![t] = "cancel_write"]
    /\ UNCHANGED <<rows, meeting, result, writer, now, first, before>>

CancelDelete(t) ==
    /\ pc[t] = "cancel_write" /\ CanWrite
    /\ \/ DeleteMine /\ Return(t, result[t])
       \/ UNCHANGED rows /\ Return(t, "ERR_DB_DELETE_FAILED")
    /\ UNCHANGED <<meeting, readers, writer, now, first, before>>

------------------------------------------------------------------------------
(* Someone awaits one more call, in a slot that runs none.                 *)
StartCall(t) ==
    /\ pc[t] = "idle"
    /\ \E call \in Calls : pc' = [pc EXCEPT ![t] = call]
    /\ result' = [result EXCEPT ![t] = "none"]
    /\ UNCHANGED <<rows, meeting, readers, writer, now, first, before>>

(* get_meeting_details: all its queries are under one read lock.  What it  *)
(* says of this user is user_is_attending and user_is_interested.          *)
Details == IF meeting = "Gone" THEN "ERR_MEETING_NOT_FOUND"
           ELSE IF meeting = "Cancelled" THEN "ERR_MEETING_CANCELLED"
           ELSE IF rows[Me] \in Attending THEN "attending"
           ELSE IF rows[Me] = "Interested" THEN "interested"
           ELSE "neither"

GetDetails(t) ==
    /\ pc[t] = "details" /\ CanRead
    /\ Return(t, Details)
    /\ UNCHANGED <<rows, meeting, readers, writer, now, first, before>>

(* DbManager::prune_old_meetings deletes a finished or cancelled meeting   *)
(* and leaves its participants; duration 0 is the shortest meeting.        *)
Prune ==
    /\ CanWrite
    /\ meeting = "Cancelled" \/ (meeting = "Active" /\ Start < now)
    /\ meeting' = "Gone"
    /\ UNCHANGED <<rows, pc, result, readers, writer, now, first, before>>

(* The process is killed: locks and tasks go, the table stays.             *)
Crash ==
    /\ pc' = [t \in Task |-> "idle"]
    /\ result' = [t \in Task |-> "none"]
    /\ readers' = {} /\ writer' = NoTask /\ before' = "none"
    /\ UNCHANGED <<rows, meeting, now, first>>

Tick == /\ now < MaxClock
        /\ now' = now + 1
        /\ UNCHANGED <<rows, meeting, pc, result, readers, writer, first, before>>

------------------------------------------------------------------------------
Acquire(t) == SetInterest(t) \/ ClearInterest(t) \/ ConfirmRefused(t) \/ Confirm(t)
              \/ Cancel(t) \/ CancelDelete(t) \/ GetDetails(t)

Continue(t) == SetInterestInsert(t) \/ ConfirmInsert(t) \/ CancelDrop(t)

Next == \/ \E t \in Task : StartCall(t) \/ Acquire(t) \/ Continue(t)
        \/ Prune \/ Crash \/ Tick

Spec == Init /\ [][Next]_vars

(* A spawned task is polled until it returns, and tokio's RwLock serves    *)
(* its waiters in order, so a task that can take the lock again and again  *)
(* gets it.  Callers, pruning, crashes and the clock owe nothing.          *)
FairSpec == /\ Spec
            /\ \A t \in Task : SF_vars(Acquire(t)) /\ WF_vars(Continue(t))

------------------------------------------------------------------------------
(* No interleaving, failed statement or crash lets this device record more *)
(* attendees than the capacity it checked (manager.rs:194-211).            *)
CapacityHeld == Cardinality(Guests) <= Capacity

(* The user is Confirmed only if invited or already confirmed when the     *)
(* behaviour began, or the organizer (manager.rs:213-229), also when the   *)
(* check and the insert are two steps.                                     *)
ConfirmedByRight ==
    rows[Me] = "Confirmed" => first \in {"Invited", "Confirmed"} \/ Organizer = Me

(* What a caller sees of the lock and the two statements: nothing.  While  *)
(* the write lock is held the status is still the one its holder found,    *)
(* and every step is one of module Participation, or none of its business. *)
CallOf == [idle |-> "none", details |-> "details",
           set |-> "set", insert_interested |-> "set",
           clear |-> "clear", confirm |-> "confirm", insert_confirmed |-> "confirm",
           cancel |-> "cancel", cancel_write |-> "cancel"]

StatusSeen == IF writer = NoTask THEN rows[Me] ELSE before

OthersAttending == Guests \ {Me}

CallsRunning == [t \in Task |-> CallOf[pc[t]]]

AnswersGiven == [t \in Task |-> IF pc[t] = "idle" THEN result[t] ELSE "none"]

Promised == INSTANCE Participation WITH
    status <- StatusSeen, others <- OthersAttending, gone <- meeting = "Gone",
    call <- CallsRunning, answer <- AnswersGiven

(* Each call of set_interest, confirm_participation and                    *)
(* cancel_participation (manager.rs:147-290) takes effect at one instant   *)
(* and as its answer says, although it is several statements, others run   *)
(* beside it, statements fail and the process may die in between.          *)
CallsAreAtomic == Promised!Spec

(* The user is never warned for a cancellation that takes effect before    *)
(* the threshold, although the warning is computed under another lock, at  *)
(* an earlier time, from truncated hours (manager.rs:265-285).             *)
NoFalseWarning ==
    [][\A t \in Task :
          (pc[t] = "cancel_write" /\ pc'[t] = "idle" /\ result'[t] = "ReputationWarning")
             => now > Start - WarningHours * TicksPerHour]_vars

(* Every call returns: no task waits for the lock for ever, in particular  *)
(* not for a read guard that it holds itself (drop(db_read), line 275).    *)
CallsReturn == \A t \in Task : pc[t] # "idle" ~> pc[t] = "idle"

------------------------------------------------------------------------------
(* "MAYBE" = Local reminder only (ui/meetings_view.slint:4): who was       *)
(* invited and then said "maybe" is not refused as uninvited.  The code    *)
(* deletes the Invited row to insert the Interested one (manager.rs:152),  *)
(* and confirm_participation asks that row for the invitation.             *)
MaybeKeepsInvitation ==
    [][\A t \in Task :
          (pc[t] = "confirm" /\ result'[t] = "ERR_NOT_INVITED" /\ first = "Invited")
             => rows[Me] # "Interested"]_vars

==============================================================================
