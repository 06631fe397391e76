-------------------------- MODULE MeetingsProofs -----------------------------
(***************************************************************************)
(* What meetings/manager.rs guarantees for any number of tasks and guests, *)
(* any capacity and any thresholds.  The invariant says what the write     *)
(* lock is for: the task between its delete and its insert holds it, and   *)
(* what that task has checked before its delete still holds.               *)
(***************************************************************************)
EXTENDS Meetings, FiniteSetTheorems, TLAPS

Inserting == {"insert_interested", "insert_confirmed"}

(* A task between its delete and its insert holds the write lock.          *)
LockHeld ==
    \A t \in Task : pc[t] \in Inserting => writer = t

(* There is a place for Me while a confirmation is between its statements. *)
PlaceKept ==
    \A t \in Task : pc[t] = "insert_confirmed" => Cardinality(Guests \ {Me}) < Capacity

(* Who may be confirmed was invited, or is the organizer.                  *)
RightKept ==
    /\ rows[Me] = "Invited" => first = "Invited"
    /\ \A t \in Task : pc[t] = "insert_confirmed" => first = "Invited" \/ Organizer = Me

(* A task that will insert has not returned anything yet.                  *)
NothingReturned ==
    \A t \in Task : pc[t] \in Inserting \cup {"set", "confirm"} => result[t] = "none"

(* A warning is only computed once the threshold has been passed.          *)
WarnedInTime ==
    \A t \in Task : result[t] = "ReputationWarning" =>
                       now > Start - WarningHours * TicksPerHour

IInv == /\ TypeOK /\ LockHeld
        /\ PlaceKept /\ CapacityHeld
        /\ RightKept /\ ConfirmedByRight
        /\ NothingReturned /\ WarnedInTime

------------------------------------------------------------------------------
(* Guests: finitely many, and Me counts for one of them at most.           *)
LEMMA GuestsAreFinite == IsFiniteSet(Guests) /\ Cardinality(Guests) \in Nat
  BY MeetingAssumption, FS_Subset, FS_CardinalityType DEF Guests

LEMMA GuestsButMe ==
    /\ Cardinality(Guests \ {Me}) \in Nat
    /\ Cardinality(Guests \ {Me}) <= Cardinality(Guests)
    /\ Cardinality((Guests \ {Me}) \cup {Me}) = Cardinality(Guests \ {Me}) + 1
  <1>1. /\ IsFiniteSet(Guests) /\ IsFiniteSet(Guests \ {Me})
        /\ Cardinality(Guests \ {Me}) <= Cardinality(Guests)
    BY GuestsAreFinite, FS_Subset, Guests \ {Me} \subseteq Guests
  <1> QED
    BY <1>1, FS_AddElement, FS_CardinalityType

(* Truncated hours below the threshold are hours below the threshold.      *)
LEMMA DivisionBound ==
    ASSUME NEW d \in Nat, NEW T \in Nat \ {0}, NEW W \in Nat, d \div T < W
    PROVE  d < W * T
  <1> DEFINE q == d \div T
  <1>1. q \in Nat /\ d < T * q + T
    BY Z3
  <1>2. q + 1 <= W
    BY <1>1
  <1> HIDE DEF q
  <1>3. (q + 1) * T <= W * T
    BY <1>1, <1>2
  <1> QED
    BY <1>1, <1>3

LEMMA WarningIsInTime ==
    ASSUME now \in Nat, CancelVerdict = "ReputationWarning"
    PROVE  now > Start - WarningHours * TicksPerHour
  <1> USE MeetingAssumption
  <1>1. HoursLeft < WarningHours /\ HoursLeft > 0
    BY DEF CancelVerdict
  <1>2. CASE Start - now >= 0
    <2>1. Start - now \in Nat /\ (Start - now) \div TicksPerHour < WarningHours
      BY <1>1, <1>2 DEF HoursLeft, TruncDiv
    <2>2. Start - now < WarningHours * TicksPerHour
      BY <2>1, DivisionBound
    <2>3. WarningHours * TicksPerHour \in Nat
      OBVIOUS
    <2> QED
      BY <2>2, <2>3
  <1>3. CASE Start - now < 0
    <2>1. WarningHours * TicksPerHour \in Nat
      OBVIOUS
    <2> QED
      BY <1>3, <2>1
  <1> QED
    BY <1>2, <1>3

------------------------------------------------------------------------------
LEMMA InitHoldsIInv == Init => IInv
  <1> SUFFICES ASSUME Init
               PROVE  IInv
    OBVIOUS
  <1>1. TypeOK
    BY MeetingAssumption DEF Init, TypeOK, Phase, Result, Row
  <1>2. \A t \in Task : pc[t] = "idle" /\ result[t] = "none"
    BY DEF Init
  <1>3. CapacityHeld /\ ConfirmedByRight
    BY DEF Init, CapacityHeld, ConfirmedByRight
  <1> QED
    BY <1>1, <1>2, <1>3
       DEF Init, IInv, LockHeld, PlaceKept, RightKept, NothingReturned, WarnedInTime, Inserting

------------------------------------------------------------------------------
(* A statement that deletes the row of Me, or fails, keeps everything that *)
(* is said of the rows; so does a step that leaves them alone.             *)
LEMMA DeleteKeepsRows ==
    ASSUME IInv, DeleteMine \/ UNCHANGED rows, UNCHANGED first
    PROVE  /\ rows' \in [User -> Row]
           /\ CapacityHeld' /\ ConfirmedByRight'
           /\ rows'[Me] = "Invited" => first' = "Invited"
           /\ Guests' \ {Me} = Guests \ {Me}
  <1> USE MeetingAssumption
  <1>1. CASE UNCHANGED rows
    BY <1>1 DEF IInv, TypeOK, CapacityHeld, ConfirmedByRight, RightKept, Guests
  <1>2. CASE DeleteMine
    <2>1. rows' \in [User -> Row] /\ rows'[Me] = "none"
          /\ \A u \in User \ {Me} : rows'[u] = rows[u]
      BY <1>2 DEF IInv, TypeOK, DeleteMine, Row
    <2>2. Guests' = Guests \ {Me}
      BY <2>1 DEF Guests, Attending
    <2>3. CapacityHeld'
      BY <2>2, GuestsButMe, GuestsAreFinite DEF IInv, CapacityHeld
    <2> QED
      BY <2>1, <2>2, <2>3 DEF ConfirmedByRight
  <1> QED
    BY <1>1, <1>2

(* A step that inserts nothing: it deletes at most, and whoever is between *)
(* two statements afterwards holds the lock and has returned nothing.  A   *)
(* confirmation that begins has made its checks.                           *)
LEMMA QuietStepKeepsIInv ==
    ASSUME IInv, TypeOK', DeleteMine \/ UNCHANGED rows, UNCHANGED first, LockHeld',
           \A t \in Task : pc'[t] = "insert_confirmed" =>
               pc[t] = "insert_confirmed"
                 \/ (/\ Cardinality(Guests) < Capacity
                     /\ rows[Me] = "Invited" \/ Organizer = Me),
           NothingReturned', WarnedInTime'
    PROVE  IInv'
  <1>1. CapacityHeld' /\ ConfirmedByRight' /\ Guests' \ {Me} = Guests \ {Me}
        /\ (rows'[Me] = "Invited" => first' = "Invited")
    BY DeleteKeepsRows
  <1>2. PlaceKept'
    <2> SUFFICES ASSUME NEW t \in Task, pc'[t] = "insert_confirmed"
                 PROVE  Cardinality(Guests \ {Me}) < Capacity
      BY <1>1 DEF PlaceKept
    <2>1. CASE pc[t] = "insert_confirmed"
      BY <2>1 DEF IInv, PlaceKept
    <2>2. CASE Cardinality(Guests) < Capacity
      BY <2>2, GuestsButMe, GuestsAreFinite, MeetingAssumption
    <2> QED
      BY <2>1, <2>2
  <1>3. RightKept'
    BY <1>1 DEF IInv, RightKept
  <1> QED
    BY <1>1, <1>2, <1>3 DEF IInv

(* Time passing does not undo a warning, and others' results stay.         *)
LEMMA WarningsStay ==
    ASSUME IInv, now' \in Nat, now' >= now,
           \A t \in Task : result'[t] = result[t] \/ result'[t] # "ReputationWarning"
    PROVE  WarnedInTime'
  <1> DEFINE limit == Start - WarningHours * TicksPerHour
  <1>1. limit \in Int /\ now \in Nat
    BY MeetingAssumption DEF IInv, TypeOK
  <1>2. \A t \in Task : result[t] = "ReputationWarning" => now > limit
    BY DEF IInv, WarnedInTime
  <1>3. limit' = limit
    OBVIOUS
  <1> HIDE DEF limit
  <1>4. \A t \in Task : result'[t] = "ReputationWarning" => now' > limit
    BY <1>1, <1>2
  <1> USE DEF limit
  <1> QED
    BY <1>4 DEF WarnedInTime

------------------------------------------------------------------------------
(* The two inserts.                                                        *)
LEMMA InsertsKeepIInv ==
    ASSUME IInv, NEW t \in Task, SetInterestInsert(t) \/ ConfirmInsert(t)
    PROVE  IInv'
  <1> USE MeetingAssumption
  <1> DEFINE status == IF pc[t] = "insert_confirmed" THEN "Confirmed" ELSE "Interested"
  <1>1. /\ pc[t] \in Inserting /\ writer' = NoTask /\ before' = "none" /\ readers' = readers
        /\ UNCHANGED <<meeting, now, first>>
        /\ \/ rows' = rows
           \/ rows' = [rows EXCEPT ![Me] = status] /\ rows[Me] = "none"
        /\ \E r \in {"Success", "ERR_DB_WRITE_FAILED"} : Return(t, r)
    BY DEF SetInterestInsert, ConfirmInsert, InsertMine, Inserting
  <1>2. TypeOK'
    BY <1>1 DEF IInv, TypeOK, Return, Phase, Result, Row, ParticipantStatus
  <1>3. \A s \in Task \ {t} : pc[s] \notin Inserting
    BY <1>1 DEF IInv, LockHeld
  <1>4. \A s \in Task : pc'[s] \notin Inserting
    BY <1>1, <1>3 DEF IInv, TypeOK, Return, Inserting
  <1>5. LockHeld' /\ PlaceKept'
    BY <1>4 DEF LockHeld, PlaceKept, Inserting
  <1>6. NothingReturned'
    BY <1>1, <1>4 DEF IInv, TypeOK, NothingReturned, Return
  <1>7. WarnedInTime'
    <2>1. now' \in Nat /\ now' >= now
      BY <1>1 DEF IInv, TypeOK
    <2>2. \A s \in Task : result'[s] = result[s] \/ result'[s] # "ReputationWarning"
      BY <1>1 DEF IInv, TypeOK, Return
    <2> QED
      BY <2>1, <2>2, WarningsStay
  <1>8. CASE UNCHANGED rows
    BY <1>1, <1>2, <1>4, <1>5, <1>6, <1>7, <1>8, QuietStepKeepsIInv DEF Inserting
  <1>9. CASE rows' = [rows EXCEPT ![Me] = status] /\ rows[Me] = "none"
    <2>1. rows'[Me] = status /\ \A u \in User \ {Me} : rows'[u] = rows[u]
      BY <1>9 DEF IInv, TypeOK
    <2>2. CapacityHeld'
      <3>1. CASE pc[t] = "insert_confirmed"
        <4>1. Guests' = (Guests \ {Me}) \cup {Me}
          BY <2>1, <3>1 DEF Guests, Attending
        <4>2. Cardinality(Guests \ {Me}) < Capacity
          BY <3>1 DEF IInv, PlaceKept
        <4> QED
          BY <4>1, <4>2, GuestsButMe DEF CapacityHeld
      <3>2. CASE pc[t] # "insert_confirmed"
        <4>1. Guests' = Guests
          BY <1>9, <2>1, <3>2 DEF Guests, Attending
        <4> QED
          BY <4>1 DEF IInv, CapacityHeld
      <3> QED
        BY <3>1, <3>2
    <2>3. ConfirmedByRight'
      BY <1>1, <2>1 DEF IInv, RightKept, ConfirmedByRight
    <2>4. RightKept'
      BY <1>4, <2>1 DEF RightKept, Inserting
    <2> QED
      BY <1>2, <1>5, <1>6, <1>7, <2>2, <2>3, <2>4 DEF IInv
  <1> QED
    BY <1>1, <1>8, <1>9

------------------------------------------------------------------------------
(* A step of a task that starts, ends or goes on without inserting: what   *)
(* is left to show after its type, when it leaves the clock alone.         *)
LEMMA TaskStepKeepsIInv ==
    ASSUME IInv, TypeOK', DeleteMine \/ UNCHANGED rows, UNCHANGED <<now, first>>, LockHeld',
           \A t \in Task : pc'[t] = "insert_confirmed" =>
               pc[t] = "insert_confirmed"
                 \/ (/\ Cardinality(Guests) < Capacity
                     /\ rows[Me] = "Invited" \/ Organizer = Me),
           NothingReturned',
           \A t \in Task : result'[t] = result[t] \/ result'[t] # "ReputationWarning"
    PROVE  IInv'
  <1>1. WarnedInTime'
    BY WarningsStay DEF IInv, TypeOK
  <1> QED
    BY <1>1, QuietStepKeepsIInv

LEMMA AcquireKeepsIInv ==
    ASSUME IInv, NEW t \in Task, Acquire(t)
    PROVE  IInv'
  <1> USE MeetingAssumption DEF IInv, TypeOK, Phase, Result, LockHeld, NothingReturned,
          Inserting, Return, CanWrite, CanRead
  <1>0. CanWrite => \A s \in Task : pc[s] \notin Inserting
    OBVIOUS
  <1>1. CASE SetInterest(t)
    <2>1. rows' \in [User -> Row]
      BY <1>1, DeleteKeepsRows DEF SetInterest
    <2>2. TypeOK'
      BY <1>1, <2>1 DEF SetInterest
    <2>3. LockHeld' /\ NothingReturned'
      BY <1>0, <1>1 DEF SetInterest
    <2> QED
      BY <1>0, <1>1, <2>2, <2>3, TaskStepKeepsIInv DEF SetInterest
  <1>2. CASE ClearInterest(t)
    <2>1. rows' \in [User -> Row]
      BY <1>2, DeleteKeepsRows DEF ClearInterest
    <2>2. TypeOK'
      BY <1>2, <2>1 DEF ClearInterest
    <2>3. LockHeld' /\ NothingReturned'
      BY <1>0, <1>2 DEF ClearInterest
    <2> QED
      BY <1>0, <1>2, <2>2, <2>3, TaskStepKeepsIInv DEF ClearInterest
  <1>3. CASE ConfirmRefused(t)
    <2>1. Refusal \in Result /\ Refusal # "ReputationWarning"
      BY DEF Refusal
    <2>2. TypeOK'
      BY <1>3, <2>1 DEF ConfirmRefused
    <2>3. LockHeld' /\ NothingReturned'
      BY <1>0, <1>3 DEF ConfirmRefused
    <2> QED
      BY <1>0, <1>3, <2>1, <2>2, <2>3, TaskStepKeepsIInv DEF ConfirmRefused
  <1>4. CASE Confirm(t)
    <2>1. rows' \in [User -> Row]
      BY <1>4, DeleteKeepsRows DEF Confirm
    <2>2. TypeOK'
      BY <1>4, <2>1 DEF Confirm
    <2>3. LockHeld' /\ NothingReturned'
      BY <1>0, <1>4 DEF Confirm
    <2>4. Cardinality(Guests) < Capacity /\ (rows[Me] = "Invited" \/ Organizer = Me)
      BY <1>4, GuestsAreFinite DEF Confirm, Refusal
    <2> QED
      BY <1>4, <2>2, <2>3, <2>4, TaskStepKeepsIInv DEF Confirm
  <1>5. CASE Cancel(t)
    <2>1. CancelVerdict \in Result
      BY DEF CancelVerdict
    <2>2. TypeOK'
      BY <1>5, <2>1 DEF Cancel
    <2>3. LockHeld' /\ NothingReturned'
      BY <1>5 DEF Cancel
    <2>4. WarnedInTime'
      <3>1. /\ \A s \in Task \ {t} : result'[s] = result[s]
            /\ result'[t] = "ReputationWarning" => CancelVerdict = "ReputationWarning"
            /\ now' = now
        BY <1>5 DEF Cancel
      <3> QED
        BY <3>1, WarningIsInTime DEF WarnedInTime
    <2>5. \A s \in Task : pc'[s] = "insert_confirmed" => pc[s] = "insert_confirmed"
      BY <1>5 DEF Cancel
    <2> QED
      BY <1>5, <2>2, <2>3, <2>4, <2>5, QuietStepKeepsIInv DEF Cancel
  <1>6. CASE CancelDelete(t)
    <2>1. rows' \in [User -> Row]
      BY <1>6, DeleteKeepsRows DEF CancelDelete
    <2>2. TypeOK'
      BY <1>6, <2>1 DEF CancelDelete
    <2>3. LockHeld' /\ NothingReturned'
      BY <1>0, <1>6 DEF CancelDelete
    <2> QED
      BY <1>0, <1>6, <2>2, <2>3, TaskStepKeepsIInv DEF CancelDelete
  <1>7. CASE GetDetails(t)
    <2>1. Details \in Result /\ Details # "ReputationWarning"
      BY DEF Details
    <2>2. TypeOK'
      BY <1>7, <2>1 DEF GetDetails
    <2>3. LockHeld' /\ NothingReturned'
      BY <1>0, <1>7 DEF GetDetails
    <2> QED
      BY <1>0, <1>7, <2>1, <2>2, <2>3, TaskStepKeepsIInv DEF GetDetails
  <1> QED
    BY <1>1, <1>2, <1>3, <1>4, <1>5, <1>6, <1>7 DEF Acquire

LEMMA OtherStepsKeepIInv ==
    ASSUME IInv,
           \/ \E t \in Task : CancelDrop(t) \/ StartCall(t)
           \/ Prune \/ Crash \/ Tick \/ UNCHANGED vars
    PROVE  IInv'
  <1> USE MeetingAssumption DEF IInv, TypeOK, Phase, Result, LockHeld, NothingReturned, Inserting
  <1>1. ASSUME NEW t \in Task, CancelDrop(t)
        PROVE  IInv'
    <2>1. TypeOK' /\ LockHeld' /\ NothingReturned'
      BY <1>1 DEF CancelDrop
    <2> QED
      BY <1>1, <2>1, TaskStepKeepsIInv DEF CancelDrop
  <1>2. ASSUME NEW t \in Task, StartCall(t)
        PROVE  IInv'
    <2>1. TypeOK' /\ LockHeld' /\ NothingReturned'
      BY <1>2 DEF StartCall, Calls
    <2> QED
      BY <1>2, <2>1, TaskStepKeepsIInv DEF StartCall, Calls
  <1>5. CASE Prune
    <2>1. TypeOK' /\ LockHeld' /\ NothingReturned'
      BY <1>5 DEF Prune
    <2> QED
      BY <1>5, <2>1, TaskStepKeepsIInv DEF Prune
  <1>6. CASE Crash
    <2>1. TypeOK' /\ LockHeld' /\ NothingReturned'
      BY <1>6 DEF Crash, Row
    <2> QED
      BY <1>6, <2>1, TaskStepKeepsIInv DEF Crash
  <1>7. CASE Tick
    <2>1. TypeOK' /\ LockHeld' /\ NothingReturned'
      BY <1>7 DEF Tick
    <2>2. WarnedInTime'
      BY <1>7, WarningsStay DEF Tick
    <2> QED
      BY <1>7, <2>1, <2>2, QuietStepKeepsIInv DEF Tick
  <1>8. CASE UNCHANGED vars
    <2>1. TypeOK' /\ LockHeld' /\ NothingReturned'
      BY <1>8 DEF vars
    <2> QED
      BY <1>8, <2>1, TaskStepKeepsIInv DEF vars
  <1> QED
    BY <1>1, <1>2, <1>5, <1>6, <1>7, <1>8

------------------------------------------------------------------------------
(* The type, the lock and what is known between the statements of the      *)
(* tasks: the inductive invariant.                                         *)
THEOREM MeetingsInvariant == Spec => []IInv
  <1>1. IInv /\ [Next]_vars => IInv'
    BY AcquireKeepsIInv, InsertsKeepIInv, OtherStepsKeepIInv DEF Next, Continue
  <1> QED
    BY <1>1, InitHoldsIInv, PTL DEF Spec

(* The rows, the tasks and the lock stay in their types, and no reader     *)
(* holds the lock beside a writer (meetings/manager.rs).                   *)
THEOREM MeetingsTypeCorrect == Spec => []TypeOK
  <1>1. IInv => TypeOK
    BY DEF IInv
  <1> QED
    BY <1>1, MeetingsInvariant, PTL

(* This device never records more attendees than the capacity it checked   *)
(* (confirm_participation, meetings/manager.rs).                           *)
THEOREM CapacityAlwaysHeld == Spec => []CapacityHeld
  <1>1. IInv => CapacityHeld
    BY DEF IInv
  <1> QED
    BY <1>1, MeetingsInvariant, PTL

(* This user is confirmed only when invited or confirmed before, or as the *)
(* organizer (confirm_participation, meetings/manager.rs).                 *)
THEOREM AlwaysConfirmedByRight == Spec => []ConfirmedByRight
  <1>1. IInv => ConfirmedByRight
    BY DEF IInv
  <1> QED
    BY <1>1, MeetingsInvariant, PTL

------------------------------------------------------------------------------
(* A cancellation that returns a warning takes effect after the threshold  *)
(* of hours, truncated as the code truncates them (cancel_participation).  *)
THEOREM NeverFalselyWarned == Spec => NoFalseWarning
  <1> DEFINE Warned(t) ==
          pc[t] = "cancel_write" /\ pc'[t] = "idle" /\ result'[t] = "ReputationWarning"
  <1>1. ASSUME IInv, Next, NEW t \in Task, Warned(t)
        PROVE  result[t] = "ReputationWarning"
    <2> USE <1>1, MeetingAssumption DEF IInv, TypeOK, Return
    <2>1. ASSUME NEW u \in Task, Acquire(u)
          PROVE  result[t] = "ReputationWarning"
      BY <2>1 DEF Acquire, SetInterest, ClearInterest, ConfirmRefused, Confirm, Cancel,
                  CancelDelete, GetDetails, Details
    <2>2. ASSUME NEW u \in Task, Continue(u)
          PROVE  result[t] = "ReputationWarning"
      BY <2>2 DEF Continue, SetInterestInsert, ConfirmInsert, InsertMine, CancelDrop
    <2>3. ASSUME NEW u \in Task, StartCall(u)
          PROVE  result[t] = "ReputationWarning"
      BY <2>3 DEF StartCall
    <2>4. CASE Prune \/ Crash \/ Tick
      BY <2>4 DEF Prune, Crash, Tick
    <2> QED
      BY <2>1, <2>2, <2>3, <2>4 DEF Next
  <1>2. IInv /\ [Next]_vars =>
          [\A t \in Task : Warned(t) => now > Start - WarningHours * TicksPerHour]_vars
    BY <1>1 DEF IInv, WarnedInTime
  <1> QED
    BY <1>2, MeetingsInvariant, PTL DEF Spec, NoFalseWarning

------------------------------------------------------------------------------
(* The calls take effect atomically: Meetings implements Participation.    *)
(*                                                                         *)
(* The holder of the write lock is between its two statements, and has     *)
(* found the row that is remembered or has deleted it.                     *)
HolderInserts ==
    writer # NoTask => pc[writer] \in Inserting /\ rows[Me] \in {before, "none"}

AttendeesBefore ==
    OthersAttending \cup (IF before \in Attending THEN {Me} ELSE {})

(* What confirm_participation has checked is true of the row it found.     *)
CheckedBefore ==
    \A t \in Task : pc[t] = "insert_confirmed" =>
        /\ meeting # "Gone"
        /\ before = "Invited" \/ Organizer = Me
        /\ Cardinality(AttendeesBefore) < Capacity

HInv == HolderInserts /\ CheckedBefore

(* A step that changes no row but that of Me changes no other attendee.    *)
LEMMA OthersStay ==
    ASSUME rows \in [User -> Row],
           rows' = rows \/ \E s \in Row : rows' = [rows EXCEPT ![Me] = s]
    PROVE  OthersAttending' = OthersAttending
  BY DEF OthersAttending, Guests

LEMMA StepsTouchOnlyMe ==
    ASSUME IInv, [Next]_vars
    PROVE  rows' = rows \/ \E s \in Row : rows' = [rows EXCEPT ![Me] = s]
  <1> USE DEF DeleteMine, Row, ParticipantStatus
  <1>1. ASSUME NEW t \in Task, Acquire(t)
        PROVE  rows' = rows \/ rows' = [rows EXCEPT ![Me] = "none"]
    BY <1>1 DEF Acquire, SetInterest, ClearInterest, ConfirmRefused, Confirm, Cancel, CancelDelete,
                GetDetails
  <1>2. ASSUME NEW t \in Task, Continue(t)
        PROVE  rows' = rows \/ \E s \in Row : rows' = [rows EXCEPT ![Me] = s]
    BY <1>2 DEF Continue, SetInterestInsert, ConfirmInsert, InsertMine, CancelDrop
  <1>3. ASSUME (\E t \in Task : StartCall(t)) \/ Prune \/ Crash \/ Tick \/ UNCHANGED vars
        PROVE  rows' = rows
    BY <1>3 DEF StartCall, Prune, Crash, Tick, vars
  <1> QED
    BY <1>1, <1>2, <1>3 DEF Next

LEMMA InitHoldsHInv == Init => HInv
  BY MeetingAssumption DEF Init, HInv, HolderInserts, CheckedBefore

(* The two steps that take the write lock.                                 *)
LEMMA TakingTheLockKeepsHInv ==
    ASSUME IInv, NEW t \in Task, SetInterest(t) \/ Confirm(t)
    PROVE  HInv'
  <1> USE MeetingAssumption DEF IInv, TypeOK
  <1>1. HolderInserts'
    BY DEF SetInterest, Confirm, HolderInserts, DeleteMine, Inserting
  <1>2. \A s \in Task : pc[s] \notin Inserting
    BY DEF SetInterest, Confirm, CanWrite, LockHeld
  <1>3. CASE SetInterest(t)
    <2>1. \A s \in Task : pc'[s] # "insert_confirmed"
      BY <1>2, <1>3 DEF SetInterest, Inserting
    <2> QED
      BY <1>1, <2>1 DEF HInv, CheckedBefore
  <1>4. CASE Confirm(t)
    <2>1. /\ meeting' # "Gone" /\ before' = rows[Me]
          /\ rows[Me] = "Invited" \/ Organizer = Me
          /\ Cardinality(Guests) < Capacity
      BY <1>4, GuestsAreFinite DEF Confirm, Refusal
    <2>2. OthersAttending' = OthersAttending
      BY <1>4, OthersStay DEF Confirm, DeleteMine, Row
    <2>3. AttendeesBefore' = Guests
      BY <2>1, <2>2 DEF AttendeesBefore, OthersAttending, Guests
    <2> QED
      BY <1>1, <2>1, <2>3 DEF HInv, CheckedBefore
  <1> QED
    BY <1>3, <1>4

LEMMA StepsKeepHInv == IInv /\ HInv /\ [Next]_vars => HInv'
  <1> SUFFICES ASSUME IInv, HInv, [Next]_vars
               PROVE  HInv'
    OBVIOUS
  <1> USE MeetingAssumption DEF IInv, TypeOK, HInv, Inserting
  <1>1. OthersAttending' = OthersAttending
    BY OthersStay, StepsTouchOnlyMe
  <1>2. ASSUME NEW t \in Task, SetInterestInsert(t) \/ ConfirmInsert(t)
        PROVE  HInv'
    <2>1. writer' = NoTask
      BY <1>2 DEF SetInterestInsert, ConfirmInsert
    <2>2. \A s \in Task : pc'[s] \notin Inserting
      BY <1>2 DEF SetInterestInsert, ConfirmInsert, InsertMine, Return, LockHeld
    <2> QED
      BY <2>1, <2>2 DEF HolderInserts, CheckedBefore
  <1>3. CASE Crash
    BY <1>3 DEF Crash, HolderInserts, CheckedBefore
  <1>4. ASSUME UNCHANGED <<writer, before>>,
               writer # NoTask => rows' = rows /\ meeting' = meeting,
               \A s \in Task : pc[s] \in Inserting => pc'[s] = pc[s],
               \A s \in Task : pc'[s] = "insert_confirmed" => pc[s] = "insert_confirmed"
        PROVE  HInv'
    <2>1. HolderInserts'
      BY <1>4 DEF HolderInserts
    <2>2. AttendeesBefore' = AttendeesBefore
      BY <1>1, <1>4 DEF AttendeesBefore
    <2>3. \A s \in Task : pc'[s] = "insert_confirmed" => meeting' = meeting
      BY <1>4 DEF LockHeld
    <2>4. CheckedBefore'
      BY <1>4, <2>2, <2>3 DEF CheckedBefore
    <2> QED
      BY <2>1, <2>4
  <1>5. ASSUME NEW t \in Task,
               ClearInterest(t) \/ ConfirmRefused(t) \/ Cancel(t) \/ CancelDelete(t)
                 \/ GetDetails(t) \/ CancelDrop(t)
        PROVE  HInv'
    BY <1>4, <1>5 DEF ClearInterest, ConfirmRefused, Cancel, CancelDelete, GetDetails,
                      CancelDrop, Return, CanWrite
  <1>6. ASSUME NEW t \in Task, StartCall(t)
        PROVE  HInv'
    BY <1>4, <1>6 DEF StartCall, Calls
  <1>7. CASE Prune \/ Tick \/ UNCHANGED vars
    BY <1>4, <1>7 DEF Prune, Tick, vars, CanWrite
  <1> QED
    BY <1>2, <1>3, <1>5, <1>6, <1>7, TakingTheLockKeepsHInv DEF Next, Acquire, Continue

------------------------------------------------------------------------------
(* A cancellation under its read lock, or past it, has its answer ready.   *)
VerdictReached ==
    \A t \in Task : /\ t \in readers => pc[t] = "cancel"
                    /\ t \in readers \/ pc[t] = "cancel_write" =>
                          result[t] \in {"Success", "ReputationWarning"}

LEMMA StepsKeepVerdict == IInv /\ VerdictReached /\ [Next]_vars => VerdictReached'
  <1> SUFFICES ASSUME IInv, VerdictReached, [Next]_vars
               PROVE  VerdictReached'
    OBVIOUS
  <1> USE MeetingAssumption DEF IInv, TypeOK, VerdictReached, Return
  <1>1. ASSUME NEW t \in Task, Acquire(t)
        PROVE  VerdictReached'
    <2>1. CancelVerdict \in {"Success", "ReputationWarning"}
      BY DEF CancelVerdict
    <2>2. CASE Cancel(t)
      BY <2>1, <2>2 DEF Cancel
    <2> QED
      BY <1>1, <2>2 DEF Acquire, SetInterest, ClearInterest, ConfirmRefused, Confirm,
                        CancelDelete, GetDetails
  <1>2. ASSUME NEW t \in Task, Continue(t)
        PROVE  VerdictReached'
    BY <1>2 DEF Continue, SetInterestInsert, ConfirmInsert, InsertMine, CancelDrop
  <1>3. ASSUME NEW t \in Task, StartCall(t)
        PROVE  VerdictReached'
    BY <1>3 DEF StartCall, Calls
  <1>4. CASE Prune \/ Crash \/ Tick \/ UNCHANGED vars
    BY <1>4 DEF Prune, Crash, Tick, vars
  <1> QED
    BY <1>1, <1>2, <1>3, <1>4 DEF Next

RInv == IInv /\ HInv /\ VerdictReached

LEMMA InitHoldsRInv == Init => RInv
  BY InitHoldsIInv, InitHoldsHInv DEF Init, RInv, VerdictReached

LEMMA StepsKeepRInv == RInv /\ [Next]_vars => RInv'
  <1>1. IInv /\ [Next]_vars => IInv'
    BY AcquireKeepsIInv, InsertsKeepIInv, OtherStepsKeepIInv DEF Next, Continue
  <1> QED
    BY <1>1, StepsKeepHInv, StepsKeepVerdict DEF RInv

------------------------------------------------------------------------------
(* Both modules count with the same Cardinality.                           *)
LEMMA SameCardinality == \A S : Promised!Cardinality(S) = Cardinality(S)
  BY DEF Promised!Cardinality, Cardinality

(* What a caller sees of the state.                                        *)
LEMMA FreeMeansSeen ==
    ASSUME writer = NoTask
    PROVE  StatusSeen = rows[Me] /\ Promised!Attendees = Guests
  BY MeetingAssumption DEF StatusSeen, OthersAttending, Guests, Attending,
                           Promised!Attendees, Promised!Attends

LEMMA HeldMeansBefore ==
    ASSUME writer # NoTask
    PROVE  StatusSeen = before /\ Promised!Attendees = AttendeesBefore
  BY DEF StatusSeen, AttendeesBefore, Attending, Promised!Attendees, Promised!Attends

LEMMA CallsByPhase ==
    \A p \in Phase :
        /\ CallOf[p] = "none" <=> p = "idle"
        /\ CallOf[p] = "details" <=> p = "details"
        /\ CallOf[p] = "set" <=> p \in {"set", "insert_interested"}
        /\ CallOf[p] = "clear" <=> p = "clear"
        /\ CallOf[p] = "confirm" <=> p \in {"confirm", "insert_confirmed"}
        /\ CallOf[p] = "cancel" <=> p \in {"cancel", "cancel_write"}
  BY DEF Phase, Calls, CallOf

(* A task that returns r with the status s ends its call with answer r.    *)
LEMMA ReturnAnswers ==
    ASSUME IInv, NEW t \in Task, NEW r, Return(t, r), UNCHANGED meeting,
           OthersAttending' = OthersAttending
    PROVE  Promised!Answer(t, r, StatusSeen')
  <1> USE DEF IInv, TypeOK, Return
  <1>0. CallOf["idle"] = "none"
    BY DEF CallOf
  <1>1. CallsRunning' = [CallsRunning EXCEPT ![t] = "none"]
    BY <1>0 DEF CallsRunning
  <1>2. AnswersGiven' = [AnswersGiven EXCEPT ![t] = r]
    BY DEF AnswersGiven
  <1> QED
    BY <1>1, <1>2 DEF Promised!Answer

(* A step within a call: nobody sees it.                                   *)
LEMMA InnerStepIsUnseen ==
    ASSUME IInv, TypeOK', UNCHANGED meeting,
           OthersAttending' = OthersAttending, StatusSeen' = StatusSeen,
           NEW t \in Task, pc[t] # "idle", NEW p \in Phase, CallOf[p] = CallOf[pc[t]],
           pc' = [pc EXCEPT ![t] = p],
           \A s \in Task \ {t} : result'[s] = result[s]
    PROVE  UNCHANGED Promised!promises
  <1> USE DEF IInv, TypeOK
  <1>1. CallsRunning' = CallsRunning
    BY DEF CallsRunning
  <1>2. AnswersGiven' = AnswersGiven
    <2>1. pc'[t] # "idle"
      BY CallsByPhase
    <2> QED
      BY <2>1 DEF AnswersGiven
  <1> QED
    BY <1>1, <1>2 DEF Promised!promises

------------------------------------------------------------------------------
(* The steps, one by one.                                                  *)
LEMMA LockTakingIsUnseen ==
    ASSUME RInv, RInv', NEW t \in Task, SetInterest(t) \/ Confirm(t),
           OthersAttending' = OthersAttending
    PROVE  UNCHANGED Promised!promises
  <1> DEFINE p == IF pc[t] = "set" THEN "insert_interested" ELSE "insert_confirmed"
  <1>1. /\ pc[t] \in {"set", "confirm"} /\ pc' = [pc EXCEPT ![t] = p]
        /\ UNCHANGED <<meeting, result>>
        /\ writer = NoTask /\ writer' = t /\ before' = rows[Me]
    BY DEF SetInterest, Confirm, CanWrite
  <1>2. StatusSeen' = StatusSeen
    BY <1>1, MeetingAssumption DEF StatusSeen
  <1>3. p \in Phase /\ CallOf[p] = CallOf[pc[t]]
    BY <1>1 DEF Phase, CallOf
  <1> HIDE DEF p
  <1> QED
    BY <1>1, <1>2, <1>3, InnerStepIsUnseen DEF RInv, IInv

LEMMA InsertsAnswer ==
    ASSUME RInv, NEW t \in Task, SetInterestInsert(t) \/ ConfirmInsert(t),
           OthersAttending' = OthersAttending
    PROVE  Promised!SetInterest(t) \/ Promised!Confirm(t)
  <1> USE DEF IInv, TypeOK
  <1>1. /\ pc[t] \in Inserting /\ writer = t /\ writer # NoTask /\ writer' = NoTask
        /\ UNCHANGED meeting
    BY MeetingAssumption DEF RInv, LockHeld, SetInterestInsert, ConfirmInsert, Inserting
  <1>2. rows[Me] \in {StatusSeen, "none"} /\ StatusSeen' = rows'[Me]
    BY <1>1 DEF RInv, HInv, HolderInserts, StatusSeen
  <1>3. CASE SetInterestInsert(t)
    <2>1. CallsRunning[t] = "set"
      BY <1>3, CallsByPhase DEF SetInterestInsert, CallsRunning, RInv
    <2>2. \/ Return(t, "Success") /\ StatusSeen' = "Interested"
          \/ Return(t, "ERR_DB_WRITE_FAILED") /\ StatusSeen' \in {StatusSeen, "none"}
      BY <1>2, <1>3, MeetingAssumption DEF SetInterestInsert, InsertMine, RInv
    <2> QED
      BY <1>1, <2>1, <2>2, ReturnAnswers DEF Promised!SetInterest, RInv
  <1>4. CASE ConfirmInsert(t)
    <2>1. CallsRunning[t] = "confirm"
      BY <1>4, CallsByPhase DEF ConfirmInsert, CallsRunning, RInv
    <2>2. \/ Return(t, "Success") /\ StatusSeen' = "Confirmed"
          \/ Return(t, "ERR_DB_WRITE_FAILED") /\ StatusSeen' \in {StatusSeen, "none"}
      BY <1>2, <1>4, MeetingAssumption DEF ConfirmInsert, InsertMine, RInv
    <2>3. meeting # "Gone" /\ Promised!HasPlace /\ Promised!HasRight
      BY <1>1, <1>4, HeldMeansBefore, SameCardinality
         DEF ConfirmInsert, RInv, HInv, CheckedBefore, Promised!HasPlace, Promised!HasRight
    <2> QED
      BY <1>1, <2>1, <2>2, <2>3, ReturnAnswers DEF Promised!Confirm, RInv
  <1> QED
    BY <1>3, <1>4

LEMMA SingleStatementsAnswer ==
    ASSUME RInv, NEW t \in Task, ClearInterest(t) \/ CancelDelete(t),
           OthersAttending' = OthersAttending
    PROVE  Promised!ClearInterest(t) \/ Promised!Cancel(t)
  <1> USE DEF IInv, TypeOK
  <1>1. /\ writer = NoTask /\ writer' = NoTask /\ UNCHANGED meeting
        /\ StatusSeen = rows[Me] /\ StatusSeen' = rows'[Me]
    BY DEF ClearInterest, CancelDelete, CanWrite, StatusSeen
  <1>2. CASE ClearInterest(t)
    <2>1. CallsRunning[t] = "clear"
      BY <1>2, CallsByPhase DEF ClearInterest, CallsRunning, RInv
    <2>2. \/ Return(t, "Success") /\ StatusSeen' = "none"
          \/ Return(t, "ERR_DB_DELETE_FAILED") /\ StatusSeen' = StatusSeen
      BY <1>1, <1>2, MeetingAssumption DEF ClearInterest, DeleteMine, RInv
    <2> QED
      BY <1>1, <2>1, <2>2, ReturnAnswers DEF Promised!ClearInterest, RInv
  <1>3. CASE CancelDelete(t)
    <2>1. CallsRunning[t] = "cancel" /\ result[t] \in {"Success", "ReputationWarning"}
      BY <1>3, CallsByPhase DEF CancelDelete, CallsRunning, RInv, VerdictReached
    <2>2. \/ Return(t, result[t]) /\ StatusSeen' = "none"
          \/ Return(t, "ERR_DB_DELETE_FAILED") /\ StatusSeen' = StatusSeen
      BY <1>1, <1>3, MeetingAssumption DEF CancelDelete, DeleteMine, RInv
    <2> QED
      BY <1>1, <2>1, <2>2, ReturnAnswers DEF Promised!Cancel, RInv
  <1> QED
    BY <1>2, <1>3

LEMMA RefusalAnswers ==
    ASSUME RInv, NEW t \in Task, ConfirmRefused(t), OthersAttending' = OthersAttending
    PROVE  Promised!Refuse(t)
  <1>1. writer = NoTask /\ UNCHANGED meeting /\ Return(t, Refusal)
        /\ StatusSeen = rows[Me] /\ StatusSeen' = StatusSeen
    BY DEF ConfirmRefused, CanWrite, StatusSeen
  <1>2. Promised!Answer(t, Refusal, StatusSeen)
    BY <1>1, ReturnAnswers DEF RInv
  <1>3. CallsRunning[t] = "confirm"
    BY CallsByPhase DEF ConfirmRefused, CallsRunning, RInv, IInv, TypeOK
  <1>4. \/ meeting = "Gone" /\ Refusal = "ERR_MEETING_NOT_FOUND"
        \/ Cardinality(Guests) >= Capacity /\ Refusal = "ERR_MEETING_FULL"
        \/ rows[Me] # "Invited" /\ Organizer # Me /\ Refusal = "ERR_NOT_INVITED"
    BY DEF ConfirmRefused, Refusal
  <1>5. Cardinality(Guests) >= Capacity => ~Promised!HasPlace
    BY <1>1, FreeMeansSeen, GuestsAreFinite, SameCardinality, MeetingAssumption
       DEF Promised!HasPlace
  <1>6. rows[Me] # "Invited" /\ Organizer # Me => ~Promised!HasRight
    BY <1>1 DEF Promised!HasRight
  <1> QED
    BY <1>2, <1>3, <1>4, <1>5, <1>6 DEF Promised!Refuse

LEMMA CancelBeginsUnseen ==
    ASSUME RInv, RInv', NEW t \in Task, Cancel(t) \/ CancelDrop(t),
           OthersAttending' = OthersAttending
    PROVE  Promised!Cancel(t) \/ UNCHANGED Promised!promises
  <1> USE DEF IInv, TypeOK
  <1>1. pc[t] = "cancel" /\ UNCHANGED <<rows, meeting, writer, before>>
    BY DEF Cancel, CancelDrop
  <1>2. StatusSeen' = StatusSeen
    BY <1>1 DEF StatusSeen
  <1>3. CASE Cancel(t) /\ meeting = "Gone"
    <2>1. Promised!Answer(t, "ERR_MEETING_NOT_FOUND", StatusSeen)
      BY <1>1, <1>2, <1>3, ReturnAnswers DEF Cancel, RInv
    <2>2. CallsRunning[t] = "cancel"
      BY <1>1, CallsByPhase DEF CallsRunning, RInv
    <2> QED
      BY <1>3, <2>1, <2>2 DEF Promised!Cancel
  <1>4. CASE Cancel(t) /\ meeting # "Gone"
    <2>1. /\ pc' = [pc EXCEPT ![t] = "cancel"]
          /\ \A s \in Task \ {t} : result'[s] = result[s]
      BY <1>1, <1>4 DEF Cancel, RInv
    <2> QED
      BY <1>1, <1>2, <2>1, InnerStepIsUnseen DEF RInv, Phase
  <1>5. CASE CancelDrop(t)
    <2>1. "cancel_write" \in Phase /\ CallOf["cancel_write"] = CallOf["cancel"]
      BY DEF Phase, CallOf
    <2> QED
      BY <1>1, <1>2, <1>5, <2>1, InnerStepIsUnseen DEF RInv, CancelDrop
  <1> QED
    BY <1>3, <1>4, <1>5

(* The details are read while nobody is between two statements.            *)
LEMMA DetailsAnswer ==
    ASSUME RInv, NEW t \in Task, GetDetails(t), OthersAttending' = OthersAttending
    PROVE  Promised!Details(t)
  <1>1. writer = NoTask /\ UNCHANGED meeting /\ Return(t, Details)
        /\ StatusSeen = rows[Me] /\ StatusSeen' = StatusSeen
    BY DEF GetDetails, CanRead, StatusSeen
  <1>2. Promised!Answer(t, Details, StatusSeen)
    BY <1>1, ReturnAnswers DEF RInv
  <1>3. CallsRunning[t] = "details"
    BY CallsByPhase DEF GetDetails, CallsRunning, RInv, IInv, TypeOK
  <1> QED
    BY <1>1, <1>2, <1>3 DEF Details, Attending, Promised!Details, Promised!Attends

(* A call begins.                                                          *)
LEMMA StartingAsks ==
    ASSUME RInv, NEW t \in Task, StartCall(t)
    PROVE  Promised!Ask(t)
  <1> USE DEF RInv, IInv, TypeOK
  <1>1. PICK c \in Calls : pc' = [pc EXCEPT ![t] = c]
    BY DEF StartCall
  <1>2. CallOf[c] = c /\ c # "idle" /\ c \in Promised!Calls /\ CallOf["idle"] = "none"
    BY DEF Calls, CallOf, Promised!Calls
  <1>3. CallsRunning[t] = "none" /\ CallsRunning' = [CallsRunning EXCEPT ![t] = c]
    BY <1>1, <1>2 DEF StartCall, CallsRunning
  <1>4. AnswersGiven' = [AnswersGiven EXCEPT ![t] = "none"]
    BY <1>1, <1>2 DEF StartCall, AnswersGiven
  <1>5. StatusSeen' = StatusSeen /\ OthersAttending' = OthersAttending /\ meeting' = meeting
    BY DEF StartCall, StatusSeen, OthersAttending, Guests
  <1> QED
    BY <1>2, <1>3, <1>4, <1>5 DEF Promised!Ask

LEMMA CrashIsCrash ==
    ASSUME RInv, Crash, OthersAttending' = OthersAttending
    PROVE  Promised!Crash
  <1> USE MeetingAssumption DEF RInv, IInv, TypeOK
  <1>1. CallsRunning' = [t \in Task |-> "none"] /\ AnswersGiven' = [t \in Task |-> "none"]
    BY DEF Crash, CallsRunning, AnswersGiven, CallOf
  <1>2. StatusSeen' = rows[Me]
    BY DEF Crash, StatusSeen
  <1>3. CASE writer = NoTask
    BY <1>1, <1>2, <1>3 DEF Crash, Promised!Crash, StatusSeen
  <1>4. CASE writer # NoTask
    <2>1. CallsRunning[writer] \in {"set", "confirm"}
      BY <1>4, CallsByPhase DEF HInv, HolderInserts, CallsRunning, Inserting
    <2>2. StatusSeen' \in {StatusSeen, "none"}
      BY <1>2, <1>4 DEF HInv, HolderInserts, StatusSeen
    <2> QED
      BY <1>1, <1>4, <2>1, <2>2 DEF Crash, Promised!Crash
  <1> QED
    BY <1>3, <1>4

LEMMA BystandersAreUnseen ==
    ASSUME RInv, Prune \/ Tick \/ UNCHANGED vars,
           OthersAttending' = OthersAttending
    PROVE  Promised!Prune \/ UNCHANGED Promised!promises
  <1>1. /\ UNCHANGED <<pc, result, rows, writer, before>>
        /\ CallsRunning' = CallsRunning /\ AnswersGiven' = AnswersGiven
        /\ StatusSeen' = StatusSeen
    BY DEF Prune, Tick, vars, CallsRunning, AnswersGiven, StatusSeen
  <1>3. CASE Prune
    BY <1>1, <1>3 DEF Prune, Promised!Prune
  <1>4. CASE Tick \/ UNCHANGED vars
    BY <1>1, <1>4 DEF Tick, vars, Promised!promises
  <1> QED
    BY <1>3, <1>4

------------------------------------------------------------------------------
LEMMA InitIsPromised == Init => Promised!Init
  <1> SUFFICES ASSUME Init
               PROVE  Promised!Init
    OBVIOUS
  <1>1. Cardinality(Promised!Attendees) <= Capacity
    BY FreeMeansSeen DEF Init
  <1>2. CallsRunning = [t \in Task |-> "none"] /\ AnswersGiven = [t \in Task |-> "none"]
    BY DEF Init, CallsRunning, AnswersGiven, CallOf
  <1> QED
    BY <1>1, <1>2, SameCardinality DEF Init, Promised!Init, OthersAttending, Guests

LEMMA StepsArePromised == RInv /\ RInv' /\ [Next]_vars => [Promised!Next]_Promised!promises
  <1> SUFFICES ASSUME RInv, RInv', [Next]_vars
               PROVE  Promised!Next \/ UNCHANGED Promised!promises
    OBVIOUS
  <1>1. OthersAttending' = OthersAttending
    BY OthersStay, StepsTouchOnlyMe DEF RInv, IInv, TypeOK
  <1>2. ASSUME NEW t \in Task, Acquire(t)
        PROVE  Promised!Next \/ UNCHANGED Promised!promises
    BY <1>1, <1>2, LockTakingIsUnseen, SingleStatementsAnswer, RefusalAnswers,
       CancelBeginsUnseen, DetailsAnswer DEF Acquire, Promised!Next
  <1>3. ASSUME NEW t \in Task, Continue(t)
        PROVE  Promised!Next \/ UNCHANGED Promised!promises
    BY <1>1, <1>3, InsertsAnswer, CancelBeginsUnseen DEF Continue, Promised!Next
  <1>4. ASSUME NEW t \in Task, StartCall(t)
        PROVE  Promised!Next
    BY <1>4, StartingAsks DEF Promised!Next
  <1>5. CASE Crash
    BY <1>1, <1>5, CrashIsCrash DEF Promised!Next
  <1>6. CASE Prune \/ Tick \/ UNCHANGED vars
    BY <1>1, <1>6, BystandersAreUnseen DEF Promised!Next
  <1> QED
    BY <1>2, <1>3, <1>4, <1>5, <1>6 DEF Next

(* The refinement: every behaviour of the tasks, their lock, their failing *)
(* statements and crashes is one of module Participation, where each call  *)
(* of meetings/manager.rs takes effect at the instant of its answer.       *)
THEOREM CallsTakeEffectAtomically == Spec => CallsAreAtomic
  <1>1. Spec => []RInv
    BY InitHoldsRInv, StepsKeepRInv, PTL DEF Spec
  <1> QED
    BY <1>1, InitIsPromised, StepsArePromised, PTL DEF Spec, CallsAreAtomic, Promised!Spec
==============================================================================
