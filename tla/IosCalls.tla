------------------------------- MODULE IosCalls -------------------------------
(***************************************************************************)
(* The exports of ffi/ios.rs: each takes a completion and the context of   *)
(* one call, looks at its arguments on the caller's thread, and leaves the *)
(* rest to a task of the runtime, which any call makes that needs it.  A   *)
(* scanned code is judged by the clock, and told to the callback for       *)
(* events before its call is completed.                                    *)
(*                                                                         *)
(* Timestamps are subtracted as u64: a debug build panics, and the runtime *)
(* drops the task; a release build (panic = "abort", no overflow checks)   *)
(* wraps.  Both may happen here.  No export fills APP_CONTROLLER, so there *)
(* is nothing for spotka_stop_app to stop.                                 *)
(***************************************************************************)
EXTENDS Integers, Sequences

CONSTANTS SwiftContext,  \* that Swift passes, one per call
          Callback,   \* functions that Swift may register for events
          Reading,    \* of a clock, and timestamps of codes
          MaxQrAge,   \* 300 seconds
          U64,        \* the number of values of a timestamp
          NoCallback

(* No age is so near the width of a timestamp that it looks small.         *)
ASSUME ReadingsAreFarFromOverflow ==
    /\ Reading \subseteq Nat /\ MaxQrAge \in Nat /\ U64 \in Nat
    /\ \A r \in Reading : r + MaxQrAge < U64

(* By what an export makes of its arguments: it refuses one that is not    *)
(* UTF-8, or takes it for the empty string, or has none to look at.        *)
Strict == {"generate_identity", "start_app", "process_ping_qr_data"}

Lenient == {"open_db", "send_invite", "accept_invite", "reject_invite"}

NoText == {"create_meeting", "generate_ping_qr_data", "stop_app"}

(* The others complete with true whatever their task does.                 *)
MayFail == {"open_db", "generate_identity"}

(* What is passed.                                                         *)
Arguments(f) == CASE f \in NoText -> {"none"}
                  [] f = "process_ping_qr_data" -> {"null", "not_utf8", "not_json", "code"}
                  [] OTHER -> {"null", "not_utf8", "text"}

(* A code without a timestamp has 0.                                       *)
Timestamps(arg) == IF arg = "code" THEN Reading ELSE {0}

VARIABLES EVENT_CALLBACK,
          task,      \* what each call is, and how far it has got
          answers,   \* history: the completions of each call
          heard      \* history: the callback PING_SUCCESS of a call went to

iosVars == <<EVENT_CALLBACK, task, answers, heard>>

Stages == {"not_made", "spawned", "notified", "dropped", "over"}

IosTypeOK ==
    /\ EVENT_CALLBACK \in Callback \cup {NoCallback}
    /\ \A c \in SwiftContext :
          /\ task[c].at \in Stages
          /\ task[c].at # "not_made" => /\ task[c].arg \in Arguments(task[c].export)
                                        /\ task[c].timestamp \in Timestamps(task[c].arg)
          /\ answers[c] \in Seq(BOOLEAN)
          /\ heard[c] \in Callback \cup {NoCallback}

IosInit ==
    /\ EVENT_CALLBACK = NoCallback
    /\ task = [c \in SwiftContext |-> [at |-> "not_made"]]
    /\ answers = [c \in SwiftContext |-> << >>]
    /\ heard = [c \in SwiftContext |-> NoCallback]

(* The first callback stays registered; a later one is only logged.        *)
set_event_callback(cb) ==
    /\ EVENT_CALLBACK' = IF EVENT_CALLBACK = NoCallback THEN cb ELSE EVENT_CALLBACK
    /\ UNCHANGED <<task, answers, heard>>

completion(c, success) == answers' = [answers EXCEPT ![c] = Append(@, success)]

Goes(c, stage) == task' = [task EXCEPT ![c].at = stage]

Refused(f, arg) == arg = "null" \/ (f \in Strict /\ arg = "not_utf8")

(* For the mutation runs: the refusal of a text does not return.           *)
make_NoReturn(c, f, arg, timestamp) ==
    /\ task[c].at = "not_made"
    /\ task' = [task EXCEPT ![c] = [export |-> f, arg |-> arg, timestamp |-> timestamp,
                   at |-> IF arg = "null" THEN "over" ELSE "spawned"]]
    /\ IF Refused(f, arg) THEN completion(c, FALSE) ELSE UNCHANGED answers
    /\ UNCHANGED <<EVENT_CALLBACK, heard>>

make(c, f, arg, timestamp) ==
    /\ task[c].at = "not_made"
    /\ task' = [task EXCEPT ![c] = [export |-> f, arg |-> arg, timestamp |-> timestamp,
                   at |-> IF Refused(f, arg) THEN "over" ELSE "spawned"]]
    /\ IF Refused(f, arg) THEN completion(c, FALSE) ELSE UNCHANGED answers
    /\ UNCHANGED <<EVENT_CALLBACK, heard>>

------------------------------------------------------------------------------
(* The tasks.                                                              *)
run(c) ==
    /\ task[c].at = "spawned" /\ task[c].export # "process_ping_qr_data"
    /\ \E success \in IF task[c].export \in MayFail THEN BOOLEAN ELSE {TRUE} :
           completion(c, success)
    /\ Goes(c, "over")
    /\ UNCHANGED <<EVENT_CALLBACK, heard>>

(* ERR_INVALID_QR_FORMAT                                                   *)
refuse_format(c) ==
    /\ task[c].at = "spawned" /\ task[c].arg = "not_json"
    /\ completion(c, FALSE) /\ Goes(c, "over")
    /\ UNCHANGED <<EVENT_CALLBACK, heard>>

(* u64                                                                     *)
qr_age(now, timestamp) == (now - timestamp) % U64

IsCode(c) ==
    task[c].at = "spawned" /\ task[c].arg = "code"

(* ERR_QR_EXPIRED                                                          *)
refuse_age(c, now) ==
    /\ IsCode(c) /\ qr_age(now, task[c].timestamp) > MaxQrAge
    /\ completion(c, FALSE) /\ Goes(c, "over")
    /\ UNCHANGED <<EVENT_CALLBACK, heard>>

(* A debug build finds the overflow.                                       *)
panic(c, now) ==
    /\ IsCode(c) /\ task[c].timestamp > now
    /\ Goes(c, "dropped")
    /\ UNCHANGED <<EVENT_CALLBACK, answers, heard>>

(* notify_swift_event("PING_SUCCESS"), if a callback is there by now.      *)
accept_code(c, now) ==
    /\ IsCode(c) /\ qr_age(now, task[c].timestamp) <= MaxQrAge
    /\ task' = [task EXCEPT ![c] = [export |-> @.export, arg |-> @.arg,
                      timestamp |-> @.timestamp, at |-> "notified", now |-> now]]
    /\ heard' = [heard EXCEPT ![c] = EVENT_CALLBACK]
    /\ UNCHANGED <<EVENT_CALLBACK, answers>>

complete_ping(c) ==
    /\ task[c].at = "notified"
    /\ completion(c, TRUE) /\ Goes(c, "over")
    /\ UNCHANGED <<EVENT_CALLBACK, heard>>

IosNext ==
    \/ \E cb \in Callback : set_event_callback(cb)
    \/ \E c \in SwiftContext :
          \/ \E f \in Strict \cup Lenient \cup NoText : \E arg \in Arguments(f) :
                 \E timestamp \in Timestamps(arg) : make(c, f, arg, timestamp)
          \/ run(c) \/ refuse_format(c) \/ complete_ping(c)
          \/ \E now \in Reading : refuse_age(c, now) \/ panic(c, now) \/ accept_code(c, now)

IosSpec == IosInit /\ [][IosNext]_iosVars

------------------------------------------------------------------------------
(* A call is completed once and as the last thing that happens to it; only *)
(* a task that panicked, over a code from a clock that is ahead, leaves    *)
(* its call without an answer.                                             *)
AnsweredOnce ==
    \A c \in SwiftContext :
        Len(answers[c]) = IF task[c].at = "over" THEN 1 ELSE 0

(* A code is accepted only by the clock that finds it neither expired nor  *)
(* ahead of its time, whatever the subtraction of its build does; events   *)
(* go to the callback that was registered first, and only about such a     *)
(* code.                                                                   *)
FreshCodesOnly ==
    \A c \in SwiftContext :
        /\ task[c].at = "over" /\ task[c].export = "process_ping_qr_data"
              => (answers[c][1] <=> "now" \in DOMAIN task[c])
        /\ heard[c] # NoCallback => heard[c] = EVENT_CALLBACK /\ "now" \in DOMAIN task[c]
        /\ "now" \in DOMAIN task[c] => task[c].now - task[c].timestamp \in 0..MaxQrAge

(* Both: Swift hears of each call once, when it is over, and of a scanned  *)
(* code what its age deserves (the exports of ios.rs and their tasks).     *)
CallsAnsweredRightly == AnsweredOnce /\ FreshCodesOnly
==============================================================================
