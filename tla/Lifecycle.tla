----------------------------- MODULE Lifecycle -------------------------------
(***************************************************************************)
(* The start of the Android process (ffi/android.rs) and the opening of    *)
(* its database (db/manager.rs).  Threads of the Java side call            *)
(* initSpotka, which fills three cells one after the other, and calls that *)
(* expect those cells to be filled.  A failed expect in a JNI function     *)
(* aborts the process (panic = "abort"); the file of the database stays.   *)
(*                                                                         *)
(* Every caller at this commit opens the database without a device salt;   *)
(* the model also lets them pass it, as DbManager::new asks for.           *)
(***************************************************************************)
EXTENDS Integers, FiniteSets

CONSTANTS Thread,
          AuthSecret,     \* what unlocks the database
          DeviceSalt,     \* the salt of the keystore
          MaxDraws,       \* bound on the salts drawn where none is passed
          MaxSpawned,     \* bound on the tasks that have not reported yet
          Statements      \* of run_migrations, each CREATE ... IF NOT EXISTS

ASSUME DeviceSaltIsNotDrawn == DeviceSalt \notin Nat

ASSUME BoundsArePositive ==
    MaxDraws \in Nat \ {0} /\ Statements \in Nat \ {0} /\ MaxSpawned \in Nat \ {0}

VARIABLES JVM, RUNTIME, APP_CONTROLLER,   \* filled or not
          at,          \* what each thread is doing
          key,         \* the key a thread opens the database with
          spawned,     \* how many spawned tasks still have to report
          draws,
          file_key,    \* what the database file is encrypted with
          tables,      \* the statements that have been executed on the file
          ready,       \* history: the initSpotka that set JVM has returned
          aborted,     \* history: the call that aborted the process, if one did
          opened       \* history: the keys DbManager::new has succeeded with

cells == <<JVM, RUNTIME, APP_CONTROLLER>>

database == <<draws, file_key, tables, opened>>

lifeVars == <<cells, at, key, spawned, database, ready, aborted>>

NoKey == [secret |-> "none", salt |-> 0]

DbKey == [secret : AuthSecret, salt : {DeviceSalt} \cup 1..MaxDraws]

Where == {"idle", "set_runtime", "set_controller", "migrate"}

(* The exports that spawn a task on the runtime, for the controller.       *)
Spawning == {"startP2PNode", "processPingQrCode", "createMeeting",
             "sendInvite", "acceptInvite", "rejectInvite"}

Calls == Spawning \cup {"openDatabase", "generatePingQrCode", "shutdown", "notify_ui_event"}

LifeTypeOK ==
    /\ JVM \in BOOLEAN /\ RUNTIME \in BOOLEAN /\ APP_CONTROLLER \in BOOLEAN
    /\ at \in [Thread -> Where] /\ key \in [Thread -> DbKey \cup {NoKey}]
    /\ spawned \in 0..MaxSpawned /\ draws \in 0..MaxDraws
    /\ file_key \in DbKey \cup {NoKey} /\ tables \subseteq 1..Statements
    /\ ready \in BOOLEAN /\ aborted \in Calls \cup {"no"} /\ opened \subseteq DbKey

LifeInit ==
    /\ JVM = FALSE /\ RUNTIME = FALSE /\ APP_CONTROLLER = FALSE
    /\ at = [t \in Thread |-> "idle"] /\ key = [t \in Thread |-> NoKey]
    /\ spawned = 0
    /\ draws = 0 /\ file_key = NoKey /\ tables = {} /\ opened = {}
    /\ ready = FALSE /\ aborted = "no"

Idle(t) == aborted = "no" /\ at[t] = "idle"

Go(t, where) == at' = [at EXCEPT ![t] = where]

Abort(call) == aborted' = call

------------------------------------------------------------------------------
(* initSpotka.  The thread that finds JVM set returns at once, whether or  *)
(* not the one that set it has got any further.                            *)
set_jvm(t) ==
    /\ Idle(t) /\ ~JVM
    /\ JVM' = TRUE /\ Go(t, "set_runtime")
    /\ UNCHANGED <<RUNTIME, APP_CONTROLLER, key, spawned, database, ready, aborted>>

(* For the mutation runs: the runtime is left to be made later.            *)
set_runtime_Later(t) ==
    /\ aborted = "no" /\ at[t] = "set_runtime"
    /\ Go(t, "set_controller")
    /\ UNCHANGED <<cells, key, spawned, database, ready, aborted>>

set_runtime(t) ==
    /\ aborted = "no" /\ at[t] = "set_runtime"
    /\ RUNTIME' = TRUE /\ Go(t, "set_controller")
    /\ UNCHANGED <<JVM, APP_CONTROLLER, key, spawned, database, ready, aborted>>

set_controller(t) ==
    /\ aborted = "no" /\ at[t] = "set_controller"
    /\ APP_CONTROLLER' = TRUE /\ ready' = TRUE /\ Go(t, "idle")
    /\ UNCHANGED <<JVM, RUNTIME, key, spawned, database, aborted>>

------------------------------------------------------------------------------
(* openDatabase blocks on DbManager::new, which derives the key first.     *)
Derive(t, s) ==
    \/ /\ key' = [key EXCEPT ![t] = [secret |-> s, salt |-> DeviceSalt]]
       /\ UNCHANGED draws
    \/ /\ draws < MaxDraws /\ draws' = draws + 1
       /\ key' = [key EXCEPT ![t] = [secret |-> s, salt |-> draws + 1]]

begin_open(t, s) ==
    /\ Derive(t, s) /\ Go(t, "migrate")
    /\ UNCHANGED <<cells, spawned, file_key, tables, opened, ready, aborted>>

openDatabase(t, s) ==
    /\ Idle(t)
    /\ IF RUNTIME THEN begin_open(t, s)
       ELSE /\ Abort("openDatabase")
            /\ UNCHANGED <<cells, at, key, spawned, database, ready>>

(* For the mutation runs: a file that the key does not fit is made anew.   *)
Fits_Anew(t) == TRUE

(* SQLCipher reads and writes only under the key the file was made with;   *)
(* the first statement on a new file makes it.                             *)
Fits(t) == file_key \in {NoKey, key[t]}

execute_statement(t) ==
    /\ aborted = "no" /\ at[t] = "migrate" /\ Fits(t)
    /\ \E i \in 1..Statements :
           /\ i \notin tables /\ \A j \in 1 .. i - 1 : j \in tables
           /\ tables' = tables \cup {i}
    /\ file_key' = key[t]
    /\ UNCHANGED <<cells, at, key, spawned, draws, opened, ready, aborted>>

database_opened(t) ==
    /\ aborted = "no" /\ at[t] = "migrate" /\ Fits(t) /\ tables = 1..Statements
    /\ opened' = opened \cup {key[t]}
    /\ Go(t, "idle") /\ key' = [key EXCEPT ![t] = NoKey]
    /\ UNCHANGED <<cells, spawned, draws, file_key, tables, ready, aborted>>

(* ERR_DB_MIGRATION_FAILED: of a wrong key, or of any statement.           *)
open_failed(t) ==
    /\ aborted = "no" /\ at[t] = "migrate"
    /\ Go(t, "idle") /\ key' = [key EXCEPT ![t] = NoKey]
    /\ UNCHANGED <<cells, spawned, database, ready, aborted>>

------------------------------------------------------------------------------
(* An export whose strings do not convert returns before it asks for a     *)
(* cell; that changes nothing and is no step.                              *)
spawn(t, call) ==
    /\ Idle(t)
    /\ IF RUNTIME /\ APP_CONTROLLER
       THEN /\ spawned < MaxSpawned /\ spawned' = spawned + 1
            /\ UNCHANGED <<cells, at, key, database, ready, aborted>>
       ELSE /\ Abort(call)
            /\ UNCHANGED <<cells, at, key, spawned, database, ready>>

generatePingQrCode(t) ==
    /\ Idle(t)
    /\ IF APP_CONTROLLER THEN UNCHANGED aborted ELSE Abort("generatePingQrCode")
    /\ UNCHANGED <<cells, at, key, spawned, database, ready>>

(* A spawned task reports its success or its error through the JVM.        *)
notify_ui_event ==
    /\ aborted = "no" /\ spawned > 0
    /\ IF JVM THEN spawned' = spawned - 1 /\ UNCHANGED aborted
              ELSE Abort("notify_ui_event") /\ UNCHANGED spawned
    /\ UNCHANGED <<cells, at, key, database, ready>>

(* shutdown asks for the runtime only if there is a controller to stop;    *)
(* the cells stay filled.                                                  *)
shutdown(t) ==
    /\ Idle(t) /\ APP_CONTROLLER
    /\ IF RUNTIME THEN UNCHANGED aborted ELSE Abort("shutdown")
    /\ UNCHANGED <<cells, at, key, spawned, database, ready>>

(* The process ends, by an abort or otherwise, and is started again.       *)
restart ==
    /\ JVM' = FALSE /\ RUNTIME' = FALSE /\ APP_CONTROLLER' = FALSE
    /\ at' = [t \in Thread |-> "idle"] /\ key' = [t \in Thread |-> NoKey]
    /\ spawned' = 0 /\ ready' = FALSE /\ aborted' = "no"
    /\ UNCHANGED database

LifeNext ==
    \/ \E t \in Thread :
          \/ set_jvm(t) \/ set_runtime(t) \/ set_controller(t)
          \/ \E s \in AuthSecret : openDatabase(t, s)
          \/ execute_statement(t) \/ database_opened(t) \/ open_failed(t)
          \/ \E call \in Spawning : spawn(t, call)
          \/ generatePingQrCode(t) \/ shutdown(t)
    \/ notify_ui_event \/ restart

LifeSpec == LifeInit /\ [][LifeNext]_lifeVars

------------------------------------------------------------------------------
(* Once the first initSpotka has returned, no call of any thread finds a   *)
(* cell empty; and shutdown and the events of spawned tasks never do, not  *)
(* even while another thread is still initializing.                        *)
CallsFindTheCore ==
    aborted # "no" => ~ready /\ aborted \notin {"shutdown", "notify_ui_event"}

(* Whatever opens are tried, concurrently, under other secrets or salts,   *)
(* and wherever a migration is cut short: at most one key ever opens the   *)
(* database, it is the key of the file for good, and it then finds every   *)
(* table.                                                                  *)
DatabaseReopens ==
    \A k \in opened : k = file_key /\ tables = 1..Statements
==============================================================================
