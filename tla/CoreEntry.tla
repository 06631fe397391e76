------------------------------ MODULE CoreEntry -------------------------------
(***************************************************************************)
(* The C entry of the crate (lib.rs): spotka_init, called by any thread    *)
(* any number of times.  Each call opens the database and builds a         *)
(* controller of its own; only then does it try to put that controller     *)
(* into the one cell of the process, and is refused when the cell is       *)
(* filled.  The opening is the one of module Lifecycle, on a process whose *)
(* JNI entries are not used.                                               *)
(*                                                                         *)
(* spotka_start_p2p and spotka_parse_cts change nothing, and a dictionary  *)
(* that does not load is logged and passed over; they are left out.        *)
(***************************************************************************)
EXTENDS Lifecycle

VARIABLES building,   \* per thread: the key under the controller it has built
          core,       \* APP_CONTROLLER: the key under the controller in the cell
          granted     \* history: the calls that this process has answered "OK"

entryVars == <<building, core, granted>>

coreVars == <<lifeVars, entryVars>>

EntryTypeOK == /\ building \in [Thread -> DbKey \cup {NoKey}]
               /\ core \in DbKey \cup {NoKey}
               /\ granted \in 0..1

CoreInit == /\ LifeInit
            /\ building = [t \in Thread |-> NoKey]
            /\ core = NoKey /\ granted = 0

spotka_init(t, s) ==
    /\ Idle(t) /\ building[t] = NoKey
    /\ begin_open(t, s)
    /\ UNCHANGED entryVars

migrate(t) == execute_statement(t) /\ UNCHANGED entryVars

(* "ERR_DB_INIT_FAILED", or the key of what failed.                        *)
init_fails(t) == open_failed(t) /\ UNCHANGED entryVars

build_controller(t) ==
    /\ database_opened(t)
    /\ building' = [building EXCEPT ![t] = key[t]]
    /\ UNCHANGED <<core, granted>>

(* For the mutation runs: the last controller built is the one kept.       *)
set_core_Replaces(t) ==
    /\ building[t] # NoKey
    /\ building' = [building EXCEPT ![t] = NoKey]
    /\ core' = building[t] /\ granted' = granted + 1
    /\ UNCHANGED lifeVars

(* "OK" or "ERR_CORE_ALREADY_INITIALIZED"; the controller that is refused  *)
(* is dropped, and its database with it.                                   *)
set_core(t) ==
    /\ building[t] # NoKey
    /\ building' = [building EXCEPT ![t] = NoKey]
    /\ IF core = NoKey THEN core' = building[t] /\ granted' = granted + 1
                       ELSE UNCHANGED <<core, granted>>
    /\ UNCHANGED lifeVars

restart_core ==
    /\ restart
    /\ building' = [t \in Thread |-> NoKey] /\ core' = NoKey /\ granted' = 0

CoreNext ==
    \/ \E t \in Thread :
          \/ \E s \in AuthSecret : spotka_init(t, s)
          \/ migrate(t) \/ init_fails(t) \/ build_controller(t) \/ set_core(t)
    \/ restart_core

CoreSpec == CoreInit /\ [][CoreNext]_coreVars

------------------------------------------------------------------------------
(* However many threads call spotka_init, with whatever secrets, at once   *)
(* or after a restart: at most one call of a process is told "OK", and     *)
(* just while the cell is filled; and the controller in the cell, like     *)
(* those still on their way to it, has the database open under the key of  *)
(* the file, with every table.                                             *)
OneCore ==
    /\ granted = IF core = NoKey THEN 0 ELSE 1
    /\ \A k \in {core} \cup {building[t] : t \in Thread} :
          k # NoKey => k = file_key /\ tables = 1..Statements
==============================================================================
