--------------------------- MODULE MCDictionaries ----------------------------
(***************************************************************************)
(* The three parts of dict/, which share no state: a loader, the manager   *)
(* and a session.  A behaviour is about one of them, so that the state     *)
(* space is the sum of theirs.                                             *)
(*                                                                         *)
(* Three words and the indices 1 to 3: files and custom dictionaries meet  *)
(* the limit.  A u8 is scaled to four values, two of them static, so that  *)
(* the third promotion wraps.                                              *)
(***************************************************************************)
EXTENDS DictLoader, GlobalDict, SessionDict

CONSTANTS kino, gry, las

VARIABLE part

MCFrequent == <<kino, gry>>

(* One index twice, and one that is not static; and each index once, for   *)
(* the run about frequent words.                                           *)
MCStatic == {<<las, 0>>, <<gry, 0>>, <<gry, 1>>, <<gry, 3>>}

MCStaticOnce == {<<las, 0>>, <<gry, 1>>}

(* What peers export: a promoted word, and a word this session may know.   *)
MCForeign == {<<3, las>>, <<0, kino>>, <<2, gry>>}

NoForeign == {}

Init == /\ part \in {"loader", "manager", "session"}
        /\ LoaderInit /\ ManagerInit /\ SessionInit

Next == \/ part = "loader" /\ LoaderNext /\ UNCHANGED <<part, managerVars, sessionVars>>
        \/ part = "manager" /\ ManagerNext /\ UNCHANGED <<part, loader, sessionVars>>
        \/ part = "session" /\ SessionNext /\ UNCHANGED <<part, loader, managerVars>>

Spec == Init /\ [][Next]_<<part, loader, managerVars, sessionVars>>

TypeOK == LoaderTypeOK /\ ManagerTypeOK /\ SessionTypeOK
==============================================================================
