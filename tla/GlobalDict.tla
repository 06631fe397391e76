----------------------------- MODULE GlobalDict ------------------------------
(***************************************************************************)
(* GlobalDictManager (dict/mod.rs): a DictionaryLoader per language, and   *)
(* the list of active custom dictionaries.  register_dict holds the write  *)
(* lock of the loaders to its end and takes the lock of the list inside;   *)
(* so each call is one action.  It parses every dictionary, the official   *)
(* ones included, with load_from_json, which gives every word the index 0  *)
(* and the source Custom; no merge reassigns an official word after it.    *)
(***************************************************************************)
EXTENDS DictOps

CONSTANTS Lang, MaxCustom

ASSUME GlobalAssumption == MaxCustom \in Nat

VARIABLES loaders,             \* language -> its loader or NoLoader
          active_custom_ids,   \* languages in the order of registration
          official             \* history: language -> entries its last official
                               \* registration left

managerVars == <<loaders, active_custom_ids, official>>

(* "No loader for this language": a value no call leaves in the map.       *)
NoLoader == [NewLoader EXCEPT !.max_official_index = Limit - 1]

ManagerTypeOK ==
    /\ loaders \in [Lang -> Loader]
    /\ active_custom_ids \in Seq(Lang)
    /\ Len(active_custom_ids) <= MaxCustom
    /\ official \in [Lang -> [Word -> Entry]]

------------------------------------------------------------------------------
ManagerInit ==
    /\ loaders = [l \in Lang |-> NoLoader]
    /\ active_custom_ids = <<>>
    /\ official = [l \in Lang |-> NewLoader.entries]

RegisterOfficial(l, S) ==
    /\ loaders' = [loaders EXCEPT ![l] = LoadTemporary(S)]
    /\ official' = [official EXCEPT ![l] = LoadTemporary(S).entries]
    /\ UNCHANGED active_custom_ids

(* The list is asked after the words have gone in.                         *)
ListFull == Len(active_custom_ids) >= MaxCustom

ListCustom(l) == active_custom_ids' = IF ListFull THEN active_custom_ids
                                      ELSE Append(active_custom_ids, l)

RegisterCustom(l, S) ==
    /\ \E merged \in IF loaders[l] = NoLoader THEN {LoadTemporary(S)}
                     ELSE MergeCustom(loaders[l], S) :
          loaders' = [loaders EXCEPT ![l] = merged]
    /\ ListCustom(l)
    /\ UNCHANGED official

unload_custom_dict(i) ==
    /\ active_custom_ids' = [j \in 1..(Len(active_custom_ids) - 1) |->
                                active_custom_ids[IF j < i THEN j ELSE j + 1]]
    /\ UNCHANGED <<loaders, official>>

(* An id names its language only; the first one found is removed.          *)
FirstIds == {i \in DOMAIN active_custom_ids :
                \A j \in 1..(i - 1) : active_custom_ids[j] # active_custom_ids[i]}

ManagerNext ==
    \/ \E l \in Lang, S \in SUBSET Word : RegisterOfficial(l, S) \/ RegisterCustom(l, S)
    \/ \E i \in FirstIds : unload_custom_dict(i)

ManagerSpec == ManagerInit /\ [][ManagerNext]_managerVars

------------------------------------------------------------------------------
(* "Official: Overwrite completely (higher priority)" (dict/mod.rs:80): a  *)
(* word of the last official dictionary of a language keeps the entry its  *)
(* registration left, so that get_static_index answers as it did then,     *)
(* however many custom dictionaries name the word, are refused or are      *)
(* unloaded in between (register_dict, merge_custom).  That the index in   *)
(* this entry is the temporary 0 of load_from_json is another matter.      *)
OfficialWordsKept ==
    \A l \in Lang, w \in Word :
        official[l][w] # NoEntry => loaders[l].entries[w] = official[l][w]
==============================================================================
