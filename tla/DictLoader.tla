----------------------------- MODULE DictLoader ------------------------------
(***************************************************************************)
(* One DictionaryLoader (dict/loader.rs) over its life: official files are *)
(* loaded, each one replacing what was there, and custom dictionaries are  *)
(* merged into it.                                                         *)
(***************************************************************************)
EXTENDS DictOps

CONSTANT MaxFile      \* bound on the words of a file

ASSUME FileAssumption == MaxFile \in Nat

VARIABLE loader

LoaderInit == loader = NewLoader

load_from_json_official(file) == loader' = LoadOfficial(file)

merge_custom(S) == loader' \in MergeCustom(loader, S)

Files == UNION {[1..n -> Word] : n \in 1..MaxFile}

LoaderNext == \/ \E file \in Files : load_from_json_official(file)
        \/ \E S \in SUBSET Word : merge_custom(S)

LoaderSpec == LoaderInit /\ [][LoaderNext]_loader

------------------------------------------------------------------------------
LoaderTypeOK == loader \in Loader

Decodes(w) == loader.index_map[loader.entries[w].index] = w

(* "Indices are managed to avoid collisions between Official and Custom    *)
(* sets" (loader.rs:4): the index of an official word leads back to it,    *)
(* whatever is merged after it.  A file that overflows is excepted: it     *)
(* leaves max_official_index 0, and the next merge numbers custom words    *)
(* over the official ones (loader.rs:119).                                 *)
OfficialDecodes ==
    loader.max_official_index # 0 =>
        \A w \in Word : loader.entries[w].source = "Official" => Decodes(w)
==============================================================================
