------------------------------- MODULE DictOps -------------------------------
(***************************************************************************)
(* The value of a DictionaryLoader (dict/loader.rs) and its operations.    *)
(* entries maps a lower-cased word to its index and source; index_map maps *)
(* an index back to a word.  Limit is 255, the index at which both loops   *)
(* stop.  A dictionary file is its sequence of words by falling frequency; *)
(* a word may occur twice, spelled differently in the file.                *)
(***************************************************************************)
EXTENDS Integers, Sequences, FiniteSets

CONSTANTS Word, NoWord, Limit

ASSUME DictAssumption == NoWord \notin Word /\ Limit \in Nat \ {0, 1} /\ IsFiniteSet(Word)

Index == 1..(Limit - 1)

NoEntry == [index |-> 0, source |-> "None"]

Entry == [index : 0..(Limit - 1), source : {"Official", "Custom", "None"}]

Loader == [entries : [Word -> Entry],
           index_map : [Index -> Word \cup {NoWord}],
           max_official_index : 0..(Limit - 1)]

NewLoader == [entries |-> [w \in Word |-> NoEntry],
              index_map |-> [i \in Index |-> NoWord],
              max_official_index |-> 0]

Words(l) == {w \in Word : l.entries[w] # NoEntry}

Smaller(a, b) == IF a <= b THEN a ELSE b

(* load_from_json_official: the j-th word gets index j, a later spelling   *)
(* of a word replaces its entry.  A file that does not fit is loaded up to *)
(* the limit, and then the call returns IndexOverflow with                 *)
(* max_official_index still 0.                                             *)
Fits(file) == Len(file) < Limit

LoadOfficial(file) ==
    LET n == Smaller(Len(file), Limit - 1)
        Last(w) == CHOOSE j \in 1..n : file[j] = w /\ \A k \in (j + 1)..n : file[k] # w
    IN  [entries |-> [w \in Word |-> IF \E j \in 1..n : file[j] = w
                                     THEN [index |-> Last(w), source |-> "Official"]
                                     ELSE NoEntry],
         index_map |-> [i \in Index |-> IF i <= n THEN file[i] ELSE NoWord],
         max_official_index |-> IF Fits(file) THEN n ELSE 0]

(* load_from_json into a fresh loader: no indices, every entry Custom.     *)
LoadTemporary(S) ==
    [NewLoader EXCEPT !.entries = [w \in Word |-> IF w \in S
                                                  THEN [index |-> 0, source |-> "Custom"]
                                                  ELSE NoEntry]]

(* merge_custom, with the words of the other loader in the order in which  *)
(* its map drains; words that are known are skipped.                       *)
Orders(S) == {q \in [1..Cardinality(S) -> S] : \A i, j \in DOMAIN q : q[i] = q[j] => i = j}

(* Plausible slips: known words are taken as well, or the numbering does   *)
(* not start behind the official words.                                    *)
New_KnownToo(l, S) == S

New(l, S) == S \ Words(l)

Start_OffByOne(l) == IF l.max_official_index = 0 THEN 1 ELSE l.max_official_index

Start(l) == l.max_official_index + 1

(* How many words there are indices for: the loop breaks at Limit.         *)
Room_OneMore(l) == Limit - Start(l) + 1

Room(l) == Limit - Start(l)

MergeInOrder(l, q) ==
    LET n == Smaller(Len(q), Room(l))
    IN  [l EXCEPT
          !.entries = [w \in Word |-> IF \E j \in 1..n : q[j] = w
                                      THEN [index |-> Start(l) - 1 + (CHOOSE j \in 1..n : q[j] = w),
                                            source |-> "Custom"]
                                      ELSE @[w]],
          !.index_map = [i \in Index |-> IF i - Start(l) + 1 \in 1..n
                                         THEN q[i - Start(l) + 1]
                                         ELSE @[i]]]

MergeCustom(l, S) == {MergeInOrder(l, q) : q \in Orders(New(l, S))}
==============================================================================
