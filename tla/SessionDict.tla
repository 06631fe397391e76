----------------------------- MODULE SessionDict -----------------------------
(***************************************************************************)
(* The dictionary of one P2P session (dict/compressor.rs): words earn an   *)
(* index by being used, and a tag is sent as its index from then on.  The  *)
(* session starts from new() or from create_session_dict (dict/mod.rs),    *)
(* which assigns the first dynamic indices to frequent words; static       *)
(* entries can be preloaded and the entries of a peer imported.            *)
(*                                                                         *)
(* next_dynamic_index is a u8: past the last index it wraps to 0, and the  *)
(* test next_dynamic_index <= 255 is always true.                          *)
(***************************************************************************)
EXTENDS Integers, Sequences, FiniteSets

CONSTANTS Tag, NoTag,
          FirstDynamic,   \* 10: the indices below are for static entries
          Indices,        \* 256 values of a u8
          Threshold,      \* FREQUENCY_PROMOTION_THRESHOLD
          Frequent,       \* words create_session_dict starts with, in order
          Static,         \* (word, index) pairs preload_static_dict is given
          Foreign         \* (index, word) pairs import_sync is given

ASSUME SessionAssumption ==
    /\ NoTag \notin Tag
    /\ FirstDynamic \in Nat /\ Indices \in Nat /\ FirstDynamic < Indices
    /\ Threshold \in Nat \ {0}
    /\ Frequent \in Seq(Tag) /\ FirstDynamic + Len(Frequent) <= Indices
    /\ Static \subseteq Tag \X (0..(Indices - 1))
    /\ Foreign \subseteq (0..(Indices - 1)) \X Tag

VARIABLES word_to_index, index_to_word, usage_stats, next_dynamic_index,
          sent,     \* history: (word, index) for every tag sent as an index
          plain     \* history: started by new(), nothing imported, no wrap

sessionVars == <<word_to_index, index_to_word, usage_stats, next_dynamic_index, sent, plain>>

TagIndex == 0..(Indices - 1)

NoIndex == -1

SessionTypeOK ==
    /\ word_to_index \in [Tag -> TagIndex \cup {NoIndex}]
    /\ index_to_word \in [TagIndex -> Tag \cup {NoTag}]
    /\ usage_stats \in [Tag -> 0..Threshold]
    /\ next_dynamic_index \in TagIndex
    /\ sent \subseteq Tag \X TagIndex
    /\ plain \in BOOLEAN

(* The i-th word of a list gets the i-th dynamic index; next_dynamic_index *)
(* is left where new() put it.  new() has no list.                         *)
StartedWith(list) ==
    /\ word_to_index = [w \in Tag |->
           IF \E i \in DOMAIN list : list[i] = w
           THEN FirstDynamic - 1 + (CHOOSE i \in DOMAIN list : list[i] = w)
           ELSE NoIndex]
    /\ index_to_word = [i \in TagIndex |->
           IF i - FirstDynamic + 1 \in DOMAIN list THEN list[i - FirstDynamic + 1] ELSE NoTag]

SessionInit == /\ \/ StartedWith(<<>>) /\ plain = TRUE
                  \/ StartedWith(Frequent) /\ plain = FALSE
               /\ usage_stats = [w \in Tag |-> 0]
               /\ next_dynamic_index = FirstDynamic
               /\ sent = {}

------------------------------------------------------------------------------
HasIndex(w) == word_to_index[w] # NoIndex

(* Uses beyond the threshold count like the use that reaches it.           *)
Used(w) == IF usage_stats[w] < Threshold THEN usage_stats[w] + 1 ELSE Threshold

Assign(w, i) ==
    /\ word_to_index' = [word_to_index EXCEPT ![w] = i]
    /\ index_to_word' = [index_to_word EXCEPT ![i] = w]

(* For the mutation runs: the next index is not advanced.                 *)
Advance_NotAtAll == UNCHANGED next_dynamic_index

Advance == next_dynamic_index' = (next_dynamic_index + 1) % Indices

(* compress_tags for one tag: a word with an index is sent as that index.  *)
CompressKnown(w) ==
    /\ HasIndex(w)
    /\ usage_stats' = [usage_stats EXCEPT ![w] = Used(w)]
    /\ sent' = sent \cup {<<w, word_to_index[w]>>}
    /\ UNCHANGED <<word_to_index, index_to_word, next_dynamic_index, plain>>

(* A word below the threshold goes as text.                                *)
CompressText(w) ==
    /\ ~HasIndex(w) /\ Used(w) < Threshold
    /\ usage_stats' = [usage_stats EXCEPT ![w] = Used(w)]
    /\ UNCHANGED <<word_to_index, index_to_word, next_dynamic_index, sent, plain>>

(* The use that reaches the threshold promotes the word and already sends  *)
(* the new index.                                                          *)
Promote(w) ==
    /\ ~HasIndex(w) /\ Used(w) >= Threshold
    /\ usage_stats' = [usage_stats EXCEPT ![w] = Used(w)]
    /\ Assign(w, next_dynamic_index)
    /\ Advance
    /\ sent' = sent \cup {<<w, next_dynamic_index>>}
    /\ plain' = (plain /\ next_dynamic_index + 1 < Indices)

(* preload_static_dict for one entry.                                      *)
Preloadable(w, i) == ~HasIndex(w) /\ i < FirstDynamic

Preload(w, i) ==
    /\ Preloadable(w, i)
    /\ Assign(w, i)
    /\ UNCHANGED <<usage_stats, next_dynamic_index, sent, plain>>

(* import_sync for one entry: it looks at the index only, so a word that   *)
(* has an index already is moved to the imported one.                      *)
Importable(i) == index_to_word[i] = NoTag

Import(i, w) ==
    /\ Importable(i)
    /\ Assign(w, i)
    /\ plain' = FALSE
    /\ UNCHANGED <<usage_stats, next_dynamic_index, sent>>

SessionNext == \/ \E w \in Tag : CompressKnown(w) \/ CompressText(w) \/ Promote(w)
               \/ \E e \in Static : Preload(e[1], e[2])
               \/ \E e \in Foreign : Import(e[1], e[2])

SessionSpec == SessionInit /\ [][SessionNext]_sessionVars

------------------------------------------------------------------------------
(* Two of the static entries claim the index: preload_static_dict takes    *)
(* any list, and the loader's own indices repeat.                          *)
ClaimedByAnother(w, i) == i < FirstDynamic /\ \E e \in Static : e[2] = i /\ e[1] # w

(* A tag sent as an index comes back as the word it stood for, also when   *)
(* it is decompressed later in the session (decompress_tags): an index     *)
(* means the same word for good, unless another static entry was given the *)
(* same index.  Frequent words, imported entries and a u8 that has wrapped *)
(* are excepted: there promotions hand out indices again.                  *)
SentDecodes ==
    plain => \A e \in sent :
        index_to_word[e[2]] = e[1] \/ ClaimedByAnother(e[1], e[2])

(* "Includes status to ensure full reconstruction is possible"             *)
(* (compressor.rs:16): the same, however the session began.                *)
SentDecodesAlways == \A e \in sent : index_to_word[e[2]] = e[1]
==============================================================================
