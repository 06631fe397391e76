----------------------------- MODULE DictProofs ------------------------------
(***************************************************************************)
(* What the dictionaries (dict/) keep, for any words, limits, files,       *)
(* languages and sessions: official words under a loader's merges and the  *)
(* manager's registrations, and the meaning of a tag sent as an index.     *)
(***************************************************************************)
EXTENDS MCDictionaries, FiniteSetTheorems, SequenceTheorems, WellFoundedInduction, TLAPS

(* An index of an official word is one load_from_json_official gave out,   *)
(* below every index a merge gives out.                                    *)
LoaderInv ==
    /\ LoaderTypeOK
    /\ loader.max_official_index # 0 =>
          \A w \in Word : loader.entries[w].source = "Official" =>
              loader.entries[w].index \in 1..loader.max_official_index /\ Decodes(w)

------------------------------------------------------------------------------
(* Nonempty sets of numbers up to n have a largest element.                *)
LEMMA LargestElement ==
    ASSUME NEW n \in Nat, NEW T \in SUBSET (0..n), T # {}
    PROVE  \E x \in T : \A y \in T : y <= x
  <1> DEFINE Below == {k \in 0..n : n - k \in T}
  <1>1. Below \subseteq Nat
    OBVIOUS
  <1>2. Below # {}
    <2>1. PICK x \in T : x \in 0..n
      OBVIOUS
    <2>2. n - x \in 0..n /\ n - (n - x) = x
      BY <2>1
    <2> QED
      BY <2>2
  <1>3. PICK m \in Below : \A k \in Below : ~(<<k, m>> \in OpToRel(<, Nat))
    <2> HIDE DEF Below
    <2> QED
      BY <1>1, <1>2, NatLessThanWellFounded, WFMin, Zenon
  <1>4. \A k \in Below : ~(k < m)
    BY <1>1, <1>3, Zenon DEF OpToRel
  <1>5. ASSUME NEW y \in T
        PROVE  y <= n - m
    <2>1. y \in 0..n /\ n - y \in 0..n /\ n - (n - y) = y
      OBVIOUS
    <2>2. n - y \in Below
      BY <2>1
    <2>3. ~(n - y < m)
      BY <1>4, <2>1, <2>2
    <2> QED
      BY <2>1, <2>3
  <1> QED
    BY <1>5

(* A word that occurs has a last occurrence.                               *)
LEMMA LastOccurrence ==
    ASSUME NEW n \in Nat, NEW f, NEW w, \E j \in 1..n : f[j] = w
    PROVE  \E k \in 1..n : f[k] = w /\ \A m \in (k + 1)..n : f[m] # w
  <1> DEFINE T == {k \in 1..n : f[k] = w}
  <1>1. T \in SUBSET (0..n) /\ T # {}
    OBVIOUS
  <1>2. PICK k \in T : \A m \in T : m <= k
    BY <1>1, LargestElement
  <1> QED
    BY <1>2

------------------------------------------------------------------------------
(* load_from_json_official: indices of official words lead back to them.   *)
LEMMA OfficialLoads ==
    ASSUME NEW file \in Files
    PROVE  LET l == LoadOfficial(file)
           IN  /\ l \in Loader
               /\ l.max_official_index # 0 =>
                     \A w \in Word : l.entries[w].source = "Official" =>
                         /\ l.entries[w].index \in 1..l.max_official_index
                         /\ l.index_map[l.entries[w].index] = w
  <1> USE DictAssumption, FileAssumption
  <1> DEFINE n == Smaller(Len(file), Limit - 1)
             l == LoadOfficial(file)
  <1>1. PICK length \in 1..MaxFile : file \in [1..length -> Word]
    BY DEF Files
  <1>2. Len(file) = length
    BY <1>1
  <1>3. n \in 1..(Limit - 1) /\ n <= length /\ (Fits(file) => n = length)
    BY <1>2 DEF Smaller, Fits
  <1>4. n \in Nat /\ \A j \in 1..n : file[j] \in Word
    BY <1>1, <1>3
  <1>5. /\ l = [entries |-> l.entries, index_map |-> l.index_map,
                max_official_index |-> IF Fits(file) THEN n ELSE 0]
        /\ l.entries = [w \in Word |-> l.entries[w]]
        /\ l.index_map = [i \in Index |-> IF i <= n THEN file[i] ELSE NoWord]
    BY DEF LoadOfficial
  <1>6. ASSUME NEW w \in Word
        PROVE  \/ l.entries[w] = [index |-> 0, source |-> "None"]
               \/ \E k \in 1..n : /\ file[k] = w
                                  /\ l.entries[w] = [index |-> k, source |-> "Official"]
    <2> DEFINE Last == CHOOSE k \in 1..n : file[k] = w /\ \A m \in (k + 1)..n : file[m] # w
    <2>1. l.entries[w] = IF \E j \in 1..n : file[j] = w
                         THEN [index |-> Last, source |-> "Official"] ELSE NoEntry
      BY DEF LoadOfficial
    <2> HIDE DEF l, n
    <2>2. CASE \E j \in 1..n : file[j] = w
      <3>1. \E k \in 1..n : file[k] = w /\ \A m \in (k + 1)..n : file[m] # w
        <4>1. n \in Nat
          BY <1>4
        <4>2. \A f, v : (\E j \in 1..n : f[j] = v)
                 => \E k \in 1..n : f[k] = v /\ \A m \in (k + 1)..n : f[m] # v
          BY <4>1, LastOccurrence
        <4> QED
          BY <2>2, <4>2
      <3>2. Last \in 1..n /\ file[Last] = w
        BY <3>1
      <3> HIDE DEF Last
      <3> QED
        BY <2>1, <2>2, <3>2
    <2>3. CASE ~ \E j \in 1..n : file[j] = w
      BY <2>1, <2>3 DEF NoEntry
    <2> QED
      BY <2>2, <2>3
  <1> HIDE DEF l, n
  <1>7. l \in Loader
    <2>1. \A w \in Word : l.entries[w] \in [index : 0..(Limit - 1),
                                           source : {"Official", "Custom", "None"}]
      <3> TAKE w \in Word
      <3>1. CASE l.entries[w] = [index |-> 0, source |-> "None"]
        BY <3>1
      <3>2. CASE l.entries[w] # [index |-> 0, source |-> "None"]
        <4>1. PICK k \in 1..n : l.entries[w] = [index |-> k, source |-> "Official"]
          BY <1>6, <3>2
        <4> QED
          BY <1>3, <4>1
      <3> QED
        BY <3>1, <3>2
    <2>2. \A i \in Index : l.index_map[i] \in Word \cup {NoWord}
      BY <1>3, <1>4, <1>5 DEF Index
    <2>3. l.max_official_index \in 0..(Limit - 1)
      BY <1>3, <1>5
    <2> QED
      BY <1>5, <2>1, <2>2, <2>3 DEF Loader, Entry
  <1>8. ASSUME l.max_official_index # 0, NEW w \in Word, l.entries[w].source = "Official"
        PROVE  /\ l.entries[w].index \in 1..l.max_official_index
               /\ l.index_map[l.entries[w].index] = w
    <2>1. l.entries[w] # [index |-> 0, source |-> "None"]
      BY <1>8
    <2>2. PICK k \in 1..n : /\ file[k] = w
                            /\ l.entries[w] = [index |-> k, source |-> "Official"]
      BY <1>6, <2>1
    <2>3. l.entries[w].index = k /\ l.max_official_index = n
      BY <1>5, <1>8, <2>2
    <2> QED
      BY <1>3, <1>5, <2>2, <2>3 DEF Index
  <1> QED
    BY <1>7, <1>8 DEF l

(* merge_custom: a loader stays one, known words keep their entries, the   *)
(* indices up to max_official_index keep their words.                      *)
LEMMA MergesKeepTheKnown ==
    ASSUME NEW l \in Loader, NEW S \in SUBSET Word, NEW m \in MergeCustom(l, S)
    PROVE  /\ m \in Loader
           /\ m.max_official_index = l.max_official_index
           /\ \A w \in Words(l) : m.entries[w] = l.entries[w]
           /\ \A w \in Word \ Words(l) :
                 m.entries[w] = NoEntry \/ m.entries[w].source = "Custom"
           /\ \A i \in Index : i <= l.max_official_index => m.index_map[i] = l.index_map[i]
  <1> USE DictAssumption
  <1> DEFINE new == New(l, S)
  <1>1. PICK q \in Orders(new) : m = MergeInOrder(l, q)
    BY DEF MergeCustom
  <1>2. new \subseteq Word /\ IsFiniteSet(new) /\ \A w \in new : w \notin Words(l)
    BY FS_Subset DEF New
  <1>3. Cardinality(new) \in Nat /\ q \in [1..Cardinality(new) -> new]
    BY <1>1, <1>2, FS_CardinalityType DEF Orders
  <1>4. /\ Start(l) \in Nat /\ Room(l) \in Nat /\ Start(l) + Room(l) = Limit
        /\ Start(l) = l.max_official_index + 1
        /\ l.max_official_index \in 0..(Limit - 1)
    BY DEF Loader, Start, Room
  <1> DEFINE n == Smaller(Len(q), Room(l))
  <1>5. n \in Nat /\ n <= Room(l) /\ \A j \in 1..n : q[j] \in new
    BY <1>3, <1>4 DEF Smaller
  <1>6. /\ m = [entries |-> m.entries, index_map |-> m.index_map,
                max_official_index |-> l.max_official_index]
        /\ m.entries = [w \in Word |-> m.entries[w]]
        /\ m.index_map = [i \in Index |-> IF i - Start(l) + 1 \in 1..n
                                          THEN q[i - Start(l) + 1] ELSE l.index_map[i]]
    BY <1>1 DEF MergeInOrder, Loader
  <1>7. ASSUME NEW w \in Word
        PROVE  \/ m.entries[w] = l.entries[w]
               \/ \E j \in 1..n :
                     /\ q[j] = w
                     /\ m.entries[w] = [index |-> Start(l) - 1 + j, source |-> "Custom"]
    <2> DEFINE Place == CHOOSE j \in 1..n : q[j] = w
    <2>1. m.entries[w] = IF \E j \in 1..n : q[j] = w
                         THEN [index |-> Start(l) - 1 + Place, source |-> "Custom"]
                         ELSE l.entries[w]
      BY <1>1 DEF MergeInOrder, Loader
    <2> HIDE DEF n
    <2>2. CASE \E j \in 1..n : q[j] = w
      <3>1. Place \in 1..n /\ q[Place] = w
        BY <2>2
      <3> HIDE DEF Place
      <3> QED
        BY <2>1, <2>2, <3>1
    <2> QED
      BY <2>1, <2>2
  <1> HIDE DEF n, new
  <1>8. m \in Loader
    <2>1. \A w \in Word : m.entries[w] \in [index : 0..(Limit - 1),
                                           source : {"Official", "Custom", "None"}]
      <3> TAKE w \in Word
      <3>1. CASE m.entries[w] = l.entries[w]
        BY <3>1 DEF Loader, Entry
      <3>2. CASE m.entries[w] # l.entries[w]
        <4>1. PICK j \in 1..n : m.entries[w] = [index |-> Start(l) - 1 + j, source |-> "Custom"]
          BY <1>7, <3>2
        <4>2. Start(l) - 1 + j \in 0..(Limit - 1)
          BY <1>4, <1>5
        <4> QED
          BY <4>1, <4>2
      <3> QED
        BY <3>1, <3>2
    <2>2. \A i \in Index : m.index_map[i] \in Word \cup {NoWord}
      BY <1>2, <1>5, <1>6 DEF Loader
    <2> QED
      BY <1>4, <1>6, <2>1, <2>2 DEF Loader, Entry
  <1>9. \A w \in Words(l) : m.entries[w] = l.entries[w]
    BY <1>2, <1>5, <1>7 DEF Words
  <1>10. ASSUME NEW w \in Word \ Words(l)
         PROVE  m.entries[w] = NoEntry \/ m.entries[w].source = "Custom"
    <2>1. w \in Word /\ l.entries[w] = NoEntry
      BY DEF Words
    <2>2. CASE m.entries[w] # l.entries[w]
      <3>1. PICK j \in 1..n : m.entries[w] = [index |-> Start(l) - 1 + j, source |-> "Custom"]
        BY <1>7, <2>1, <2>2
      <3> QED
        BY <3>1
    <2> QED
      BY <2>1, <2>2
  <1>11. \A i \in Index : i <= l.max_official_index => m.index_map[i] = l.index_map[i]
    BY <1>4, <1>5, <1>6 DEF Index
  <1> QED
    BY <1>6, <1>8, <1>9, <1>10, <1>11

(* Every call of one loader keeps the invariant.                           *)
LEMMA LoaderKeepsInv ==
    ASSUME LoaderInv, [LoaderNext]_loader
    PROVE  LoaderInv'
  <1>1. ASSUME NEW file \in Files, load_from_json_official(file)
        PROVE  LoaderInv'
    BY <1>1, OfficialLoads DEF load_from_json_official, LoaderInv, LoaderTypeOK, Decodes
  <1>2. ASSUME NEW S \in SUBSET Word, merge_custom(S)
        PROVE  LoaderInv'
    <2>1. loader \in Loader /\ loader' \in MergeCustom(loader, S)
      BY <1>2 DEF LoaderInv, LoaderTypeOK, merge_custom
    <2>2. loader' \in Loader /\ loader'.max_official_index = loader.max_official_index
      BY <2>1, MergesKeepTheKnown
    <2>3. ASSUME loader'.max_official_index # 0,
                 NEW w \in Word, loader'.entries[w].source = "Official"
          PROVE  /\ loader'.entries[w].index \in 1..loader'.max_official_index
                 /\ loader'.index_map[loader'.entries[w].index] = w
      <3>1. w \in Words(loader)
        <4> SUFFICES ASSUME w \notin Words(loader)
                     PROVE  FALSE
          OBVIOUS
        <4>1. loader'.entries[w] = NoEntry \/ loader'.entries[w].source = "Custom"
          BY <2>1, MergesKeepTheKnown
        <4> QED
          BY <2>3, <4>1 DEF NoEntry
      <3>2. loader'.entries[w] = loader.entries[w]
        BY <2>1, <3>1, MergesKeepTheKnown
      <3> DEFINE i == loader.entries[w].index
      <3>3. i \in 1..loader.max_official_index /\ loader.index_map[i] = w
        BY <2>2, <2>3, <3>2 DEF LoaderInv, Decodes
      <3>4. i \in Index /\ i <= loader.max_official_index
        BY <2>1, <3>3, DictAssumption DEF Loader, Index
      <3> HIDE DEF i
      <3>5. loader'.index_map[i] = loader.index_map[i]
        BY <2>1, <3>4, MergesKeepTheKnown
      <3> QED
        BY <2>2, <3>2, <3>3, <3>5 DEF i
    <2> QED
      BY <2>2, <2>3 DEF LoaderInv, LoaderTypeOK, Decodes
  <1>3. CASE UNCHANGED loader
    BY <1>3 DEF LoaderInv, LoaderTypeOK, Decodes
  <1> QED
    BY <1>1, <1>2, <1>3 DEF LoaderNext

LEMMA LoaderBegins == LoaderInit => LoaderInv
  <1>1. NewLoader \in Loader /\ NewLoader.max_official_index = 0
    BY DictAssumption DEF NewLoader, Loader, Entry, NoEntry
  <1> QED
    BY <1>1 DEF LoaderInit, LoaderInv, LoaderTypeOK

(* The index of an official word lies below those a merge gives out.       *)
THEOREM LoaderInvariant == LoaderSpec => []LoaderInv
  BY LoaderBegins, LoaderKeepsInv, PTL DEF LoaderSpec

(* Custom and official indices do not collide (dict/loader.rs), for any    *)
(* words, files and order of merging, unless a file has overflowed.        *)
THEOREM OfficialsAlwaysDecode == LoaderSpec => []OfficialDecodes
  <1>1. LoaderInv => OfficialDecodes
    BY DEF LoaderInv, OfficialDecodes
  <1> QED
    BY <1>1, LoaderInvariant, PTL

------------------------------------------------------------------------------
(* The manager: official words keep the entry their registration left.     *)
ManagerInv == ManagerTypeOK /\ OfficialWordsKept

LEMMA TemporaryLoader ==
    ASSUME NEW S \in SUBSET Word
    PROVE  LoadTemporary(S) \in Loader
  BY DictAssumption DEF LoadTemporary, NewLoader, Loader, Entry, NoEntry

LEMMA NoLoaderHasNoWords == NoLoader \in Loader /\ \A w \in Word : NoLoader.entries[w] = NoEntry
  BY DictAssumption DEF NoLoader, NewLoader, Loader, Entry, NoEntry

LEMMA RegistrationsKeepInv ==
    ASSUME ManagerInv, NEW l \in Lang, NEW S \in SUBSET Word,
           RegisterOfficial(l, S) \/ RegisterCustom(l, S)
    PROVE  ManagerInv'
  <1>1. CASE RegisterOfficial(l, S)
    <2>1. /\ loaders' = [loaders EXCEPT ![l] = LoadTemporary(S)]
          /\ official' = [official EXCEPT ![l] = LoadTemporary(S).entries]
          /\ active_custom_ids' = active_custom_ids
      BY <1>1 DEF RegisterOfficial
    <2>2. LoadTemporary(S) \in Loader /\ LoadTemporary(S).entries \in [Word -> Entry]
      BY TemporaryLoader DEF Loader
    <2> QED
      BY <2>1, <2>2 DEF ManagerInv, ManagerTypeOK, OfficialWordsKept
  <1>2. CASE RegisterCustom(l, S)
    <2>1. PICK merged \in IF loaders[l] = NoLoader THEN {LoadTemporary(S)}
                          ELSE MergeCustom(loaders[l], S) :
              loaders' = [loaders EXCEPT ![l] = merged]
      BY <1>2 DEF RegisterCustom
    <2>2. loaders[l] \in Loader /\ official' = official
      BY <1>2 DEF ManagerInv, ManagerTypeOK, RegisterCustom
    <2>3. merged \in Loader
      BY <2>1, <2>2, TemporaryLoader, MergesKeepTheKnown
    <2>4. ASSUME NEW w \in Word, official[l][w] # NoEntry
          PROVE  merged.entries[w] = official[l][w]
      <3>1. loaders[l].entries[w] = official[l][w]
        BY <2>4 DEF ManagerInv, OfficialWordsKept
      <3>2. merged \in MergeCustom(loaders[l], S)
        BY <2>1, <2>4, <3>1, NoLoaderHasNoWords
      <3>3. w \in Words(loaders[l])
        BY <2>4, <3>1 DEF Words
      <3> QED
        BY <2>2, <3>1, <3>2, <3>3, MergesKeepTheKnown
    <2>5. OfficialWordsKept'
      BY <2>1, <2>2, <2>4 DEF ManagerInv, ManagerTypeOK, OfficialWordsKept
    <2>6. active_custom_ids' \in Seq(Lang) /\ Len(active_custom_ids') <= MaxCustom
      BY <1>2, GlobalAssumption, AppendProperties, LenProperties
         DEF ManagerInv, ManagerTypeOK, RegisterCustom, ListCustom, ListFull
    <2>7. ManagerTypeOK'
      BY <2>1, <2>2, <2>3, <2>6 DEF ManagerInv, ManagerTypeOK
    <2> QED
      BY <2>5, <2>7 DEF ManagerInv
  <1> QED
    BY <1>1, <1>2

LEMMA UnloadKeepsInv ==
    ASSUME ManagerInv, NEW i \in FirstIds, unload_custom_dict(i)
    PROVE  ManagerInv'
  <1> DEFINE n == Len(active_custom_ids) - 1
             at(j) == active_custom_ids[IF j < i THEN j ELSE j + 1]
  <1>1. /\ active_custom_ids \in Seq(Lang) /\ Len(active_custom_ids) \in Nat
        /\ i \in 1..Len(active_custom_ids)
        /\ active_custom_ids \in [1..Len(active_custom_ids) -> Lang]
    BY LenProperties DEF ManagerInv, ManagerTypeOK, FirstIds
  <1>2. n \in Nat /\ \A j \in 1..n : at(j) \in Lang
    BY <1>1
  <1>3. active_custom_ids' = [j \in 1..n |-> at(j)]
    BY DEF unload_custom_dict
  <1>4. active_custom_ids' \in Seq(Lang) /\ Len(active_custom_ids') = n
    <2> HIDE DEF n, at
    <2> QED
      BY <1>2, <1>3
  <1>5. ManagerTypeOK'
    BY <1>1, <1>4, GlobalAssumption DEF ManagerInv, ManagerTypeOK, unload_custom_dict
  <1> QED
    BY <1>5 DEF ManagerInv, OfficialWordsKept, unload_custom_dict

LEMMA ManagerBegins == ManagerInit => ManagerInv
  <1>1. /\ NewLoader.entries = [w \in Word |-> NoEntry]
        /\ NewLoader.entries \in [Word -> Entry]
    BY DictAssumption DEF NewLoader, NoEntry, Entry
  <1>2. << >> \in Seq(Lang) /\ Len(<< >>) = 0
    BY EmptySeq
  <1> QED
    BY <1>1, <1>2, NoLoaderHasNoWords, GlobalAssumption
       DEF ManagerInit, ManagerInv, ManagerTypeOK, OfficialWordsKept

LEMMA ManagerKeepsInv == ManagerInv /\ [ManagerNext]_managerVars => ManagerInv'
  <1>1. ManagerInv /\ UNCHANGED managerVars => ManagerInv'
    BY DEF managerVars, ManagerInv, ManagerTypeOK, OfficialWordsKept
  <1> QED
    BY <1>1, RegistrationsKeepInv, UnloadKeepsInv DEF ManagerNext

(* Official words keep their entries, the manager's maps their types.      *)
THEOREM ManagerInvariant == ManagerSpec => []ManagerInv
  BY ManagerBegins, ManagerKeepsInv, PTL DEF ManagerSpec

(* No registration, removal or merge (dict/mod.rs) changes the entry an    *)
(* official registration left, for any languages, words and number of      *)
(* dictionaries.                                                           *)
THEOREM OfficialWordsAlwaysKept == ManagerSpec => []OfficialWordsKept
  <1>1. ManagerInv => OfficialWordsKept
    BY DEF ManagerInv
  <1> QED
    BY <1>1, ManagerInvariant, PTL

------------------------------------------------------------------------------
(* In a plain session the indices from next_dynamic_index on are free, and *)
(* the index of a word leads back to it unless another static entry was    *)
(* given the same index.                                                   *)
FreeFromNext ==
    /\ next_dynamic_index >= FirstDynamic
    /\ \A i \in TagIndex : i >= next_dynamic_index => index_to_word[i] = NoTag

IndicesLeadBack ==
    \A w \in Tag : HasIndex(w) =>
        \/ index_to_word[word_to_index[w]] = w
        \/ ClaimedByAnother(w, word_to_index[w])

SessionInv ==
    /\ SessionTypeOK
    /\ plain => FreeFromNext /\ IndicesLeadBack /\ SentDecodes

LEMMA SessionBegins == SessionInit => SessionInv
  <1> SUFFICES ASSUME SessionInit
               PROVE  SessionInv
    OBVIOUS
  <1> USE SessionAssumption
  <1>1. ASSUME NEW list \in Seq(Tag), FirstDynamic + Len(list) <= Indices, StartedWith(list)
        PROVE  /\ word_to_index \in [Tag -> TagIndex \cup {NoIndex}]
               /\ index_to_word \in [TagIndex -> Tag \cup {NoTag}]
    <2>1. Len(list) \in Nat /\ DOMAIN list = 1..Len(list) /\ list \in [1..Len(list) -> Tag]
      BY LenProperties
    <2>2. ASSUME NEW w \in Tag, \E i \in DOMAIN list : list[i] = w
          PROVE  FirstDynamic - 1 + (CHOOSE i \in DOMAIN list : list[i] = w) \in TagIndex
      <3> DEFINE i == CHOOSE i \in DOMAIN list : list[i] = w
      <3>1. i \in DOMAIN list
        BY <2>2
      <3> HIDE DEF i
      <3> QED
        BY <1>1, <2>1, <3>1 DEF TagIndex, i
    <2>3. \A i \in TagIndex : i - FirstDynamic + 1 \in DOMAIN list
                                => list[i - FirstDynamic + 1] \in Tag
      BY <2>1
    <2> QED
      BY <1>1, <2>2, <2>3 DEF StartedWith
  <1>2. SessionTypeOK
    <2>1. << >> \in Seq(Tag) /\ Len(<< >>) = 0
      BY EmptySeq
    <2>2. /\ word_to_index \in [Tag -> TagIndex \cup {NoIndex}]
          /\ index_to_word \in [TagIndex -> Tag \cup {NoTag}]
      <3>1. CASE StartedWith(<< >>)
        <4>1. FirstDynamic + Len(<< >>) <= Indices
          BY <2>1
        <4> QED
          BY <1>1, <2>1, <3>1, <4>1, Zenon
      <3>2. CASE StartedWith(Frequent)
        BY <1>1, <3>2
      <3> QED
        BY <3>1, <3>2 DEF SessionInit
    <2>3. FirstDynamic \in TagIndex /\ 0 \in 0..Threshold
      BY DEF TagIndex
    <2>4. plain \in BOOLEAN
      BY DEF SessionInit
    <2> QED
      BY <2>2, <2>3, <2>4 DEF SessionInit, SessionTypeOK
  <1>3. ASSUME plain
        PROVE  FreeFromNext /\ IndicesLeadBack /\ SentDecodes
    <2>1. StartedWith(<< >>) /\ next_dynamic_index = FirstDynamic /\ sent = {}
      BY <1>3 DEF SessionInit
    <2>2. DOMAIN << >> = {}
      OBVIOUS
    <2>3. \A i \in TagIndex : index_to_word[i] = NoTag
      BY <2>1, <2>2 DEF StartedWith
    <2>4. \A w \in Tag : ~HasIndex(w)
      BY <2>1, <2>2 DEF StartedWith, HasIndex
    <2> QED
      BY <2>1, <2>3, <2>4
         DEF FreeFromNext, IndicesLeadBack, SentDecodes
  <1> QED
    BY <1>2, <1>3 DEF SessionInv

(* A word gets the next index, which no word has had.                      *)
LEMMA PromotionKeepsInv ==
    ASSUME SessionInv, NEW w \in Tag, Promote(w)
    PROVE  SessionInv'
  <1> USE SessionAssumption
  <1> DEFINE next == next_dynamic_index
  <1>1. /\ next \in TagIndex /\ next + 1 \in Nat
        /\ next_dynamic_index' = (next + 1) % Indices
        /\ word_to_index' = [word_to_index EXCEPT ![w] = next]
        /\ index_to_word' = [index_to_word EXCEPT ![next] = w]
        /\ sent' = sent \cup {<<w, next>>}
        /\ plain' = (plain /\ next + 1 < Indices)
    BY DEF SessionInv, SessionTypeOK, TagIndex, Promote, Assign, Advance
  <1>2. SessionTypeOK'
    <2>1. (next + 1) % Indices \in TagIndex
      BY <1>1 DEF TagIndex
    <2>2. usage_stats' \in [Tag -> 0..Threshold]
      BY DEF SessionInv, SessionTypeOK, Promote, Used
    <2>3. plain' \in BOOLEAN
      BY <1>1
    <2>4. sent' \subseteq Tag \X TagIndex
      BY <1>1 DEF SessionInv, SessionTypeOK
    <2>5. /\ word_to_index' \in [Tag -> TagIndex \cup {NoIndex}]
          /\ index_to_word' \in [TagIndex -> Tag \cup {NoTag}]
      BY <1>1 DEF SessionInv, SessionTypeOK
    <2> QED
      BY <1>1, <2>1, <2>2, <2>3, <2>4, <2>5 DEF SessionTypeOK
  <1>3. ASSUME plain'
        PROVE  (FreeFromNext /\ IndicesLeadBack /\ SentDecodes)'
    <2>1. plain /\ next + 1 < Indices
      BY <1>1, <1>3
    <2>2. next_dynamic_index' = next + 1
      <3>1. \A a, b \in Nat : a < b => a % b = a
        OBVIOUS
      <3> QED
        BY <1>1, <2>1, <3>1
    <2>3. FreeFromNext /\ IndicesLeadBack /\ SentDecodes /\ SessionTypeOK
      BY <2>1 DEF SessionInv
    <2>4. index_to_word[next] = NoTag /\ NoTag \notin Tag
      BY <1>1, <2>3 DEF FreeFromNext, TagIndex
    <2>5. FreeFromNext'
      BY <1>1, <2>2, <2>3 DEF FreeFromNext, SessionTypeOK, TagIndex
    <2>6. \A v \in Tag : ~ClaimedByAnother(v, next)
      BY <1>1, <2>3 DEF ClaimedByAnother, FreeFromNext, TagIndex
    <2>7. ASSUME NEW v \in Tag, NEW j \in TagIndex,
                 index_to_word[j] = v \/ ClaimedByAnother(v, j)
          PROVE  index_to_word'[j] = v \/ ClaimedByAnother(v, j)
      <3>1. j # next
        BY <2>4, <2>6, <2>7
      <3> QED
        BY <1>1, <2>3, <2>7, <3>1 DEF SessionTypeOK
    <2>8. IndicesLeadBack'
      <3> SUFFICES ASSUME NEW v \in Tag, HasIndex(v)'
                   PROVE  \/ index_to_word'[word_to_index'[v]] = v
                          \/ ClaimedByAnother(v, word_to_index'[v])
        BY DEF IndicesLeadBack, ClaimedByAnother
      <3>1. CASE v = w
        BY <1>1, <2>3, <3>1 DEF SessionTypeOK
      <3>2. CASE v # w
        <4>1. word_to_index'[v] = word_to_index[v] /\ word_to_index[v] \in TagIndex
          BY <1>1, <2>3, <3>2 DEF SessionTypeOK, HasIndex
        <4>2. index_to_word[word_to_index[v]] = v \/ ClaimedByAnother(v, word_to_index[v])
          BY <2>3, <4>1 DEF IndicesLeadBack, HasIndex
        <4> QED
          BY <2>7, <4>1, <4>2
      <3> QED
        BY <3>1, <3>2
    <2>9. SentDecodes'
      <3> SUFFICES ASSUME NEW e \in sent'
                   PROVE  index_to_word'[e[2]] = e[1] \/ ClaimedByAnother(e[1], e[2])
        BY DEF SentDecodes, ClaimedByAnother
      <3>1. CASE e \in sent
        BY <2>1, <2>3, <2>7, <3>1 DEF SentDecodes, SessionTypeOK
      <3>2. CASE e = <<w, next>>
        BY <1>1, <2>3, <3>2 DEF SessionTypeOK
      <3> QED
        BY <1>1, <3>1, <3>2
    <2> QED
      BY <2>5, <2>8, <2>9
  <1> QED
    BY <1>2, <1>3 DEF SessionInv

(* A static entry takes its index from the words another static entry      *)
(* claims it from, and from no promoted one.                               *)
LEMMA PreloadKeepsInv ==
    ASSUME SessionInv, NEW e \in Static, Preload(e[1], e[2])
    PROVE  SessionInv'
  <1> USE SessionAssumption
  <1>1. PICK w \in Tag, i \in TagIndex : e = <<w, i>>
    BY DEF TagIndex
  <1>2. /\ ~HasIndex(w) /\ i < FirstDynamic
        /\ word_to_index' = [word_to_index EXCEPT ![w] = i]
        /\ index_to_word' = [index_to_word EXCEPT ![i] = w]
        /\ UNCHANGED <<usage_stats, next_dynamic_index, sent, plain>>
    BY <1>1 DEF Preload, Preloadable, Assign
  <1>3. SessionTypeOK'
    BY <1>2 DEF SessionInv, SessionTypeOK
  <1>4. ASSUME plain
        PROVE  (FreeFromNext /\ IndicesLeadBack /\ SentDecodes)'
    <2>1. FreeFromNext /\ IndicesLeadBack /\ SentDecodes /\ SessionTypeOK
      BY <1>4 DEF SessionInv
    <2>2. \A v \in Tag : v # w => ClaimedByAnother(v, i)
      BY <1>1, <1>2 DEF ClaimedByAnother
    <2>3. \A j \in TagIndex : index_to_word'[j] = IF j = i THEN w ELSE index_to_word[j]
      BY <1>2, <2>1 DEF SessionTypeOK
    <2>4. FreeFromNext'
      BY <1>2, <2>1, <2>3 DEF FreeFromNext, SessionTypeOK, TagIndex
    <2>5. ASSUME NEW v \in Tag, NEW j \in TagIndex,
                 index_to_word[j] = v \/ ClaimedByAnother(v, j)
          PROVE  index_to_word'[j] = v \/ ClaimedByAnother(v, j)
      BY <2>2, <2>3, <2>5
    <2>6. IndicesLeadBack'
      <3> SUFFICES ASSUME NEW v \in Tag, HasIndex(v)'
                   PROVE  \/ index_to_word'[word_to_index'[v]] = v
                          \/ ClaimedByAnother(v, word_to_index'[v])
        BY DEF IndicesLeadBack, ClaimedByAnother
      <3>1. CASE v = w
        BY <1>2, <2>1, <2>3, <3>1 DEF SessionTypeOK
      <3>2. CASE v # w
        <4>1. word_to_index'[v] = word_to_index[v] /\ word_to_index[v] \in TagIndex
          BY <1>2, <2>1, <3>2 DEF SessionTypeOK, HasIndex
        <4>2. index_to_word[word_to_index[v]] = v \/ ClaimedByAnother(v, word_to_index[v])
          BY <2>1, <4>1 DEF IndicesLeadBack, HasIndex
        <4> QED
          BY <2>5, <4>1, <4>2
      <3> QED
        BY <3>1, <3>2
    <2>7. SentDecodes'
      <3> SUFFICES ASSUME NEW d \in sent
                   PROVE  index_to_word'[d[2]] = d[1] \/ ClaimedByAnother(d[1], d[2])
        BY <1>2 DEF SentDecodes, ClaimedByAnother
      <3>1. d[1] \in Tag /\ d[2] \in TagIndex
        BY <2>1 DEF SessionTypeOK
      <3> QED
        BY <1>4, <2>1, <2>5, <3>1 DEF SentDecodes
    <2> QED
      BY <1>2, <2>4, <2>6, <2>7
  <1> QED
    BY <1>2, <1>3, <1>4 DEF SessionInv

(* Uses that promote nothing; an import ends what the property is about.   *)
LEMMA OtherUsesKeepInv ==
    ASSUME SessionInv,
           \/ \E w \in Tag : CompressKnown(w) \/ CompressText(w)
           \/ \E e \in Foreign : Import(e[1], e[2])
           \/ UNCHANGED sessionVars
    PROVE  SessionInv'
  <1> USE SessionAssumption
          DEF SessionInv, SessionTypeOK, FreeFromNext, IndicesLeadBack,
              SentDecodes, HasIndex, ClaimedByAnother
  <1>1. ASSUME NEW w \in Tag, CompressKnown(w)
        PROVE  SessionInv'
    <2>1. word_to_index[w] \in TagIndex
      BY <1>1 DEF CompressKnown
    <2>2. usage_stats' \in [Tag -> 0..Threshold]
      BY <1>1 DEF CompressKnown, Used
    <2> QED
      BY <1>1, <2>1, <2>2 DEF CompressKnown
  <1>2. ASSUME NEW w \in Tag, CompressText(w)
        PROVE  SessionInv'
    <2>1. usage_stats' \in [Tag -> 0..Threshold]
      BY <1>2 DEF CompressText, Used
    <2> QED
      BY <1>2, <2>1 DEF CompressText
  <1>3. ASSUME NEW e \in Foreign, Import(e[1], e[2])
        PROVE  SessionInv'
    <2>1. e[1] \in TagIndex /\ e[2] \in Tag /\ ~plain'
      BY <1>3 DEF TagIndex, Import
    <2> QED
      BY <1>3, <2>1 DEF Import, Assign
  <1>4. CASE UNCHANGED sessionVars
    BY <1>4 DEF sessionVars
  <1> QED
    BY <1>1, <1>2, <1>3, <1>4

LEMMA SessionKeepsInv == SessionInv /\ [SessionNext]_sessionVars => SessionInv'
  BY PromotionKeepsInv, PreloadKeepsInv, OtherUsesKeepInv DEF SessionNext

(* Free indices, and words whose index leads back.                         *)
THEOREM SessionInvariant == SessionSpec => []SessionInv
  BY SessionBegins, SessionKeepsInv, PTL DEF SessionSpec

(* What a session sends as an index (dict/compressor.rs) stays the word it *)
(* stood for, for any words, thresholds and lists of static entries, the   *)
(* indices two of these entries claim excepted.                            *)
THEOREM SentAlwaysDecodes == SessionSpec => []SentDecodes
  <1>1. SessionInv => SentDecodes
    BY DEF SessionInv, SentDecodes
  <1> QED
    BY <1>1, SessionInvariant, PTL

------------------------------------------------------------------------------
(* The loader, the maps of the manager and those of a session (dict/) stay *)
(* of their types, whichever of the three a behaviour is about.            *)
THEOREM DictionaryTypeCorrect == Spec => []TypeOK
  <1> DEFINE PartsInv == LoaderInv /\ ManagerInv /\ SessionInv
             PartsNext == [Next]_<<part, loader, managerVars, sessionVars>>
  <1>1. Init => PartsInv
    BY LoaderBegins, ManagerBegins, SessionBegins DEF Init
  <1>2. PartsInv /\ PartsNext => PartsInv'
    <2>1. PartsNext =>
              [LoaderNext]_loader /\ [ManagerNext]_managerVars /\ [SessionNext]_sessionVars
      BY DEF Next
    <2> HIDE DEF PartsNext
    <2> QED
      BY <2>1, LoaderKeepsInv, ManagerKeepsInv, SessionKeepsInv
  <1>3. PartsInv => TypeOK
    BY DEF LoaderInv, ManagerInv, SessionInv, TypeOK
  <1> QED
    BY <1>1, <1>2, <1>3, PTL DEF Spec

==============================================================================
