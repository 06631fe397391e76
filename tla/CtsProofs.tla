----------------------------- MODULE CtsProofs -------------------------------
(***************************************************************************)
(* The text of tags (dict/cts_parser.rs) for words of any length, and the  *)
(* content of transactions (chain/transaction.rs, chain/consensus.rs) for  *)
(* any blobs.                                                              *)
(*                                                                         *)
(* The parser and the writer are loops over a list, here functions of the  *)
(* number of elements read.  The lemmas say what one more element does,    *)
(* and the invariant of the loop is proved by induction over the text.     *)
(***************************************************************************)
EXTENDS Transactions, WellFoundedInduction, SequenceTheorems, TLAPS

(* Induction, for a set instead of a predicate.                            *)
LEMMA SetInduction ==
    ASSUME NEW S, 0 \in S, \A n \in Nat : n \in S => n + 1 \in S
    PROVE  Nat \subseteq S
  <1> SUFFICES ASSUME Nat \ S # {}
               PROVE  FALSE
    OBVIOUS
  <1> DEFINE T == Nat \ S
  <1>1. T \subseteq Nat /\ T # {}
    OBVIOUS
  <1>2. PICK n \in T : \A k \in T : ~(<<k, n>> \in OpToRel(<, Nat))
    <2> HIDE DEF T
    <2> QED
      BY <1>1, NatLessThanWellFounded, WFMin, Zenon
  <1>3. \A k \in T : ~(k < n)
    BY <1>1, <1>2, Zenon DEF OpToRel
  <1>4. n \in Nat /\ n # 0 /\ n - 1 \in Nat /\ n - 1 < n
    OBVIOUS
  <1>5. n - 1 \in S
    BY <1>3, <1>4
  <1> QED
    BY <1>4, <1>5

(* Induction over lists.                                                   *)
LEMMA SeqInduction ==
    ASSUME NEW X, NEW T, << >> \in T, \A s \in Seq(X), x \in X : s \in T => Append(s, x) \in T
    PROVE  Seq(X) \subseteq T
  <1> DEFINE S == {n \in Nat : \A s \in Seq(X) : Len(s) = n => s \in T}
  <1>1. 0 \in S
    <2>1. \A s \in Seq(X) : Len(s) = 0 => s = << >>
      BY EmptySeq
    <2> QED
      BY <2>1
  <1>2. ASSUME NEW n \in Nat, n \in S
        PROVE  n + 1 \in S
    <2> SUFFICES ASSUME NEW s \in Seq(X), Len(s) = n + 1
                 PROVE  s \in T
      OBVIOUS
    <2>1. s # << >>
      OBVIOUS
    <2>2. PICK f \in Seq(X), x \in X : s = Append(f, x)
      BY <2>1, SequenceEmptyOrAppend
    <2>3. Len(f) = n
      BY <2>2
    <2> QED
      BY <1>2, <2>2, <2>3
  <1> HIDE DEF S
  <1>3. Nat \subseteq S
    BY <1>1, <1>2, SetInduction
  <1>4. ASSUME NEW s \in Seq(X)
        PROVE  s \in T
    <2>1. Len(s) \in S
      BY <1>3
    <2> QED
      BY <2>1 DEF S
  <1> QED
    BY <1>4

------------------------------------------------------------------------------
(* The parser's loop and serialize_cts, one element after the other.       *)
Reads(parser, input) ==
    parser = [n \in 0..Len(input) |->
                 IF n = 0 THEN ParserStart ELSE ReadChar(parser[n - 1], input[n])]

LEMMA ReadsExist ==
    ASSUME NEW X
    PROVE  \A input \in Seq(X) : \E parser : Reads(parser, input)
  <1> DEFINE T == {input \in Seq(X) : \E parser : Reads(parser, input)}
  <1>1. << >> \in T
    <2> DEFINE p == [n \in 0..0 |-> ParserStart]
    <2>1. Reads(p, << >>)
      BY DEF Reads
    <2> QED
      BY <2>1
  <1>2. ASSUME NEW s \in Seq(X), NEW x \in X, s \in T
        PROVE  Append(s, x) \in T
    <2>1. PICK p : Reads(p, s)
      BY <1>2
    <2> DEFINE t == Append(s, x)
               q == [n \in 0..Len(t) |-> IF n <= Len(s) THEN p[n] ELSE ReadChar(p[n - 1], x)]
    <2>2. /\ t \in Seq(X) /\ Len(t) = Len(s) + 1 /\ Len(s) \in Nat
          /\ \A n \in 1..Len(s) : t[n] = s[n]
          /\ t[Len(t)] = x
      OBVIOUS
    <2> HIDE DEF t
    <2>3. ASSUME NEW n \in 0..Len(t)
          PROVE  q[n] = IF n = 0 THEN ParserStart ELSE ReadChar(q[n - 1], t[n])
      <3>1. CASE n = 0
        BY <2>1, <2>2, <3>1 DEF Reads
      <3>2. CASE n \in 1..Len(s)
        <4>1. q[n] = p[n] /\ q[n - 1] = p[n - 1]
          BY <2>2, <3>2
        <4>2. p[n] = ReadChar(p[n - 1], s[n])
          BY <2>1, <2>2, <3>2 DEF Reads
        <4> QED
          BY <2>2, <3>2, <4>1, <4>2
      <3>3. CASE n = Len(t)
        <4>1. q[n] = ReadChar(p[n - 1], x) /\ q[n - 1] = p[n - 1] /\ n # 0
          BY <2>2, <3>3
        <4> QED
          BY <2>2, <3>3, <4>1
      <3> QED
        BY <2>2, <3>1, <3>2, <3>3
    <2>4. Reads(q, t)
      BY <2>3 DEF Reads
    <2> HIDE DEF q
    <2> QED
      BY <2>2, <2>4 DEF t
  <1> HIDE DEF T
  <1>3. Seq(X) \subseteq T
    BY <1>1, <1>2, SeqInduction
  <1> QED
    BY <1>3 DEF T

LEMMA ReadsUnfold ==
    ASSUME NEW X, NEW input \in Seq(X)
    PROVE  \E parser : Reads(parser, input) /\ ReadAll(input) = parser[Len(input)]
  <1>1. PICK p : Reads(p, input)
    BY ReadsExist
  <1> DEFINE c == CHOOSE parser : Reads(parser, input)
  <1>2. Reads(c, input)
    BY <1>1, Zenon
  <1>3. ReadAll(input) = c[Len(input)]
    BY DEF ReadAll, Reads
  <1> HIDE DEF c
  <1> QED
    BY <1>2, <1>3

LEMMA ReadAllEmpty == ReadAll(<< >>) = ParserStart
  <1>1. << >> \in Seq({}) /\ Len(<< >>) = 0
    OBVIOUS
  <1>2. PICK p : Reads(p, << >>) /\ ReadAll(<< >>) = p[Len(<< >>)]
    BY <1>1, ReadsUnfold
  <1> QED
    BY <1>1, <1>2 DEF Reads

LEMMA ReadAllAppend ==
    ASSUME NEW X, NEW s \in Seq(X), NEW x \in X
    PROVE  ReadAll(Append(s, x)) = ReadChar(ReadAll(s), x)
  <1> DEFINE t == Append(s, x)
  <1>1. /\ t \in Seq(X) /\ Len(t) = Len(s) + 1 /\ Len(s) \in Nat
        /\ \A n \in 1..Len(s) : t[n] = s[n]
        /\ t[Len(t)] = x
    OBVIOUS
  <1> HIDE DEF t
  <1>2. PICK p : Reads(p, s) /\ ReadAll(s) = p[Len(s)]
    BY ReadsUnfold
  <1>3. PICK q : Reads(q, t) /\ ReadAll(t) = q[Len(t)]
    BY <1>1, ReadsUnfold
  <1> DEFINE S == {n \in Nat : n <= Len(s) => q[n] = p[n]}
  <1>4. 0 \in S
    BY <1>1, <1>2, <1>3 DEF Reads
  <1>5. ASSUME NEW n \in Nat, n \in S
        PROVE  n + 1 \in S
    <2> SUFFICES ASSUME n + 1 <= Len(s)
                 PROVE  q[n + 1] = p[n + 1]
      OBVIOUS
    <2>1. q[n] = p[n] /\ n + 1 \in 1..Len(s) /\ n + 1 \in 0..Len(t) /\ (n + 1) - 1 = n
      BY <1>1, <1>5
    <2>2. q[n + 1] = ReadChar(q[n], t[n + 1])
      BY <1>3, <2>1 DEF Reads
    <2>3. p[n + 1] = ReadChar(p[n], s[n + 1])
      BY <1>2, <2>1 DEF Reads
    <2> QED
      BY <1>1, <2>1, <2>2, <2>3
  <1> HIDE DEF S
  <1>6. Nat \subseteq S
    BY <1>4, <1>5, SetInduction
  <1>7. q[Len(s)] = p[Len(s)]
    <2>1. Len(s) \in S
      BY <1>1, <1>6
    <2> QED
      BY <1>1, <2>1 DEF S
  <1>8. q[Len(t)] = ReadChar(q[Len(s)], x)
    <2>1. Len(t) \in 0..Len(t) /\ Len(t) # 0 /\ Len(t) - 1 = Len(s)
      BY <1>1
    <2> QED
      BY <1>1, <1>3, <2>1 DEF Reads
  <1> QED
    BY <1>2, <1>3, <1>7, <1>8 DEF t

Writes(out, tags) ==
    out = [n \in 0..Len(tags) |->
              IF n = 0 THEN << >> ELSE out[n - 1] \o Prefix(tags[n].status) \o tags[n].word]

LEMMA WritesExist ==
    ASSUME NEW X
    PROVE  \A tags \in Seq(X) : \E out : Writes(out, tags)
  <1> DEFINE T == {tags \in Seq(X) : \E out : Writes(out, tags)}
             More(sofar, tag) == sofar \o Prefix(tag.status) \o tag.word
  <1>1. << >> \in T
    <2> DEFINE p == [n \in 0..0 |-> << >>]
    <2>1. Writes(p, << >>)
      BY DEF Writes
    <2> QED
      BY <2>1
  <1>2. ASSUME NEW s \in Seq(X), NEW x \in X, s \in T
        PROVE  Append(s, x) \in T
    <2>1. PICK p : Writes(p, s)
      BY <1>2
    <2> DEFINE t == Append(s, x)
               q == [n \in 0..Len(t) |-> IF n <= Len(s) THEN p[n] ELSE More(p[n - 1], x)]
    <2>2. /\ t \in Seq(X) /\ Len(t) = Len(s) + 1 /\ Len(s) \in Nat
          /\ \A n \in 1..Len(s) : t[n] = s[n]
          /\ t[Len(t)] = x
      OBVIOUS
    <2>a. ASSUME NEW n \in 1..Len(s)
          PROVE  p[n] = More(p[n - 1], s[n])
      <3>1. n \in 0..Len(s) /\ n # 0
        BY <2>2
      <3> QED
        BY <2>1, <3>1, Zenon DEF Writes
    <2>b. p[0] = << >>
      BY <2>1, <2>2 DEF Writes
    <2> HIDE DEF t, More
    <2>3. ASSUME NEW n \in 0..Len(t)
          PROVE  q[n] = IF n = 0 THEN << >> ELSE More(q[n - 1], t[n])
      <3>1. CASE n = 0
        BY <2>b, <2>2, <3>1
      <3>2. CASE n \in 1..Len(s)
        <4>1. q[n] = p[n] /\ q[n - 1] = p[n - 1]
          BY <2>2, <3>2
        <4> QED
          BY <2>a, <2>2, <3>2, <4>1
      <3>3. CASE n = Len(t)
        <4>1. q[n] = More(p[n - 1], x) /\ q[n - 1] = p[n - 1] /\ n # 0
          BY <2>2, <3>3
        <4> QED
          BY <2>2, <3>3, <4>1
      <3> QED
        BY <2>2, <3>1, <3>2, <3>3
    <2>4. Writes(q, t)
      <3>1. q = [n \in 0..Len(t) |-> IF n = 0 THEN << >> ELSE More(q[n - 1], t[n])]
        BY <2>3
      <3> HIDE DEF q
      <3> QED
        BY <3>1 DEF Writes, More
    <2> HIDE DEF q
    <2> QED
      BY <2>2, <2>4 DEF t
  <1> HIDE DEF T
  <1>3. Seq(X) \subseteq T
    BY <1>1, <1>2, SeqInduction
  <1> QED
    BY <1>3 DEF T

LEMMA WritesUnfold ==
    ASSUME NEW X, NEW tags \in Seq(X)
    PROVE  \E out : Writes(out, tags) /\ serialize_cts(tags) = out[Len(tags)]
  <1>1. PICK p : Writes(p, tags)
    BY WritesExist
  <1> DEFINE c == CHOOSE out : Writes(out, tags)
  <1>2. Writes(c, tags)
    BY <1>1, Zenon
  <1>3. serialize_cts(tags) = c[Len(tags)]
    BY DEF serialize_cts, Writes
  <1> HIDE DEF c
  <1> QED
    BY <1>2, <1>3

LEMMA SerializeEmpty == serialize_cts(<< >>) = << >>
  <1>1. << >> \in Seq({}) /\ Len(<< >>) = 0
    OBVIOUS
  <1>2. PICK p : Writes(p, << >>) /\ serialize_cts(<< >>) = p[Len(<< >>)]
    BY <1>1, WritesUnfold
  <1> QED
    BY <1>1, <1>2 DEF Writes

(* What is written after each tag.                                         *)
LEMMA WritesOneByOne ==
    ASSUME NEW X, NEW tags \in Seq(X), NEW out, Writes(out, tags)
    PROVE  /\ out[0] = << >>
           /\ \A n \in 1..Len(tags) :
                  out[n] = out[n - 1] \o Prefix(tags[n].status) \o tags[n].word
  <1>1. Len(tags) \in Nat
    OBVIOUS
  <1>2. 0 \in 0..Len(tags) /\ \A n \in 1..Len(tags) : n \in 0..Len(tags) /\ n # 0
    BY <1>1
  <1>3. \A n \in 0..Len(tags) :
            out[n] = IF n = 0 THEN << >>
                     ELSE out[n - 1] \o Prefix(tags[n].status) \o tags[n].word
    BY Zenon DEF Writes
  <1> QED
    BY <1>2, <1>3, Zenon

LEMMA SerializeAppend ==
    ASSUME NEW X, NEW s \in Seq(X), NEW x \in X
    PROVE  serialize_cts(Append(s, x)) = serialize_cts(s) \o Prefix(x.status) \o x.word
  <1> DEFINE t == Append(s, x)
             More(sofar, tag) == sofar \o Prefix(tag.status) \o tag.word
  <1>1. /\ t \in Seq(X) /\ Len(t) = Len(s) + 1 /\ Len(s) \in Nat
        /\ \A n \in 1..Len(s) : t[n] = s[n]
        /\ t[Len(t)] = x
    OBVIOUS
  <1> HIDE DEF t
  <1>2. PICK p : Writes(p, s) /\ serialize_cts(s) = p[Len(s)]
    BY WritesUnfold
  <1>3. PICK q : Writes(q, t) /\ serialize_cts(t) = q[Len(t)]
    BY <1>1, WritesUnfold
  <1>a. /\ p[0] = << >> /\ q[0] = << >>
        /\ \A n \in 1..Len(s) : p[n] = More(p[n - 1], s[n])
        /\ \A n \in 1..Len(t) : q[n] = More(q[n - 1], t[n])
    BY <1>1, <1>2, <1>3, WritesOneByOne
  <1> HIDE DEF More
  <1> DEFINE S == {n \in Nat : n <= Len(s) => q[n] = p[n]}
  <1>4. 0 \in S
    BY <1>a
  <1>5. ASSUME NEW n \in Nat, n \in S
        PROVE  n + 1 \in S
    <2> SUFFICES ASSUME n + 1 <= Len(s)
                 PROVE  q[n + 1] = p[n + 1]
      OBVIOUS
    <2>1. q[n] = p[n] /\ n + 1 \in 1..Len(s) /\ n + 1 \in 1..Len(t) /\ (n + 1) - 1 = n
      BY <1>1, <1>5
    <2>2. q[n + 1] = More(q[n], t[n + 1])
      BY <1>a, <2>1
    <2>3. p[n + 1] = More(p[n], s[n + 1])
      BY <1>a, <2>1
    <2> QED
      BY <1>1, <2>1, <2>2, <2>3
  <1> HIDE DEF S
  <1>6. Nat \subseteq S
    BY <1>4, <1>5, SetInduction
  <1>7. q[Len(s)] = p[Len(s)]
    <2>1. Len(s) \in S
      BY <1>1, <1>6
    <2> QED
      BY <1>1, <2>1 DEF S
  <1>8. q[Len(t)] = More(q[Len(s)], x)
    <2>1. Len(t) \in 1..Len(t) /\ Len(t) - 1 = Len(s)
      BY <1>1
    <2> QED
      BY <1>1, <1>a, <2>1
  <1>9. serialize_cts(t) = More(serialize_cts(s), x)
    BY <1>2, <1>3, <1>7, <1>8
  <1> QED
    BY <1>9 DEF t, More

------------------------------------------------------------------------------
Char == Letter \cup Digit

Tag == [status : TagStatus, word : Seq(Char)]

CtsError == {NoError, "EmptyInput", "LimitingWithoutMediating", "SpaceInTag",
             "TrailingStatusChar", "AtLeastOnePositiveRequired", "TooManyTags"}

ParserState == [tags : Seq(Tag), word : Seq(Char), status : TagStatus, error : CtsError]

State(tags, word, status) ==
    [tags |-> tags, word |-> word, status |-> status, error |-> NoError]

LEMMA StartIsState ==
    /\ ParserStart \in ParserState /\ ParserStart = State(<< >>, << >>, "Positive")
  <1>1. << >> \in Seq(Tag) /\ << >> \in Seq(Char)
    OBVIOUS
  <1> QED
    BY <1>1 DEF ParserStart, ParserState, State, TagStatus, CtsError, NoError

LEMMA FailureIsState ==
    ASSUME NEW p \in ParserState, NEW e \in CtsError
    PROVE  Fails(p, e) \in ParserState /\ Fails(p, e).error = e
  BY DEF Fails, ParserState

LEMMA StatusOfDigit ==
    ASSUME NEW c \in Digit
    PROVE  StatusOf(c) \in TagStatus \ {"Positive"} /\ Prefix(StatusOf(c)) = <<c>>
  BY DEF Digit, StatusOf, TagStatus, Prefix

LEMMA PrefixIsText ==
    ASSUME NEW status \in TagStatus
    PROVE  Prefix(status) \in Seq(Char)
  <1>1. << >> \in Seq(Char) /\ \A c \in Digit : <<c>> \in Seq(Char)
    BY DEF Char
  <1> QED
    BY <1>1 DEF TagStatus, Prefix, Digit

(* A positive tag only first, a limiting one only right after a mediating  *)
(* one, and no empty words.                                                *)
TagsFit(tags) ==
    \A i \in DOMAIN tags :
        /\ tags[i].status = "Positive" => i = 1
        /\ tags[i].status = "Limiting" => i > 1 /\ tags[i - 1].status = "Mediating"
        /\ tags[i].word # << >>

TagFits(p) == /\ TagsFit(p.tags) /\ p.word # << >>
              /\ p.status = "Positive" => p.tags = << >>

(* Pushing a tag fails, or adds a tag that fits.                           *)
LEMMA PushIsState ==
    ASSUME NEW p \in ParserState, p.error = NoError
    PROVE  LET q == validate_and_push_tag(p)
               tag == [status |-> p.status, word |-> p.word]
           IN /\ q \in ParserState /\ tag \in Tag
              /\ q.error = NoError =>
                    /\ q = State(Append(p.tags, tag), << >>, p.status)
                    /\ TagFits(p) => TagsFit(q.tags)
  <1> DEFINE tag == [status |-> p.status, word |-> p.word]
             bad == p.status = "Limiting" /\ (p.tags = << >> \/ Last(p.tags).status # "Mediating")
             q == validate_and_push_tag(p)
             next == State(Append(p.tags, tag), << >>, p.status)
  <1>1. /\ p.tags \in Seq(Tag) /\ p.word \in Seq(Char) /\ p.status \in TagStatus
        /\ p = [tags |-> p.tags, word |-> p.word, status |-> p.status, error |-> NoError]
    BY DEF ParserState
  <1>2. tag \in Tag
    BY <1>1 DEF Tag
  <1>3. CASE bad
    <2>1. q = Fails(p, "LimitingWithoutMediating")
      BY <1>3, Zenon DEF validate_and_push_tag
    <2>2. "LimitingWithoutMediating" \in CtsError /\ "LimitingWithoutMediating" # NoError
      BY DEF CtsError, NoError
    <2> QED
      BY <1>2, <2>1, <2>2, FailureIsState
  <1>4. CASE ~bad
    <2>1. q = next
      <3>1. q = [p EXCEPT !.tags = Append(@, tag), !.word = << >>]
        BY <1>4, Zenon DEF validate_and_push_tag
      <3> HIDE DEF q, tag
      <3> QED
        BY <1>1, <3>1 DEF State
    <2>2. Append(p.tags, tag) \in Seq(Tag) /\ << >> \in Seq(Char)
      BY <1>1, <1>2
    <2>3. next \in ParserState /\ next.tags = Append(p.tags, tag)
      BY <1>1, <2>2 DEF State, ParserState, CtsError
    <2>4. ASSUME TagFits(p)
          PROVE  TagsFit(Append(p.tags, tag))
      <3> DEFINE tags == Append(p.tags, tag)
                 n == Len(p.tags)
      <3>1. /\ n \in Nat /\ DOMAIN tags = 1 .. n + 1 /\ DOMAIN p.tags = 1..n
            /\ \A i \in 1..n : tags[i] = p.tags[i]
            /\ tags[n + 1] = tag
        BY <1>1
      <3>2. tag.status = "Limiting" => n > 0 /\ p.tags[n].status = "Mediating"
        BY <1>1, <1>4 DEF Last
      <3>3. tag.word # << >> /\ (tag.status = "Positive" => n = 0)
        BY <2>4 DEF TagFits
      <3> HIDE DEF tags, tag, n
      <3>4. ASSUME NEW i \in 1 .. n + 1
            PROVE  /\ tags[i].status = "Positive" => i = 1
                   /\ tags[i].status = "Limiting" => i > 1 /\ tags[i - 1].status = "Mediating"
                   /\ tags[i].word # << >>
        <4>1. CASE i \in 1..n
          BY <2>4, <3>1, <4>1 DEF TagFits, TagsFit
        <4>2. CASE i = n + 1
          BY <3>1, <3>2, <3>3, <4>2
        <4> QED
          BY <3>1, <4>1, <4>2
      <3> QED
        BY <3>1, <3>4 DEF TagsFit, tags
    <2> QED
      BY <1>2, <2>1, <2>3, <2>4
  <1> QED
    BY <1>3, <1>4

(* What one character does to a parser that has not failed.                *)
LEMMA ReadDigit ==
    ASSUME NEW p \in ParserState, p.error = NoError, NEW c \in Digit
    PROVE  LET q == ReadChar(p, c)
               tags == Append(p.tags, [status |-> p.status, word |-> p.word])
           IN /\ q \in ParserState
              /\ p.word = << >> => q = State(p.tags, << >>, StatusOf(c))
              /\ p.word # << >> /\ q.error = NoError =>
                    /\ \A d \in Digit : ReadChar(p, d) = State(tags, << >>, StatusOf(d))
                    /\ TagFits(p) => TagsFit(tags)
  <1> DEFINE tags == Append(p.tags, [status |-> p.status, word |-> p.word])
  <1>1. /\ p.tags \in Seq(Tag) /\ p.word \in Seq(Char) /\ p.status \in TagStatus
        /\ p = [tags |-> p.tags, word |-> p.word, status |-> p.status, error |-> NoError]
    BY DEF ParserState
  <1>2. \A d \in Digit : ReadChar(p, d) = SetStatus(PushPending(p), d)
    BY DEF ReadChar
  <1>3. CASE p.word = << >>
    <2>1. PushPending(p) = p
      BY <1>3 DEF PushPending
    <2>2. ReadChar(p, c) = State(p.tags, << >>, StatusOf(c))
      BY <1>1, <1>2, <1>3, <2>1 DEF SetStatus, State
    <2>3. State(p.tags, << >>, StatusOf(c)) \in ParserState
      BY <1>1, <1>3, StatusOfDigit DEF State, ParserState, CtsError
    <2> QED
      BY <1>3, <2>2, <2>3
  <1>4. CASE p.word # << >>
    <2>1. PICK q : q = validate_and_push_tag(p)
      OBVIOUS
    <2>2. PushPending(p) = q
      BY <1>4, <2>1 DEF PushPending
    <2>3. /\ q \in ParserState
          /\ q.error = NoError => /\ q = State(tags, << >>, p.status)
                                  /\ TagFits(p) => TagsFit(q.tags)
      BY <1>4, <2>1, PushIsState
    <2>4. CASE q.error = NoError
      <3>1. q = State(tags, << >>, p.status) /\ q.tags = tags /\ tags \in Seq(Tag)
        BY <2>3, <2>4 DEF State, ParserState
      <3>2. \A d \in Digit : ReadChar(p, d) = State(tags, << >>, StatusOf(d))
        BY <1>2, <2>2, <2>4, <3>1 DEF SetStatus, State
      <3>3. << >> \in Seq(Char)
        OBVIOUS
      <3> HIDE DEF tags
      <3>4. State(tags, << >>, StatusOf(c)) \in ParserState
        BY <3>1, <3>3, StatusOfDigit DEF State, ParserState, CtsError
      <3>5. ReadChar(p, c) \in ParserState
        BY <3>2, <3>4
      <3>6. TagFits(p) => TagsFit(tags)
        BY <2>3, <2>4, <3>1
      <3> QED
        BY <1>4, <3>2, <3>5, <3>6 DEF tags
    <2>5. CASE q.error # NoError
      <3>1. ReadChar(p, c) = q
        BY <1>2, <2>2, <2>5 DEF SetStatus
      <3> QED
        BY <1>4, <2>3, <2>5, <3>1
    <2> QED
      BY <2>4, <2>5
  <1> QED
    BY <1>3, <1>4

LEMMA ReadLetter ==
    ASSUME NEW p \in ParserState, p.error = NoError, NEW c \in Char \ Digit
    PROVE  LET q == ReadChar(p, c)
           IN /\ q \in ParserState
              /\ q.error = NoError => q = State(p.tags, Append(p.word, c), p.status)
  <1>1. /\ p.tags \in Seq(Tag) /\ p.word \in Seq(Char) /\ p.status \in TagStatus
        /\ p = [tags |-> p.tags, word |-> p.word, status |-> p.status, error |-> NoError]
    BY DEF ParserState
  <1>2. CASE c = Space
    <2>1. ReadChar(p, c) = Fails(p, "SpaceInTag")
      BY <1>2, Zenon DEF ReadChar
    <2>2. "SpaceInTag" \in CtsError /\ "SpaceInTag" # NoError
      BY DEF CtsError, NoError
    <2> QED
      BY <2>1, <2>2, FailureIsState
  <1>3. CASE c # Space
    <2>1. ReadChar(p, c) = [p EXCEPT !.word = Append(@, c)]
      BY <1>3, Zenon DEF ReadChar
    <2>2. ReadChar(p, c) = State(p.tags, Append(p.word, c), p.status)
      BY <1>1, <2>1 DEF State
    <2>3. Append(p.word, c) \in Seq(Char)
      BY <1>1
    <2>4. State(p.tags, Append(p.word, c), p.status) \in ParserState
      BY <1>1, <2>3 DEF State, ParserState, CtsError
    <2> QED
      BY <2>2, <2>4
  <1> QED
    BY <1>2, <1>3

------------------------------------------------------------------------------
(* What is known of the parser after a text: the tags so far fit; written  *)
(* out with what is pending they bring a parser to the same state; and     *)
(* written out alone, they bring it to where any digit ends the last word. *)
Rereads(text, p) ==
    LET out == serialize_cts(p.tags)
    IN /\ out \in Seq(Char)
       /\ TagsFit(p.tags)
       /\ p.status = "Positive" => p.tags = << >>
       /\ ReadAll(out \o Prefix(p.status) \o p.word) = p
       /\ \A c \in Digit : ReadAll(Append(out, c)) = State(p.tags, << >>, StatusOf(c))
       /\ p.word = << >> => text = << >> \/ Last(text) \in Digit

Readable(text) ==
    /\ ReadAll(text) \in ParserState
    /\ ReadAll(text).error = NoError => Rereads(text, ReadAll(text))

LEMMA EmptyIsReadable == Readable(<< >>)
  <1>1. ReadAll(<< >>) = ParserStart /\ serialize_cts(<< >>) = << >>
    BY ReadAllEmpty, SerializeEmpty
  <1>2. << >> \in Seq(Char) /\ << >> \o << >> = << >> /\ TagsFit(<< >>)
    BY DEF TagsFit
  <1>3. ASSUME NEW c \in Digit
        PROVE  ReadAll(Append(<< >>, c)) = State(<< >>, << >>, StatusOf(c))
    <2>1. ReadAll(Append(<< >>, c)) = ReadChar(ParserStart, c)
      BY <1>1, <1>2, ReadAllAppend DEF Char
    <2>2. ParserStart.error = NoError /\ ParserStart.word = << >> /\ ParserStart.tags = << >>
      BY DEF ParserStart
    <2> QED
      BY <2>1, <2>2, StartIsState, ReadDigit
  <1>4. /\ ParserStart.tags = << >> /\ ParserStart.word = << >>
        /\ Prefix(ParserStart.status) = << >>
    BY DEF ParserStart, Prefix
  <1>5. Rereads(<< >>, ParserStart)
    BY <1>1, <1>2, <1>3, <1>4 DEF Rereads
  <1> QED
    BY <1>1, <1>5, StartIsState DEF Readable

LEMMA DigitIsReadable ==
    ASSUME NEW text \in Seq(Char), NEW c \in Digit, Readable(text),
           ReadAll(text).error = NoError,
           ReadAll(Append(text, c)).error = NoError
    PROVE  Rereads(Append(text, c), ReadAll(Append(text, c)))
  <1>1. PICK p : p = ReadAll(text)
    OBVIOUS
  <1>2. PICK q : q = ReadAll(Append(text, c))
    OBVIOUS
  <1>3. /\ p \in ParserState /\ p.error = NoError /\ Rereads(text, p)
        /\ p.tags \in Seq(Tag) /\ p.word \in Seq(Char) /\ p.status \in TagStatus
    BY <1>1 DEF Readable, ParserState
  <1>4. q = ReadChar(p, c) /\ q.error = NoError
    BY <1>1, <1>2, ReadAllAppend DEF Char
  <1>5. Last(Append(text, c)) \in Digit
    BY DEF Last
  <1>6. ASSUME NEW tags \in Seq(Tag), NEW out, out = serialize_cts(tags), out \in Seq(Char),
               TagsFit(tags), q = State(tags, << >>, StatusOf(c)),
               \A d \in Digit : ReadAll(Append(out, d)) = State(tags, << >>, StatusOf(d))
        PROVE  Rereads(Append(text, c), q)
    <2>1. q.tags = tags /\ q.word = << >> /\ q.status = StatusOf(c) /\ q.status # "Positive"
      BY <1>6, StatusOfDigit DEF State
    <2>2. out \o Prefix(q.status) \o q.word = Append(out, c)
      <3>1. Prefix(q.status) = <<c>>
        BY <2>1, StatusOfDigit
      <3>2. out \o <<c>> = Append(out, c) /\ Append(out, c) \in Seq(Char) /\ c \in Char
        BY <1>6 DEF Char
      <3>3. Append(out, c) \o << >> = Append(out, c)
        BY <3>2, ConcatEmptySeq
      <3> QED
        BY <2>1, <3>1, <3>2, <3>3
    <2> QED
      BY <1>5, <1>6, <2>1, <2>2 DEF Rereads
  <1>7. CASE p.word = << >>
    <2>1. q = State(p.tags, << >>, StatusOf(c))
      BY <1>3, <1>4, <1>7, ReadDigit
    <2> QED
      BY <1>2, <1>3, <1>6, <2>1 DEF Rereads
  <1>8. CASE p.word # << >>
    <2> DEFINE tag == [status |-> p.status, word |-> p.word]
               tags == Append(p.tags, tag)
               out == serialize_cts(p.tags) \o Prefix(p.status) \o p.word
    <2>1. tag \in Tag /\ tags \in Seq(Tag)
      BY <1>3 DEF Tag
    <2>2. /\ \A d \in Digit : ReadChar(p, d) = State(tags, << >>, StatusOf(d))
          /\ TagFits(p) => TagsFit(tags)
      BY <1>3, <1>4, <1>8, ReadDigit
    <2>3. serialize_cts(tags) = out
      <3>1. tag.status = p.status /\ tag.word = p.word
        OBVIOUS
      <3> HIDE DEF tag
      <3> QED
        BY <1>3, <2>1, <3>1, SerializeAppend
    <2>4. out \in Seq(Char)
      <3>1. serialize_cts(p.tags) \in Seq(Char) /\ Prefix(p.status) \in Seq(Char)
        BY <1>3, PrefixIsText DEF Rereads
      <3> QED
        BY <1>3, <3>1, ConcatProperties
    <2>5. ReadAll(out) = p
      BY <1>3 DEF Rereads
    <2> HIDE DEF tag, tags, out
    <2>6. ASSUME NEW d \in Digit
          PROVE  ReadAll(Append(out, d)) = State(tags, << >>, StatusOf(d))
      <3>1. ReadAll(Append(out, d)) = ReadChar(ReadAll(out), d)
        BY <2>4, ReadAllAppend DEF Char
      <3> QED
        BY <2>2, <2>5, <3>1
    <2>7. TagsFit(tags)
      BY <1>3, <1>8, <2>2 DEF Rereads, TagFits
    <2>8. q = State(tags, << >>, StatusOf(c))
      BY <1>4, <2>2
    <2> QED
      BY <1>2, <1>6, <2>1, <2>3, <2>4, <2>6, <2>7, <2>8
  <1> QED
    BY <1>7, <1>8

LEMMA LetterIsReadable ==
    ASSUME NEW text \in Seq(Char), NEW c \in Char \ Digit, Readable(text),
           ReadAll(text).error = NoError,
           ReadAll(Append(text, c)).error = NoError
    PROVE  Rereads(Append(text, c), ReadAll(Append(text, c)))
  <1>1. PICK p : p = ReadAll(text)
    OBVIOUS
  <1>2. PICK q : q = ReadAll(Append(text, c))
    OBVIOUS
  <1>3. /\ p \in ParserState /\ p.error = NoError /\ Rereads(text, p)
        /\ p.word \in Seq(Char) /\ p.status \in TagStatus
    BY <1>1 DEF Readable, ParserState
  <1>4. q = ReadChar(p, c) /\ q.error = NoError
    BY <1>1, <1>2, ReadAllAppend
  <1>5. q = State(p.tags, Append(p.word, c), p.status)
    BY <1>3, <1>4, ReadLetter
  <1>6. /\ q.tags = p.tags /\ q.word = Append(p.word, c) /\ q.status = p.status
        /\ q.word # << >>
    BY <1>3, <1>5 DEF State
  <1> DEFINE out == serialize_cts(p.tags)
             pre == Prefix(p.status)
             before == out \o pre \o p.word
  <1>7. out \in Seq(Char) /\ pre \in Seq(Char)
    BY <1>3, PrefixIsText DEF Rereads
  <1>8. before \in Seq(Char) /\ out \o pre \in Seq(Char)
    BY <1>3, <1>7, ConcatProperties
  <1>9. out \o pre \o q.word = Append(before, c)
    <2>1. \A s, w \in Seq(Char) : s \o Append(w, c) = Append(s \o w, c)
      <3> TAKE s, w \in Seq(Char)
      <3>1. <<c>> \in Seq(Char) /\ Append(w, c) = w \o <<c>>
        OBVIOUS
      <3>2. s \o w \in Seq(Char)
        BY ConcatProperties
      <3>3. Append(s \o w, c) = (s \o w) \o <<c>>
        BY <3>2, AppendIsConcat
      <3> QED
        BY <3>1, <3>3, ConcatAssociative
    <2> HIDE DEF out, pre
    <2> QED
      BY <1>3, <1>6, <1>8, <2>1
  <1> HIDE DEF out, pre
  <1>10. ReadAll(Append(before, c)) = ReadChar(ReadAll(before), c)
    BY <1>8, ReadAllAppend
  <1>11. ReadAll(before) = p
    BY <1>3 DEF Rereads, out, pre
  <1>12. ReadAll(out \o Prefix(q.status) \o q.word) = q
    BY <1>4, <1>6, <1>9, <1>10, <1>11 DEF pre
  <1>13. \A d \in Digit : ReadAll(Append(out, d)) = State(p.tags, << >>, StatusOf(d))
    BY <1>3 DEF Rereads, out
  <1>14. Rereads(Append(text, c), q)
    BY <1>3, <1>6, <1>7, <1>12, <1>13 DEF Rereads, out
  <1> QED
    BY <1>2, <1>14

LEMMA TextsAreReadable == \A text \in Seq(Char) : Readable(text)
  <1> DEFINE T == {text \in Seq(Char) : Readable(text)}
  <1>1. << >> \in T
    BY EmptyIsReadable
  <1>2. ASSUME NEW text \in Seq(Char), NEW c \in Char, text \in T
        PROVE  Append(text, c) \in T
    <2>1. PICK p : p = ReadAll(text)
      OBVIOUS
    <2>2. Readable(text) /\ p \in ParserState
      BY <1>2, <2>1 DEF Readable
    <2>3. ReadAll(Append(text, c)) = ReadChar(p, c)
      BY <2>1, ReadAllAppend
    <2>4. CASE p.error # NoError
      <3>1. ReadChar(p, c) = p
        BY <2>4 DEF ReadChar
      <3>2. Readable(Append(text, c))
        BY <2>2, <2>3, <2>4, <3>1 DEF Readable
      <3> QED
        BY <3>2
    <2>5. CASE p.error = NoError
      <3>1. ReadChar(p, c) \in ParserState
        <4>1. CASE c \in Digit
          BY <2>2, <2>5, <4>1, ReadDigit
        <4>2. CASE c \notin Digit
          BY <2>2, <2>5, <4>2, ReadLetter
        <4> QED
          BY <4>1, <4>2
      <3>2. ReadChar(p, c).error = NoError =>
               Rereads(Append(text, c), ReadAll(Append(text, c)))
        <4>1. CASE c \in Digit
          BY <2>1, <2>2, <2>3, <2>5, <4>1, DigitIsReadable
        <4>2. CASE c \notin Digit
          BY <2>1, <2>2, <2>3, <2>5, <4>2, LetterIsReadable
        <4> QED
          BY <4>1, <4>2
      <3>3. Readable(Append(text, c))
        BY <2>3, <3>1, <3>2 DEF Readable
      <3> QED
        BY <3>3
    <2> QED
      BY <2>4, <2>5
  <1> HIDE DEF T
  <1>3. Seq(Char) \subseteq T
    BY <1>1, <1>2, SeqInduction
  <1> QED
    BY <1>3 DEF T

------------------------------------------------------------------------------
LEMMA FinishAccepts ==
    ASSUME NEW p \in ParserState, NEW input, Finish(p, input).error = NoError
    PROVE  /\ p.error = NoError
           /\ p.word # << >> => Finish(p, input) = validate_and_push_tag(p)
           /\ p.word = << >> => Last(input) \notin Digit /\ Finish(p, input) = p
           /\ \E i \in DOMAIN Finish(p, input).tags :
                 Finish(p, input).tags[i].status = "Positive"
           /\ Len(Finish(p, input).tags) <= MaxTags
  <1> DEFINE q == IF p.error # NoError THEN p
                  ELSE IF p.word # << >> THEN validate_and_push_tag(p)
                  ELSE IF Last(input) \in Digit THEN Fails(p, "TrailingStatusChar")
                  ELSE p
             f == Finish(p, input)
  <1>1. f = IF q.error # NoError THEN q
            ELSE IF \A i \in DOMAIN q.tags : q.tags[i].status # "Positive"
            THEN Fails(q, "AtLeastOnePositiveRequired")
            ELSE IF Len(q.tags) > MaxTags THEN Fails(q, "TooManyTags")
            ELSE q
    BY DEF Finish
  <1>2. /\ "TrailingStatusChar" \in CtsError \ {NoError}
        /\ "AtLeastOnePositiveRequired" \in CtsError \ {NoError}
        /\ "TooManyTags" \in CtsError \ {NoError}
    BY DEF CtsError, NoError
  <1>3. q \in ParserState
    <2>1. CASE p.error # NoError
      BY <2>1
    <2>2. CASE p.error = NoError /\ p.word # << >>
      BY <2>2, PushIsState
    <2>3. CASE p.error = NoError /\ p.word = << >> /\ Last(input) \in Digit
      <3>1. q = Fails(p, "TrailingStatusChar")
        BY <2>3
      <3> HIDE DEF q
      <3> QED
        BY <3>1, <1>2, FailureIsState
    <2>4. CASE p.error = NoError /\ p.word = << >> /\ Last(input) \notin Digit
      BY <2>4
    <2> QED
      BY <2>1, <2>2, <2>3, <2>4
  <1>4. Fails(p, "TrailingStatusChar").error # NoError
    BY <1>2, FailureIsState
  <1>5. /\ p.error # NoError => q = p
        /\ p.error = NoError /\ p.word # << >> => q = validate_and_push_tag(p)
        /\ p.error = NoError /\ p.word = << >> /\ q.error = NoError =>
              Last(input) \notin Digit /\ q = p
    BY <1>4
  <1> HIDE DEF q, f
  <1>6. /\ f = q /\ q.error = NoError
        /\ ~(\A i \in DOMAIN q.tags : q.tags[i].status # "Positive")
        /\ ~(Len(q.tags) > MaxTags)
    <2>1. f.error = NoError
      BY DEF f
    <2>2. /\ Fails(q, "AtLeastOnePositiveRequired").error # NoError
          /\ Fails(q, "TooManyTags").error # NoError
      BY <1>2, <1>3, FailureIsState
    <2> QED
      BY <1>1, <2>1, <2>2, Zenon
  <1>7. Len(q.tags) <= MaxTags
    <2>1. Len(q.tags) \in Nat
      BY <1>3 DEF ParserState
    <2> QED
      BY <1>6, <2>1, LimitsAreNat
  <1>8. f = Finish(p, input)
    BY DEF f
  <1> QED
    BY <1>5, <1>6, <1>7, <1>8, Zenon

LEMMA ParsedIsState ==
    ASSUME NEW text \in Seq(Char)
    PROVE  parse_cts(text) \in ParserState
  <1>1. "EmptyInput" \in CtsError /\ "TrailingStatusChar" \in CtsError
        /\ "AtLeastOnePositiveRequired" \in CtsError /\ "TooManyTags" \in CtsError
    BY DEF CtsError
  <1>2. ReadAll(text) \in ParserState
    BY TextsAreReadable DEF Readable
  <1>3. ASSUME NEW p \in ParserState
        PROVE  Finish(p, text) \in ParserState
    <2>1. PICK q : q = IF p.error # NoError THEN p
                       ELSE IF p.word # << >> THEN validate_and_push_tag(p)
                       ELSE IF Last(text) \in Digit THEN Fails(p, "TrailingStatusChar")
                       ELSE p
      OBVIOUS
    <2>2. q \in ParserState
      <3>1. Fails(p, "TrailingStatusChar") \in ParserState
        BY <1>1, FailureIsState
      <3>2. p.error = NoError => validate_and_push_tag(p) \in ParserState
        BY PushIsState
      <3> QED
        BY <2>1, <3>1, <3>2, Zenon
    <2>3. /\ Fails(q, "AtLeastOnePositiveRequired") \in ParserState
          /\ Fails(q, "TooManyTags") \in ParserState
      BY <1>1, <2>2, FailureIsState
    <2> QED
      BY <2>1, <2>2, <2>3, Zenon DEF Finish
  <1>4. Fails(ParserStart, "EmptyInput") \in ParserState
    BY <1>1, StartIsState, FailureIsState
  <1> QED
    BY <1>2, <1>3, <1>4, Zenon DEF parse_cts

(* What the parser accepts obeys the rules, and written out and parsed     *)
(* again it is the same: for every text over the characters, of any length.*)
THEOREM ParsingSurvivesText ==
    ASSUME NEW text \in Seq(Char), parse_cts(text).error = NoError
    PROVE  /\ WellFormed(parse_cts(text).tags)
           /\ parse_cts(serialize_cts(parse_cts(text).tags)) = parse_cts(text)
  <1>1. PICK p : p = ReadAll(text)
    OBVIOUS
  <1>2. PICK q : q = Finish(p, text)
    OBVIOUS
  <1>3. text # << >>
    <2>1. Fails(ParserStart, "EmptyInput").error # NoError
      BY StartIsState, FailureIsState DEF CtsError, NoError
    <2> QED
      BY <2>1 DEF parse_cts
  <1>4. parse_cts(text) = q /\ q.error = NoError
    BY <1>1, <1>2, <1>3 DEF parse_cts
  <1>5. p \in ParserState
    BY <1>1, TextsAreReadable DEF Readable
  <1>6. /\ p.error = NoError /\ Rereads(text, p)
        /\ p.word # << >> /\ q = validate_and_push_tag(p)
        /\ \E i \in DOMAIN q.tags : q.tags[i].status = "Positive"
        /\ Len(q.tags) <= MaxTags
    <2>1. /\ p.error = NoError
          /\ p.word # << >> => q = validate_and_push_tag(p)
          /\ p.word = << >> => Last(text) \notin Digit
          /\ \E i \in DOMAIN q.tags : q.tags[i].status = "Positive"
          /\ Len(q.tags) <= MaxTags
      BY <1>2, <1>4, <1>5, FinishAccepts
    <2>2. Rereads(text, p)
      BY <1>1, <2>1, TextsAreReadable DEF Readable
    <2>3. p.word # << >>
      BY <1>3, <2>1, <2>2 DEF Rereads
    <2> QED
      BY <2>1, <2>2, <2>3
  <1> DEFINE tag == [status |-> p.status, word |-> p.word]
             out == serialize_cts(p.tags) \o Prefix(p.status) \o p.word
  <1>7. /\ p.tags \in Seq(Tag) /\ p.word \in Seq(Char) /\ p.status \in TagStatus
    BY <1>5 DEF ParserState
  <1>8. /\ tag \in Tag /\ q = State(Append(p.tags, tag), << >>, p.status)
        /\ TagsFit(q.tags)
    BY <1>4, <1>5, <1>6, PushIsState DEF Rereads, TagFits
  <1>9. serialize_cts(q.tags) = out
    <2>1. q.tags = Append(p.tags, tag)
      BY <1>8 DEF State
    <2>2. tag.status = p.status /\ tag.word = p.word
      OBVIOUS
    <2> HIDE DEF tag
    <2> QED
      BY <1>7, <1>8, <2>1, <2>2, SerializeAppend
  <1>10. out # << >>
    <2>1. serialize_cts(p.tags) \o Prefix(p.status) \in Seq(Char)
      BY <1>6, <1>7, PrefixIsText, ConcatProperties DEF Rereads
    <2> QED
      BY <1>6, <1>7, <2>1, ConcatEqualIffEmpty
  <1>11. ReadAll(out) = p
    BY <1>6 DEF Rereads
  <1>12. Finish(p, out) = q
    BY <1>2, <1>6 DEF Finish
  <1>13. parse_cts(out) = q
    <2> HIDE DEF out
    <2> QED
      BY <1>10, <1>11, <1>12 DEF parse_cts
  <1>14. WellFormed(q.tags)
    <2>1. q.tags # << >> /\ q.tags \in Seq(Tag)
      BY <1>7, <1>8 DEF State
    <2>2. \A i \in DOMAIN q.tags : q.tags[i].status = "Positive" <=> i = 1
      <3>1. PICK i \in DOMAIN q.tags : q.tags[i].status = "Positive"
        BY <1>6
      <3>2. i = 1
        BY <1>8, <3>1 DEF TagsFit
      <3> QED
        BY <1>8, <3>1, <3>2 DEF TagsFit
    <2> QED
      BY <1>6, <1>8, <2>1, <2>2 DEF WellFormed, TagsFit
  <1> QED
    BY <1>4, <1>9, <1>13, <1>14

LEMMA TypedIsText == CtsSpec => []CtsTypeOK
  <1>1. CtsInit => CtsTypeOK
    <2> SUFFICES ASSUME CtsInit
                 PROVE  CtsTypeOK
      OBVIOUS
    <2>1. 0 \in 0..MaxInput /\ << >> \in [1..0 -> Char]
      BY LimitsAreNat
    <2> QED
      BY <2>1 DEF CtsInit, CtsTypeOK, BoundedSeq, SeqOf, Char
  <1>2. CtsTypeOK /\ [CtsNext]_typed => CtsTypeOK'
    <2> SUFFICES ASSUME CtsTypeOK, CtsNext
                 PROVE  CtsTypeOK'
      BY DEF CtsTypeOK
    <2>1. PICK c \in Char : Len(typed) < MaxInput /\ typed' = Append(typed, c)
      BY DEF CtsNext, type_char, Char
    <2>2. PICK n \in 0..MaxInput : typed \in [1..n -> Char]
      BY DEF CtsTypeOK, BoundedSeq, SeqOf, Char
    <2>3. typed \in Seq(Char) /\ Len(typed) = n
      BY <2>2, LimitsAreNat
    <2>4. typed' \in Seq(Char) /\ Len(typed') = n + 1 /\ n + 1 \in 0..MaxInput
      BY <2>1, <2>3, LimitsAreNat
    <2>5. typed' \in [1 .. n + 1 -> Char]
      BY <2>4
    <2> QED
      BY <2>4, <2>5 DEF CtsTypeOK, BoundedSeq, SeqOf, Char
  <1> QED
    BY <1>1, <1>2, PTL DEF CtsSpec

(* The same of the text typed so far.                                      *)
THEOREM TypedSurvivesText == CtsSpec => []ParsedSurvivesText
  <1>1. CtsTypeOK => ParsedSurvivesText
    <2> SUFFICES ASSUME CtsTypeOK, parse_cts(typed).error = NoError
                 PROVE  /\ WellFormed(parse_cts(typed).tags)
                        /\ parse_cts(serialize_cts(parse_cts(typed).tags)) = parse_cts(typed)
      BY DEF ParsedSurvivesText
    <2>1. typed \in Seq(Char)
      BY LimitsAreNat DEF CtsTypeOK, BoundedSeq, SeqOf, Char
    <2> QED
      BY <2>1, ParsingSurvivesText
  <1> QED
    BY <1>1, TypedIsText, PTL

------------------------------------------------------------------------------
(* The words a sequence can carry: no digit that ends one, and no space.   *)
Plain == Char \ (Digit \cup {Space})

PlainTag == [status : TagStatus, word : Seq(Plain)]

LEMMA PlainIsText == \A w \in Seq(Plain) : w \in Seq(Char)
  <1>1. Plain \subseteq Char
    BY DEF Plain
  <1> QED
    BY <1>1, SeqMonotonic

LEMMA PlainTagIsTag ==
    ASSUME NEW tag \in PlainTag
    PROVE  tag \in Tag /\ tag.word \in Seq(Plain) /\ tag.status \in TagStatus
           /\ tag = [status |-> tag.status, word |-> tag.word]
  <1>1. tag.word \in Seq(Char)
    BY PlainIsText DEF PlainTag
  <1> QED
    BY <1>1 DEF PlainTag, Tag

(* A plain word is appended to the pending one.                            *)
LEMMA WordIsRead ==
    ASSUME NEW text \in Seq(Char), NEW tags \in Seq(Tag), NEW status \in TagStatus,
           ReadAll(text) = State(tags, << >>, status)
    PROVE  \A w \in Seq(Plain) : ReadAll(text \o w) = State(tags, w, status)
  <1> DEFINE T == {w \in Seq(Plain) : ReadAll(text \o w) = State(tags, w, status)}
  <1>1. << >> \in T
    <2>1. text \o << >> = text /\ << >> \in Seq(Plain)
      BY ConcatEmptySeq
    <2> QED
      BY <2>1
  <1>2. ASSUME NEW w \in Seq(Plain), NEW c \in Plain, w \in T
        PROVE  Append(w, c) \in T
    <2>1. w \in Seq(Char) /\ c \in Char \ Digit /\ c # Space
      BY PlainIsText DEF Plain
    <2>2. text \o Append(w, c) = Append(text \o w, c) /\ text \o w \in Seq(Char)
      <3>1. <<c>> \in Seq(Char) /\ Append(w, c) = w \o <<c>>
        BY <2>1
      <3>2. text \o w \in Seq(Char)
        BY <2>1, ConcatProperties
      <3>3. Append(text \o w, c) = (text \o w) \o <<c>>
        BY <2>1, <3>2, AppendIsConcat
      <3> QED
        BY <2>1, <3>1, <3>2, <3>3, ConcatAssociative
    <2>3. ReadAll(Append(text \o w, c)) = ReadChar(State(tags, w, status), c)
      BY <1>2, <2>1, <2>2, ReadAllAppend
    <2>4. ReadChar(State(tags, w, status), c) = State(tags, Append(w, c), status)
      BY <2>1 DEF ReadChar, State
    <2>5. Append(w, c) \in Seq(Plain)
      OBVIOUS
    <2> QED
      BY <2>2, <2>3, <2>4, <2>5
  <1> HIDE DEF T
  <1>3. Seq(Plain) \subseteq T
    BY <1>1, <1>2, SeqInduction
  <1> QED
    BY <1>3 DEF T

(* The text of a list of tags that fit: its last word is still pending.    *)
Fits(tags) ==
    \A i \in DOMAIN tags :
        /\ tags[i].status = "Positive" <=> i = 1
        /\ tags[i].status = "Limiting" => i > 1 /\ tags[i - 1].status = "Mediating"
        /\ tags[i].word # << >>

IsPending(tags, last) ==
    LET text == serialize_cts(Append(tags, last))
    IN text \in Seq(Char) /\ ReadAll(text) = State(tags, last.word, last.status)

LEMMA FitsBefore ==
    ASSUME NEW tags \in Seq(PlainTag), NEW x \in PlainTag, Fits(Append(tags, x))
    PROVE  /\ Fits(tags) /\ x.word # << >>
           /\ x.status = "Positive" <=> tags = << >>
           /\ x.status = "Limiting" => tags # << >> /\ Last(tags).status = "Mediating"
  <1> DEFINE all == Append(tags, x)
             n == Len(tags)
  <1>1. /\ n \in Nat /\ DOMAIN all = 1 .. n + 1 /\ DOMAIN tags = 1..n
        /\ \A i \in 1..n : all[i] = tags[i]
        /\ all[n + 1] = x /\ (tags = << >> <=> n = 0)
    OBVIOUS
  <1> HIDE DEF all
  <1>a. Fits(all)
    BY DEF all
  <1>2. Fits(tags)
    BY <1>1, <1>a DEF Fits
  <1>3. /\ x.word # << >> /\ (x.status = "Positive" <=> n + 1 = 1)
        /\ x.status = "Limiting" => n + 1 > 1 /\ all[n].status = "Mediating"
    <2>1. n + 1 \in DOMAIN all /\ (n + 1) - 1 = n
      BY <1>1
    <2> QED
      BY <1>1, <1>a, <2>1 DEF Fits
  <1>4. x.status = "Limiting" => tags # << >> /\ Last(tags).status = "Mediating"
    BY <1>1, <1>3 DEF Last
  <1> QED
    BY <1>1, <1>2, <1>3, <1>4

LEMMA LastWordIsPending ==
    \A tags \in Seq(PlainTag) : \A last \in PlainTag :
        Fits(Append(tags, last)) => IsPending(tags, last)
  <1> DEFINE T == {tags \in Seq(PlainTag) : \A last \in PlainTag :
                      Fits(Append(tags, last)) => IsPending(tags, last)}
  <1>0. ASSUME NEW tags \in Seq(PlainTag), NEW last \in PlainTag,
               NEW text \in Seq(Char), text = serialize_cts(tags) \o Prefix(last.status),
               ReadAll(text) = State(tags, << >>, last.status)
        PROVE  IsPending(tags, last)
    <2>1. tags \in Seq(Tag) /\ last \in Tag /\ last.word \in Seq(Plain)
          /\ last.status \in TagStatus
      BY PlainTagIsTag, SeqMonotonic
    <2>2. serialize_cts(Append(tags, last)) = text \o last.word
      BY <1>0, <2>1, SerializeAppend
    <2>3. ReadAll(text \o last.word) = State(tags, last.word, last.status)
      BY <1>0, <2>1, WordIsRead
    <2>4. text \o last.word \in Seq(Char)
      BY <2>1, PlainIsText, ConcatProperties
    <2> QED
      BY <2>2, <2>3, <2>4 DEF IsPending
  <1>1. << >> \in T
    <2>1. << >> \in Seq(PlainTag)
      OBVIOUS
    <2>2. ASSUME NEW last \in PlainTag, Fits(Append(<< >>, last))
          PROVE  IsPending(<< >>, last)
      <3>1. last.status = "Positive"
        BY <2>1, <2>2, FitsBefore
      <3>2. << >> \in Seq(Char) /\ << >> = serialize_cts(<< >>) \o Prefix(last.status)
        BY <3>1, SerializeEmpty DEF Prefix
      <3>3. ReadAll(<< >>) = State(<< >>, << >>, last.status)
        BY <3>1, ReadAllEmpty, StartIsState
      <3> QED
        BY <1>0, <2>1, <3>2, <3>3
    <2> QED
      BY <2>1, <2>2
  <1>2. ASSUME NEW tags \in Seq(PlainTag), NEW y \in PlainTag, tags \in T
        PROVE  Append(tags, y) \in T
    <2> DEFINE more == Append(tags, y)
               text == serialize_cts(more)
    <2>1. more \in Seq(PlainTag) /\ more # << >>
      BY AppendProperties
    <2>2. ASSUME NEW last \in PlainTag, Fits(Append(more, last))
          PROVE  IsPending(more, last)
      <3>1. Fits(more) /\ last.status # "Positive" /\ last.status \in TagStatus
        BY <2>1, <2>2, FitsBefore, PlainTagIsTag
      <3>2. text \in Seq(Char) /\ ReadAll(text) = State(tags, y.word, y.status)
        BY <1>2, <3>1 DEF IsPending
      <3>3. /\ y.word # << >>
            /\ y.status = "Limiting" => tags # << >> /\ Last(tags).status = "Mediating"
        BY <3>1, FitsBefore
      <3>4. PICK c \in Digit : StatusOf(c) = last.status /\ Prefix(last.status) = <<c>>
        <4>1. last.status \in {"Negative", "Mediating", "Limiting"}
          BY <3>1 DEF TagStatus
        <4> QED
          BY <4>1 DEF Digit, StatusOf, Prefix
      <3>5. ReadChar(State(tags, y.word, y.status), c) = State(more, << >>, last.status)
        <4> DEFINE p == State(tags, y.word, y.status)
        <4>1. /\ p.tags = tags /\ p.word = y.word /\ p.status = y.status /\ p.error = NoError
          BY DEF State
        <4>2. y = [status |-> p.status, word |-> p.word]
          BY <4>1, PlainTagIsTag
        <4>3. validate_and_push_tag(p)
                 = [p EXCEPT !.tags = Append(@, [status |-> p.status, word |-> p.word]),
                             !.word = << >>]
          BY <3>3, <4>1, Zenon DEF validate_and_push_tag
        <4>4. validate_and_push_tag(p) = State(more, << >>, y.status)
          BY <4>1, <4>2, <4>3 DEF State
        <4>5. PushPending(p) = State(more, << >>, y.status)
          BY <3>3, <4>1, <4>4 DEF PushPending
        <4>6. SetStatus(State(more, << >>, y.status), c) = State(more, << >>, last.status)
          BY <3>4 DEF SetStatus, State
        <4> HIDE DEF p, more
        <4>7. ReadChar(p, c) = SetStatus(PushPending(p), c)
          BY <4>1 DEF ReadChar
        <4> QED
          BY <4>5, <4>6, <4>7 DEF p
      <3>6. text \o Prefix(last.status) = Append(text, c) /\ Append(text, c) \in Seq(Char)
        BY <3>2, <3>4 DEF Char
      <3>7. ReadAll(Append(text, c)) = State(more, << >>, last.status)
        BY <3>2, <3>5, ReadAllAppend DEF Char
      <3> HIDE DEF text, more
      <3> QED
        BY <1>0, <2>1, <3>6, <3>7 DEF text
    <2> HIDE DEF more
    <2> QED
      BY <2>1, <2>2 DEF more
  <1> HIDE DEF T
  <1>3. Seq(PlainTag) \subseteq T
    BY <1>1, <1>2, SeqInduction
  <1> QED
    BY <1>3 DEF T

(* The converse of ParsingSurvivesText: a well-formed list of plain words  *)
(* is what the parser reads from the text written for it.                  *)
LEMMA WellFormedIsRead ==
    ASSUME NEW tags \in Seq(PlainTag), WellFormed(tags)
    PROVE  /\ parse_cts(serialize_cts(tags)).tags = tags
           /\ parse_cts(serialize_cts(tags)).error = NoError
  <1>1. tags # << >> /\ Fits(tags)
    BY DEF WellFormed, Fits
  <1>2. PICK before \in Seq(PlainTag), last \in PlainTag : tags = Append(before, last)
    BY <1>1, SequenceEmptyOrAppend
  <1>3. PICK text : text = serialize_cts(tags)
    OBVIOUS
  <1>4. PICK p : p = ReadAll(text)
    OBVIOUS
  <1>5. text \in Seq(Char) /\ p = State(before, last.word, last.status)
    BY <1>1, <1>2, <1>3, <1>4, LastWordIsPending DEF IsPending
  <1>6. /\ last.word # << >>
        /\ last.status = "Limiting" => before # << >> /\ Last(before).status = "Mediating"
    BY <1>1, <1>2, FitsBefore
  <1>7. /\ p.tags = before /\ p.word = last.word /\ p.status = last.status /\ p.error = NoError
        /\ last = [status |-> p.status, word |-> p.word]
    BY <1>5, PlainTagIsTag DEF State
  <1>8. validate_and_push_tag(p) = State(tags, << >>, last.status)
    <2>1. validate_and_push_tag(p)
             = [p EXCEPT !.tags = Append(@, [status |-> p.status, word |-> p.word]),
                         !.word = << >>]
      BY <1>6, <1>7, Zenon DEF validate_and_push_tag
    <2> QED
      BY <1>2, <1>5, <1>7, <2>1 DEF State
  <1>9. Finish(p, text) = State(tags, << >>, last.status)
    <2> DEFINE q == State(tags, << >>, last.status)
    <2>1. q.error = NoError /\ q.tags = tags
      BY DEF State
    <2>2. 1 \in DOMAIN tags /\ tags[1].status = "Positive" /\ ~(Len(tags) > MaxTags)
      BY <1>1, LimitsAreNat DEF WellFormed
    <2> HIDE DEF q
    <2>3. Finish(p, text) = q
      BY <1>6, <1>7, <1>8, <2>1, <2>2, Zenon DEF Finish, q
    <2> QED
      BY <2>3 DEF q
  <1>10. text # << >>
    <2>1. ReadAll(<< >>).word = << >>
      BY ReadAllEmpty DEF ParserStart
    <2> QED
      BY <1>4, <1>6, <1>7, <2>1
  <1>11. parse_cts(text) = State(tags, << >>, last.status)
    BY <1>4, <1>9, <1>10 DEF parse_cts
  <1> QED
    BY <1>3, <1>11 DEF State

LEMMA WrittenIsText == \A tags \in Seq(Tag) : serialize_cts(tags) \in Seq(Char)
  <1> DEFINE T == {tags \in Seq(Tag) : serialize_cts(tags) \in Seq(Char)}
  <1>1. << >> \in T
    <2>1. << >> \in Seq(Tag) /\ << >> \in Seq(Char)
      BY EmptySeq
    <2> QED
      BY <2>1, SerializeEmpty
  <1>2. ASSUME NEW tags \in Seq(Tag), NEW x \in Tag, tags \in T
        PROVE  Append(tags, x) \in T
    <2>1. serialize_cts(Append(tags, x)) = serialize_cts(tags) \o Prefix(x.status) \o x.word
      BY SerializeAppend
    <2>2. serialize_cts(tags) \in Seq(Char)
      BY <1>2
    <2>3. Prefix(x.status) \in Seq(Char) /\ x.word \in Seq(Char)
      BY PrefixIsText DEF Tag
    <2>4. serialize_cts(tags) \o Prefix(x.status) \in Seq(Char)
      BY <2>2, <2>3, ConcatProperties
    <2>5. serialize_cts(tags) \o Prefix(x.status) \o x.word \in Seq(Char)
      BY <2>3, <2>4, ConcatProperties
    <2>6. Append(tags, x) \in Seq(Tag)
      BY AppendProperties
    <2> QED
      BY <2>1, <2>5, <2>6
  <1> HIDE DEF T
  <1>3. Seq(Tag) \subseteq T
    BY <1>1, <1>2, SeqInduction
  <1> QED
    BY <1>3 DEF T

(* The rules the parser states (cts_parser.rs:4-5, 108-119, 131-139): one  *)
(* positive tag or several, at most MaxTags, limiting only right after     *)
(* mediating; and words that are not empty.                                *)
Rules(tags) ==
    /\ \E i \in DOMAIN tags : tags[i].status = "Positive"
    /\ \A i \in DOMAIN tags : tags[i].status = "Limiting" =>
           i > 1 /\ tags[i - 1].status = "Mediating"
    /\ Len(tags) <= MaxTags
    /\ \A i \in DOMAIN tags : tags[i].word # << >>

(* Which lists of plain words under these rules the text can carry: a list *)
(* is read back from what serialize_cts writes for it exactly if its first *)
(* tag is its one positive tag.  So every hybrid list, with two positive   *)
(* tags or more, is lost or read as another, whatever its words are.       *)
THEOREM TextCarriesOnePositive ==
    ASSUME NEW tags \in Seq(PlainTag), Rules(tags)
    PROVE  /\ parse_cts(serialize_cts(tags)).error = NoError
           /\ parse_cts(serialize_cts(tags)).tags = tags
           <=> \A i \in DOMAIN tags : tags[i].status = "Positive" <=> i = 1
  <1>1. ASSUME \A i \in DOMAIN tags : tags[i].status = "Positive" <=> i = 1
        PROVE  /\ parse_cts(serialize_cts(tags)).error = NoError
               /\ parse_cts(serialize_cts(tags)).tags = tags
    <2>1. WellFormed(tags)
      BY <1>1 DEF Rules, WellFormed
    <2> QED
      BY <2>1, WellFormedIsRead
  <1>2. ASSUME parse_cts(serialize_cts(tags)).error = NoError,
               parse_cts(serialize_cts(tags)).tags = tags
        PROVE  \A i \in DOMAIN tags : tags[i].status = "Positive" <=> i = 1
    <2>1. tags \in Seq(Tag)
      <3>1. PlainTag \subseteq Tag
        BY PlainTagIsTag
      <3> QED
        BY <3>1, SeqMonotonic
    <2>2. serialize_cts(tags) \in Seq(Char)
      BY <2>1, WrittenIsText
    <2>3. WellFormed(tags)
      BY <1>2, <2>2, ParsingSurvivesText
    <2> QED
      BY <2>3 DEF WellFormed
  <1> QED
    BY <1>1, <1>2

------------------------------------------------------------------------------
(* What is true of a transaction Transaction::new made.                    *)
Made(tx) ==
    \E type \in TxType, b \in Blob, q \in Quorum :
        Content(type, b, q) /\ tx = Transaction_new(type, b)

TxInv ==
    /\ made \in Seq([tx_type : TxType, raw_data : Blob, extended_retention : BOOLEAN])
    /\ \A i \in DOMAIN made : Made(made[i])
    /\ \/ verdict = NoVerdict
       \/ \E ahead \in Behind :
             verdict = [ahead |-> ahead, valid |-> validate_block(Block, ahead),
                        keep |-> should_extend_retention(Block)]

LEMMA MadeIsTransaction ==
    ASSUME NEW type \in TxType, NEW b \in Blob
    PROVE  Transaction_new(type, b)
              \in [tx_type : TxType, raw_data : Blob, extended_retention : BOOLEAN]
  BY DEF Transaction_new, ExtendedRetention

LEMMA TxInitInv == TxInit => TxInv
  <1>1. /\ << >> \in Seq([tx_type : TxType, raw_data : Blob, extended_retention : BOOLEAN])
        /\ \A i \in DOMAIN << >> : FALSE
    OBVIOUS
  <1> QED
    BY <1>1, Zenon DEF TxInit, TxInv

LEMMA TxNextInv == TxInv /\ [TxNext]_txVars => TxInv'
  <1> SUFFICES ASSUME TxInv, [TxNext]_txVars
               PROVE  TxInv'
    OBVIOUS
  <1>1. ASSUME NEW type \in TxType, NEW b \in Blob, NEW q \in Quorum, make(type, b, q)
        PROVE  TxInv'
    <2> DEFINE tx == Transaction_new(type, b)
               Tr == [tx_type : TxType, raw_data : Blob, extended_retention : BOOLEAN]
    <2>1. made' = Append(made, tx) /\ verdict' = NoVerdict /\ Made(tx) /\ tx \in Tr
      BY <1>1, MadeIsTransaction DEF make, Made
    <2>2. made \in Seq(Tr)
      BY DEF TxInv
    <2> HIDE DEF tx, Tr
    <2>3. /\ made' \in Seq(Tr) /\ DOMAIN made' = 1 .. Len(made) + 1 /\ Len(made) \in Nat
          /\ \A i \in 1..Len(made) : made'[i] = made[i] /\ i \in DOMAIN made
          /\ made'[Len(made) + 1] = tx
      BY <2>1, <2>2
    <2>4. \A i \in DOMAIN made' : Made(made'[i])
      BY <2>1, <2>3 DEF TxInv
    <2> QED
      BY <2>1, <2>3, <2>4, Zenon DEF TxInv, Tr
  <1>2. ASSUME NEW ahead \in Behind, validate(ahead)
        PROVE  TxInv'
    BY <1>2, Zenon DEF validate, TxInv, Block
  <1>3. CASE UNCHANGED txVars
    BY <1>3, Zenon DEF txVars, TxInv, Block
  <1> QED
    BY <1>1, <1>2, <1>3, Zenon DEF TxNext

LEMMA TxAlwaysInv == TxSpec => []TxInv
  BY TxInitInv, TxNextInv, PTL DEF TxSpec

(* The transactions of a block are of the types and blobs of the code.     *)
THEOREM TxTypeCorrect == TxSpec => []TxTypeOK
  <1>1. TxInv => TxTypeOK
    <2> SUFFICES ASSUME TxInv
                 PROVE  TxTypeOK
      OBVIOUS
    <2>1. ASSUME NEW i \in DOMAIN made
          PROVE  made[i].tx_type \in TxType /\ made[i].raw_data \in Blob
      <3>1. made[i] \in [tx_type : TxType, raw_data : Blob, extended_retention : BOOLEAN]
        BY ElementOfSeq, LenProperties DEF TxInv
      <3> QED
        BY <3>1
    <2>2. verdict.ahead \in {0} \cup Behind
      BY DEF TxInv, NoVerdict
    <2> QED
      BY <2>1, <2>2 DEF TxTypeOK
  <1> QED
    BY <1>1, TxAlwaysInv, PTL

(* What the maker accepted, a validator accepts, revocations excepted.     *)
LEMMA ParsedHasPositive ==
    ASSUME NEW text \in Seq(Char), Parses(text)
    PROVE  \E i \in DOMAIN parse_cts(text).tags : parse_cts(text).tags[i].status = "Positive"
  <1>1. PICK tags : tags = parse_cts(text).tags
    OBVIOUS
  <1>2. tags # << >> /\ tags \in Seq(Tag)
        /\ \A i \in DOMAIN tags : tags[i].status = "Positive" <=> i = 1
    <2>1. WellFormed(tags)
      BY <1>1, ParsingSurvivesText DEF Parses
    <2>2. tags \in Seq(Tag)
      BY <1>1, ParsedIsState DEF ParserState
    <2> QED
      BY <2>1, <2>2 DEF WellFormed
  <1>3. 1 \in DOMAIN tags
    BY <1>2
  <1> QED
    BY <1>1, <1>2, <1>3

LEMMA MadeIsValid ==
    ASSUME NEW tx, Made(tx),
           ~(tx.tx_type = "TrustRevoke" /\ tx.raw_data.len < TRUST_REVOKE_QUORUM_SIZE * 64)
    PROVE  validate_transaction(InBlock(tx))
  <1>1. PICK type \in TxType, b \in Blob, q \in Quorum :
           Content(type, b, q) /\ tx = Transaction_new(type, b)
    BY DEF Made
  <1>2. /\ tx.tx_type = type /\ tx.raw_data = b
        /\ InBlock(tx).tx_type = type /\ InBlock(tx).raw_data = b
        /\ b.len \in Nat /\ (b.text = NotText \/ b.text \in Seq(Char))
    BY <1>1, BlobsAreBlobs DEF Transaction_new, InBlock, IsBlob, Char
  <1>3. CASE type = "MeetupMeta"
    <2>1. b.text # NotText /\ Parses(b.text)
      BY <1>1, <1>3 DEF Content
    <2>2. \E i \in DOMAIN parse_cts(b.text).tags : parse_cts(b.text).tags[i].status = "Positive"
      BY <1>2, <2>1, ParsedHasPositive
    <2> QED
      BY <1>2, <1>3, <2>1, <2>2 DEF validate_transaction
  <1>4. CASE type = "TrustRevoke"
    <2>1. b.len >= TRUST_REVOKE_QUORUM_SIZE * 64
      BY <1>2, <1>4 DEF TRUST_REVOKE_QUORUM_SIZE
    <2> QED
      BY <1>2, <1>4, <2>1 DEF validate_transaction
  <1>5. CASE type \notin {"MeetupMeta", "TrustRevoke"}
    BY <1>2, <1>5 DEF validate_transaction, TxType
  <1> QED
    BY <1>3, <1>4, <1>5

LEMMA ExtendedIsRevocation ==
    ASSUME NEW tx, Made(tx), tx.extended_retention
    PROVE  tx.tx_type = "TrustRevoke"
  <1>1. PICK type \in TxType, b \in Blob : tx = Transaction_new(type, b)
    BY DEF Made
  <1>2. tx.tx_type = type /\ ExtendedRetention(type, b)
    BY <1>1 DEF Transaction_new
  <1>3. ~(ParsedDelta(b.text) < 0)
    BY DEF ParsedDelta
  <1> QED
    BY <1>2, <1>3 DEF ExtendedRetention

(* A block of transactions that Transaction::new made is valid for every   *)
(* device whose clock is at most MaxClockSkew behind and no other, and it  *)
(* is kept if one of them asks for it (revocations excepted).              *)
THEOREM HonestBlocksPass == TxSpec => []HonestBlockPasses
  <1>1. TxInv => HonestBlockPasses
    <2> SUFFICES ASSUME TxInv, ~Revokes
                 PROVE  /\ verdict.valid <=> verdict.ahead <= MaxClockSkew
                        /\ /\ verdict # NoVerdict
                           /\ \E i \in DOMAIN made : made[i].extended_retention
                           => verdict.keep
      BY DEF HonestBlockPasses
    <2>1. DOMAIN Block = DOMAIN made /\ \A i \in DOMAIN made : Block[i] = InBlock(made[i])
      BY DEF Block
    <2>2. \A i \in DOMAIN Block : validate_transaction(Block[i])
      BY <2>1, MadeIsValid DEF TxInv, Revokes
    <2>3. CASE verdict = NoVerdict
      BY <2>3, SkewIsNat DEF NoVerdict
    <2>4. CASE \E ahead \in Behind :
                  verdict = [ahead |-> ahead, valid |-> validate_block(Block, ahead),
                             keep |-> should_extend_retention(Block)]
      <3>1. PICK ahead \in Behind :
               verdict = [ahead |-> ahead, valid |-> validate_block(Block, ahead),
                          keep |-> should_extend_retention(Block)]
        BY <2>4
      <3>2. verdict.ahead = ahead /\ verdict.valid = validate_block(Block, ahead)
            /\ verdict.keep = should_extend_retention(Block)
        BY <3>1
      <3>3. validate_block(Block, ahead) <=> ahead <= MaxClockSkew
        BY <2>2, Zenon DEF validate_block
      <3>4. (\E i \in DOMAIN made : made[i].extended_retention) => should_extend_retention(Block)
        BY <2>1, ExtendedIsRevocation DEF TxInv, should_extend_retention, InBlock
      <3> QED
        BY <3>2, <3>3, <3>4, Zenon
    <2> QED
      BY <2>3, <2>4 DEF TxInv
  <1> QED
    BY <1>1, TxAlwaysInv, PTL
==============================================================================
