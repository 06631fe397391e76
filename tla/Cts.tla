-------------------------------- MODULE Cts ----------------------------------
(***************************************************************************)
(* dict/cts_parser.rs: compact tag sequences.  parse_cts reads characters  *)
(* from the left; a digit 0, 1 or 2 ends a word and sets the status of the *)
(* words after it, and only such a digit ends a word.                      *)
(***************************************************************************)
EXTENDS Integers, Sequences, SequencesExt

CONSTANTS Letter,      \* characters of words, one of them a space
          Space,
          MaxTags,     \* 10 in the code
          MaxInput     \* bound on the length of an input

ASSUME LimitsAreNat == MaxTags \in Nat /\ MaxInput \in Nat

TagStatus == {"Positive", "Negative", "Mediating", "Limiting"}

Digit == {"0", "1", "2"}

StatusOf(c) == CASE c = "0" -> "Negative"
                 [] c = "1" -> "Mediating"
                 [] c = "2" -> "Limiting"

Prefix(status) == CASE status = "Positive"  -> << >>
                    [] status = "Negative"  -> <<"0">>
                    [] status = "Mediating" -> <<"1">>
                    [] status = "Limiting"  -> <<"2">>

NoError == "none"

(* A parser state is the locals of the loop and the error that ended it.   *)
ParserStart == [tags |-> << >>, word |-> << >>, status |-> "Positive", error |-> NoError]

Fails(p, e) == [p EXCEPT !.error = e]

(* For the mutation runs: a limiting tag may follow any tag.               *)
validate_and_push_tag_anyTag(p) ==
    IF p.status = "Limiting" /\ p.tags = << >>
    THEN Fails(p, "LimitingWithoutMediating")
    ELSE [p EXCEPT !.tags = Append(@, [status |-> p.status, word |-> p.word]),
                   !.word = << >>]

validate_and_push_tag(p) ==
    IF p.status = "Limiting" /\ (p.tags = << >> \/ Last(p.tags).status # "Mediating")
    THEN Fails(p, "LimitingWithoutMediating")
    ELSE [p EXCEPT !.tags = Append(@, [status |-> p.status, word |-> p.word]),
                   !.word = << >>]

PushPending(p) == IF p.word = << >> THEN p ELSE validate_and_push_tag(p)

SetStatus(p, c) == IF p.error = NoError THEN [p EXCEPT !.status = StatusOf(c)] ELSE p

ReadChar(p, c) ==
    IF p.error # NoError THEN p
    ELSE IF c \in Digit THEN SetStatus(PushPending(p), c)
    ELSE IF c = Space THEN Fails(p, "SpaceInTag")
    ELSE [p EXCEPT !.word = Append(@, c)]

(* What is left after the last character, and the checks of the whole.     *)
Finish(p, input) ==
    LET q == IF p.error # NoError THEN p
             ELSE IF p.word # << >> THEN validate_and_push_tag(p)
             ELSE IF Last(input) \in Digit THEN Fails(p, "TrailingStatusChar")
             ELSE p
    IN IF q.error # NoError THEN q
       ELSE IF \A i \in DOMAIN q.tags : q.tags[i].status # "Positive"
       THEN Fails(q, "AtLeastOnePositiveRequired")
       ELSE IF Len(q.tags) > MaxTags THEN Fails(q, "TooManyTags")
       ELSE q

ReadAll(input) ==
    LET parser[n \in 0..Len(input)] ==
          IF n = 0 THEN ParserStart ELSE ReadChar(parser[n - 1], input[n])
    IN parser[Len(input)]

parse_cts(input) ==
    IF input = << >> THEN Fails(ParserStart, "EmptyInput")
    ELSE Finish(ReadAll(input), input)

serialize_cts(tags) ==
    LET out[n \in 0..Len(tags)] ==
          IF n = 0 THEN << >> ELSE out[n - 1] \o Prefix(tags[n].status) \o tags[n].word
    IN out[Len(tags)]

------------------------------------------------------------------------------
VARIABLE typed    \* the input, one character after the other

CtsInit == typed = << >>

type_char == /\ Len(typed) < MaxInput
             /\ \E c \in Letter \cup Digit : typed' = Append(typed, c)

CtsNext == type_char

CtsSpec == CtsInit /\ [][CtsNext]_typed

CtsTypeOK == typed \in BoundedSeq(Letter \cup Digit, MaxInput)

------------------------------------------------------------------------------
(* What the parser accepts: the rules of a sequence, a limiting tag only   *)
(* right after a mediating one, at most MaxTags tags, no empty word, and   *)
(* at least one positive tag.  That the positive tag is the first, and the *)
(* only one, is no rule but comes of the syntax, which has no digit for it *)
(* (see HybridSurvivesText).                                               *)
WellFormed(tags) ==
    /\ tags # << >>
    /\ \A i \in DOMAIN tags : tags[i].status = "Positive" <=> i = 1
    /\ \A i \in DOMAIN tags : tags[i].status = "Limiting" =>
           i > 1 /\ tags[i - 1].status = "Mediating"
    /\ Len(tags) <= MaxTags
    /\ \A i \in DOMAIN tags : tags[i].word # << >>

(* What the parser accepts obeys the rules, and writing it out and parsing *)
(* it again returns the same tags: a device that receives the text of a    *)
(* meetup reads what its creator saw.                                      *)
ParsedSurvivesText ==
    LET p == parse_cts(typed)
    IN p.error = NoError =>
           /\ WellFormed(p.tags)
           /\ parse_cts(serialize_cts(p.tags)) = p

(* "Allows MULTIPLE positive tags (Hybrid meetups)" (cts_parser.rs:4): two *)
(* positive words written one after the other are two positive tags.       *)
Positive(word) == [status |-> "Positive", word |-> word]

HybridSurvivesText ==
    typed # << >> /\ Range(typed) \subseteq Letter \ {Space} =>
        LET tags == <<Positive(typed), Positive(typed)>>
        IN parse_cts(serialize_cts(tags)).tags = tags
==============================================================================
