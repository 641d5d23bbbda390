------------------------------ MODULE Chunker ------------------------------
(* The two algorithms of ClauseChunker (ingestion/chunker.py): the clause     *)
(* path a chunk is filed under, which is found from the numbering alone, and  *)
(* the division of a section into chunks of bounded length.                   *)
EXTENDS Naturals, Sequences, SequencesExt

CONSTANTS
    Articles, Numbers,  \* bounds: the last article, the last number
    Limit,              \* 2000 characters
    Lengths,            \* of the words that are tried
    MaxWords,           \* bound: in a sentence
    MaxSentences        \* bound: in a section

ASSUME ChunkerAssumption ==
    /\ Articles \in Nat /\ Numbers \in Nat /\ Limit \in Nat
    /\ Lengths \subseteq Nat \ {0} /\ MaxWords \in Nat /\ MaxSentences \in Nat

VARIABLES
    outline,     \* the headings so far: where the document is, and the code
    section      \* the sentences so far, and what became of them

-----------------------------------------------------------------------------
(* Paths.  A heading is an article, a number, a letter or a roman numeral,    *)
(* and "(i)", "(v)" and "(x)" are written alike as letter and numeral.        *)

Romans == <<"i", "ii", "iii", "iv", "v", "vi", "vii", "viii", "ix", "x", "xi">>
Letters == <<"a", "b", "c", "d", "e", "f", "g", "h", "i", "j", "k", "l", "m",
             "n", "o", "p", "q", "r", "s", "t", "u", "v", "w", "x", "y">>

\* A heading as it is written: what it looks like, and its text.
Heading(form, text) == [form |-> form, text |-> text]
InBrackets(h) == h.form = "()"
IsLetter(h) == InBrackets(h) /\ \E k \in DOMAIN Letters : Letters[k] = h.text
IsRoman(h) == InBrackets(h) /\ \E k \in DOMAIN Romans : Romans[k] = h.text

Before == [i |-> "h", v |-> "u", x |-> "w"]

\* The last heading of the path that looks like one letter.
LastLetter(path) == SelectLastInSubSeq(path, 1, Len(path), IsLetter)

(* Mutant: no trap check.                                                     *)
LevelBug(h, path) ==
    CASE h.form = "article" -> 0
      [] h.form = "number" -> 1
      [] IsRoman(h) -> 3
      [] OTHER -> 2

(* _get_node_level: the first of its tests that holds decides.                *)
Level(h, path) ==
    IF h.form = "article" THEN 0
    ELSE IF h.form = "number" THEN 1
    ELSE IF h.text \in DOMAIN Before
    THEN LET k == LastLetter(path) IN
         IF k > 0 /\ path[k].text = Before[h.text] THEN 2 ELSE 3
    ELSE IF IsRoman(h) THEN 3 ELSE 2

(* _update_hierarchy: the new heading replaces those from the first one on    *)
(* that is not above it.  The old ones are judged by the whole old path.      *)
UpdateHierarchy(path, h) ==
    LET Above(k) == \A j \in 1..k : Level(path[j], path) < Level(h, path)
        kept == CHOOSE k \in 0..Len(path) :
                    Above(k) /\ (k < Len(path) => ~Above(k + 1))
    IN  Append(SubSeq(path, 1, kept), h)

-----------------------------------------------------------------------------
(* Chunks.  A sentence is a sequence of words, a word its length.             *)

\* len of the words joined by blanks.
Length(words) ==
    LET upTo[k \in 0..Len(words)] ==
          IF k = 0 THEN 0
          ELSE upTo[k - 1] + words[k] + (IF k = 1 THEN 0 ELSE 1)
    IN  upTo[Len(words)]

\* The next word of a sentence that is cut.
AddWord(state, word, limit) ==
    IF Length(state.text) + word + 1 > limit
    THEN [done |-> Append(state.done, state.text), text |-> <<word>>]
    ELSE [state EXCEPT !.text = Append(@, word)]

Cut(start, sentence, limit) ==
    LET cut[k \in 0..Len(sentence)] ==
          IF k = 0 THEN start ELSE AddWord(cut[k - 1], sentence[k], limit)
    IN  cut[Len(sentence)]

(* Mutant: the text before a sentence that is too long is not saved.          *)
AddLongBug(state, sentence, limit) ==
    Cut([state EXCEPT !.text = <<>>], sentence, limit)

(* A sentence above the limit: the text so far is a chunk, and the sentence   *)
(* is cut between words; its rest is the text the next sentence joins.        *)
AddLong(state, sentence, limit) ==
    LET saved == IF state.text = <<>> THEN state.done
                 ELSE Append(state.done, state.text)
    IN  Cut([done |-> saved, text |-> <<>>], sentence, limit)

AddSentence(state, sentence, limit) ==
    IF Length(sentence) > limit THEN AddLong(state, sentence, limit)
    ELSE IF Length(state.text) + Length(sentence) + 1 > limit
    THEN [done |-> Append(state.done, state.text), text |-> sentence]
    ELSE [state EXCEPT !.text = @ \o sentence]

-----------------------------------------------------------------------------
(* build_chunks, heading by heading and sentence by sentence.                 *)

chunkerVars == <<outline, section>>

(* at[l]: the article, number, letter and roman numeral the document is in,   *)
(* 0 if in none; before: the last numeral below the letter before; path:      *)
(* current_hierarchy.                                                         *)
Start == [at |-> [l \in 0..3 |-> 0], before |-> 0, path |-> <<>>]

Text(l, k) ==
    CASE l = 0 -> Heading("article", k)
      [] l = 1 -> Heading("number", k)
      [] l = 2 -> Heading("()", Letters[k])
      [] l = 3 -> Heading("()", Romans[k])

LastNumber(l) ==
    CASE l = 0 -> Articles [] l = 1 -> Numbers
      [] l = 2 -> Len(Letters) [] l = 3 -> Len(Romans)

EmptySection == [done |-> <<>>, text |-> <<>>, given |-> <<>>, sentences |-> 0]

ChunkerInit == outline = Start /\ section = EmptySection

(* The document's next heading of level l: the first, or one after the last.  *)
NextHeading(l) ==
    LET at == [m \in 0..3 |->
                 IF m < l THEN outline.at[m]
                 ELSE IF m = l THEN outline.at[m] + 1 ELSE 0]
    IN  /\ section = EmptySection
        /\ at[l] <= LastNumber(l)
        /\ outline' = [at |-> at,
                       before |-> IF l = 2 THEN outline.at[3]
                                  ELSE IF l = 3 THEN outline.before ELSE 0,
                       path |-> UpdateHierarchy(outline.path, Text(l, at[l]))]
        /\ UNCHANGED section

(* The next document starts with no heading.                                  *)
EndDocument ==
    /\ outline # Start
    /\ outline' = Start
    /\ UNCHANGED section

(* A section below some heading (which is no matter to the chunks' bounds).   *)
NextSentence(sentence) ==
    LET s == AddSentence([done |-> section.done, text |-> section.text], sentence, Limit)
    IN  /\ outline = Start
        /\ section.sentences < MaxSentences
        /\ section' = [section EXCEPT
                         !.done = s.done, !.text = s.text,
                         !.given = @ \o sentence, !.sentences = @ + 1]
        /\ UNCHANGED outline

(* The text that is left is a chunk of its own, and the next section starts.  *)
EndSection ==
    /\ section.sentences > 0
    /\ section' = EmptySection
    /\ UNCHANGED outline

Sentences == UNION {[1..n -> Lengths] : n \in 1..MaxWords}

ChunkerNext ==
    \/ \E l \in 0..3 : NextHeading(l)
    \/ EndDocument
    \/ \E s \in Sentences : NextSentence(s)
    \/ EndSection

ChunkerSpec == ChunkerInit /\ [][ChunkerNext]_chunkerVars

-----------------------------------------------------------------------------
(* Properties.                                                                *)

Part(l) ==
    IF outline.at[l] = 0 THEN <<>> ELSE <<Text(l, outline.at[l])>>

TruePath == Part(0) \o Part(1) \o Part(2) \o Part(3)

(* Where a numeral cannot be told from a letter by the one before it: (i) to  *)
(* (xi) below the letters h, i, v and x, (v) on below u and (x) on below w,   *)
(* and the letters v and x after (i), (v) or (x).                             *)
Ambiguous ==
    LET letter == outline.at[2]
        roman == outline.at[3]
        is == IF letter = 0 THEN "none" ELSE Letters[letter]
    IN  \/ roman # 0 /\ is \in {"h", "i", "v", "x"}
        \/ roman >= 5 /\ is = "u"
        \/ roman >= 10 /\ is = "w"
        \/ outline.before \in {1, 5, 10} /\ is \in {"v", "x"}

(* Everywhere else the path is the true one, also after a part where it was   *)
(* not: a wrong guess between letter and numeral is not dragged on            *)
(* (_get_node_level, _update_hierarchy).                                      *)
PathIsTrue == ~Ambiguous => outline.path = TruePath

Fits(words) == Length(words) <= Limit \/ Len(words) = 1

Whole == section.done \o IF section.text = <<>> THEN <<>> ELSE <<section.text>>

(* The chunks of a section are its words, none lost, doubled or moved,        *)
(* however long sentences and short ones follow each other, and none is       *)
(* longer than the limit unless it is one word (_process_section).            *)
ChunksHoldText ==
    /\ FlattenSeq(Whole) = section.given
    /\ \A k \in DOMAIN Whole : Fits(Whole[k])

-----------------------------------------------------------------------------
(* Strengthenings of the invariants that the steps of the program preserve.   *)

(* The letter that the code has above the last heading, 0 if none: as a       *)
(* wrong guess takes (i) below h, (v) on below u and (x) on below w for       *)
(* letters, and the letters v and x for numerals.                             *)
LetterAbove ==
    LET letter == outline.at[2]
        roman == outline.at[3]
    IN  IF \/ letter = 22 /\ outline.before = 1 /\ roman < 5
           \/ letter = 24 /\ outline.before \in {1, 5} /\ roman < 10
        THEN letter - 1
        ELSE IF \/ roman = 0 \/ letter \in {0, 8, 9, 22, 24}
                \/ letter = 21 /\ roman >= 5
                \/ letter = 23 /\ roman >= 10
        THEN 0
        ELSE letter

Headings ==
    {Text(l, k) : l \in {0, 1}, k \in Nat \ {0}}
        \cup {Text(2, k) : k \in 1..25} \cup {Text(3, k) : k \in 1..11}

(* PathIsTrue, and what the path is where it is not true.                     *)
OutlineInv ==
    /\ outline \in [at : [0..3 -> Nat], before : 0..11, path : Seq(Headings)]
    /\ outline.at[2] <= 25 /\ outline.at[3] <= 11
    /\ outline.path =
         Part(0) \o Part(1)
           \o (IF LetterAbove = 0 THEN <<>> ELSE <<Text(2, LetterAbove)>>)
           \o (IF outline.at[3] = 0 THEN Part(2) ELSE Part(3))

(* ChunksHoldText, with the types of what is gathered, and the text of the    *)
(* chunk under way within the limit before it is one.                         *)
SectionInv ==
    /\ section \in [done : Seq(Seq(Nat)), text : Seq(Nat),
                    given : Seq(Nat), sentences : Nat]
    /\ FlattenSeq(section.done) \o section.text = section.given
    /\ \A k \in DOMAIN section.done : Fits(section.done[k])
    /\ Fits(section.text)

=============================================================================
