------------------------------- MODULE Lexer --------------------------------
(***************************************************************************)
(* lf_lex of src/frontend/lexical_analysis.c over a source string, and     *)
(* lf_parse_expr of syntax_analysis.c on its tokens.  One action per branch *)
(* of the scanning loop, each to the end of its turn.  The lists of tokens *)
(* and lexemes only grow, so they are sequences and a lexeme's pointer is  *)
(* its place; a lexeme is its slice of the source.                         *)
(***************************************************************************)
EXTENDS StringOps

CONSTANTS
  Letters,     \* what source texts are made of
  MaxLen,      \* bound on their length
  BlockSizes,  \* the block sizes a source string may have
  Keywords     \* stands for "use", "func", "entry": token types by their texts

Space == " "

\* there is memory for every source, and no more than size_t can count
ASSUME BoundsAssumption ==
  /\ MaxLen \in Nat /\ IsFiniteSet(Blocks)
  /\ \A q \in BlockSizes :
       q \in Nat \ {0} /\ q * Cardinality(Blocks) \in MaxLen .. SizeMod - 1
\* shorter ones would never be compared
ASSUME KeywordsAssumption ==
  \A k \in DOMAIN Keywords : Len(k) > 1 /\ Keywords[k] \in {"USE", "FUNC", "ENTRY"}
ASSUME LettersAssumption == Junk \notin Letters \cup {Space}
\* a lexeme's place is no null pointer, nor is a slice
ASSUME LexemeAssumption == Null \notin Nat \cup Slices

VARIABLES
  source,        \* [text, block_size]: what there is to lex
  src, data,     \* its string's arena and characters
  at,            \* src_iter and cur_char
  cur_lexeme, is_reading_str,
  tokens, lexemes,
  vals,          \* what was parsed
  status         \* "lexing", "done", "aborted" by an assert of the parser

vars == <<source, src, data, at, cur_lexeme, is_reading_str, tokens, lexemes,
          vals, status>>

Quote == "\""
Whitespace == {Space, "\n", "\r", "\t"}

HardType(c) ==
  CASE c = "/" -> "SLASH"
    [] c = "(" -> "PAREN_BEG"
    [] c = ")" -> "PAREN_END"
    [] c = "{" -> "BRACE_BEG"
    [] c = "}" -> "BRACE_END"
    [] c = ":" -> "COLON"
    [] c = "," -> "COMMA"
    [] OTHER   -> "UNKNOWN"

HardTypes == {"SLASH", "PAREN_BEG", "PAREN_END", "BRACE_BEG", "BRACE_END",
              "COLON", "COMMA"}

SoftType(c) ==
  CASE c = "=" -> "EQUAL"
    [] c = "!" -> "BANG"
    [] OTHER   -> "UNKNOWN"

(* The source string: blocks of an arena, filled with the text.             *)
Filled(s) ==
  LET a[n \in 0 .. Len(s.text)] ==
        IF n = 0 THEN InitString(Some(Blocks), s.block_size)
        ELSE Some(AllocAtTail(a[n - 1], 1))
  IN  a[Len(s.text)]
Contents(a, s) ==
  LET At(b) == CHOOSE i \in 1 .. a.block_count : Chain(a)[i] = b
  IN  [b \in a.live |-> [o \in 0 .. s.block_size - 1 |->
         s.text[(At(b) - 1) * s.block_size + o + 1]]]

(* Spaces fill the last block. *)
Padded(t, q) == t \o [i \in 1 .. (-Len(t)) % q |-> Space]

Init ==
  /\ \E len \in 1 .. MaxLen : \E text \in [1 .. len -> Letters] :
       \E q \in BlockSizes :
         source = [text |-> Padded(text, q), block_size |-> q]
  /\ src = Filled(source)
  /\ data = Contents(src, source)
  /\ at = FirstChar(src, Null)
  /\ cur_lexeme = Null
  /\ is_reading_str = FALSE
  /\ tokens = <<>> /\ lexemes = <<>> /\ vals = <<>>
  /\ status = "lexing"

Next1(p) == NextChar(src, Null, p)

(* Token's lexeme stays unset where the code sets only the type. *)
Token(type) == [type |-> type, lexeme |-> Junk]

(* A new lexeme of one character, from places after the iterator's. *)
NewLexeme(skip) ==
  /\ lexemes' = Append(lexemes,
       InitStringFromSlice(src, [head_block |-> at.block, tail_block |-> at.block,
                                 head_offset |-> at.off + skip,
                                 tail_offset |-> at.off + skip + 1, size |-> 0]))
  /\ cur_lexeme' = Len(lexemes) + 1

GrowLexeme == lexemes' = [lexemes EXCEPT ![cur_lexeme] = GrowSliceTail(src, @, 1)]

BigTypes(sl) ==
  {Keywords[k] : k \in {k \in DOMAIN Keywords : TRUE \in CompareSlice(src, data, sl, k)}}
  \cup IF \A k \in DOMAIN Keywords : FALSE \in CompareSlice(src, data, sl, k)
       THEN {"IDENTIFIER"} ELSE {}

(* Junk stands for any character. *)
SmallTypes(c) ==
  IF c = Junk THEN {"EQUAL", "BANG", "UNKNOWN"} \cup HardTypes
  ELSE IF SoftType(c) # "UNKNOWN" THEN {SoftType(c)} ELSE {HardType(c)}

(* _lf_flush_lexeme: the tokens it may make of the current lexeme. *)
Flushed ==
  LET sl  == lexemes[cur_lexeme]
      fst == CharAt(data, FirstChar(src, sl))
  IN  IF StringSize(src, sl) <= 1
      THEN {[type |-> type, lexeme |-> Null] : type \in SmallTypes(fst)}
      ELSE {IF type = "IDENTIFIER" THEN [type |-> type, lexeme |-> cur_lexeme]
                                   ELSE Token(type) : type \in BigTypes(sl)}

WithPending ==
  IF cur_lexeme = Null THEN {tokens} ELSE {Append(tokens, t) : t \in Flushed}

Reading == status = "lexing" /\ at # Null
Char == CharAt(data, at)
-----------------------------------------------------------------------------
(* A quote opens a string: the lexeme in progress, if any, is forgotten and *)
(* the next character is taken for the string's first.                      *)
OpenQuote ==
  /\ Reading /\ Char = Quote /\ ~is_reading_str
  /\ NewLexeme(1)
  /\ is_reading_str' = TRUE
  /\ at' = Next1(Next1(at))
  /\ UNCHANGED <<source, src, data, tokens, vals, status>>

CloseQuote ==
  /\ Reading /\ Char = Quote /\ is_reading_str
  /\ tokens' = Append(tokens, [type |-> "STR", lexeme |-> cur_lexeme])
  /\ cur_lexeme' = Null
  /\ is_reading_str' = FALSE
  /\ at' = Next1(at)
  /\ UNCHANGED <<source, src, data, lexemes, vals, status>>

InString ==
  /\ Reading /\ Char # Quote /\ is_reading_str
  /\ GrowLexeme
  /\ at' = Next1(at)
  /\ UNCHANGED <<source, src, data, cur_lexeme, is_reading_str, tokens, vals, status>>

Outside == Reading /\ Char # Quote /\ ~is_reading_str

PendingKept == cur_lexeme' = cur_lexeme   \* mutant: a flushed lexeme stays current
PendingDone == cur_lexeme' = Null

SkipWhitespaceInPlace ==           \* mutant: the iterator does not move
  /\ Outside /\ Char \in Whitespace
  /\ tokens' \in WithPending
  /\ PendingDone
  /\ UNCHANGED <<source, src, data, at, is_reading_str, lexemes, vals, status>>
SkipWhitespace ==
  /\ Outside /\ Char \in Whitespace
  /\ tokens' \in WithPending
  /\ PendingDone
  /\ at' = Next1(at)
  /\ UNCHANGED <<source, src, data, is_reading_str, lexemes, vals, status>>

HardBoundaryAlone ==               \* mutant: the lexeme before it is not flushed
  /\ Outside /\ HardType(Char) # "UNKNOWN"
  /\ tokens' = Append(tokens, Token(HardType(Char)))
  /\ PendingDone
  /\ at' = Next1(at)
  /\ UNCHANGED <<source, src, data, is_reading_str, lexemes, vals, status>>
HardBoundary ==
  /\ Outside /\ HardType(Char) # "UNKNOWN"
  /\ tokens' \in {Append(ts, Token(HardType(Char))) : ts \in WithPending}
  /\ PendingDone
  /\ at' = Next1(at)
  /\ UNCHANGED <<source, src, data, is_reading_str, lexemes, vals, status>>

LexemeChar ==
  /\ Outside /\ Char \notin Whitespace /\ HardType(Char) = "UNKNOWN"
  /\ IF cur_lexeme = Null THEN NewLexeme(0) ELSE GrowLexeme /\ UNCHANGED cur_lexeme
  /\ at' = Next1(at)
  /\ UNCHANGED <<source, src, data, is_reading_str, tokens, vals, status>>

Finish ==
  /\ status = "lexing" /\ at = Null
  /\ tokens' \in {Append(ts, [type |-> "EOF", lexeme |-> Null]) : ts \in WithPending}
  /\ PendingDone
  /\ status' = "done"
  /\ UNCHANGED <<source, src, data, at, is_reading_str, lexemes, vals>>

(* lf_parse_expr on one token after the other: a string or an assert. *)
ParseExpr ==
  /\ status = "done"
  /\ LET token == tokens[Len(vals) + 1]
     IN  IF token.type = "STR"
         THEN vals' = Append(vals, [type |-> "STR", as_str |-> token.lexeme])
                /\ UNCHANGED status
         ELSE vals' = Append(vals, Junk) /\ status' = "aborted"
  /\ UNCHANGED <<source, src, data, at, cur_lexeme, is_reading_str, tokens, lexemes>>

Lex == OpenQuote \/ CloseQuote \/ InString \/ SkipWhitespace \/ HardBoundary
         \/ LexemeChar \/ Finish

Next == Lex \/ ParseExpr

(* lf_lex is one loop of one thread; parsing is up to the client. *)
Spec == Init /\ [][Next]_vars /\ WF_vars(Lex)
-----------------------------------------------------------------------------
(* The source's tokens, defined on its text alone.                          *)
QuotesBefore(t, i) == Cardinality({j \in 1 .. i - 1 : t[j] = Quote})
IsQuoted(t, i) == t[i] # Quote /\ QuotesBefore(t, i) % 2 = 1
IsHard(t, i) == HardType(t[i]) # "UNKNOWN" /\ ~IsQuoted(t, i)
IsWordChar(t, i) ==
  t[i] # Quote /\ t[i] \notin Whitespace /\ ~IsHard(t, i) /\ ~IsQuoted(t, i)
Opens(t, i) == t[i] = Quote /\ QuotesBefore(t, i) % 2 = 0

(* The stretch of characters like the i-th, from the i-th on. *)
Quoted(t, i) == LET j == CHOOSE j \in i .. Len(t) :
                           /\ \A k \in i .. j : IsQuoted(t, k)
                           /\ j = Len(t) \/ ~IsQuoted(t, j + 1)
                IN  SubSeq(t, i, j)
Word(t, i) == LET j == CHOOSE j \in i .. Len(t) :
                         /\ \A k \in i .. j : IsWordChar(t, k)
                         /\ j = Len(t) \/ ~IsWordChar(t, j + 1)
              IN  SubSeq(t, i, j)

WordType(w) ==
  CASE w \in DOMAIN Keywords -> Keywords[w]
    [] Len(w) = 1 /\ SoftType(w[1]) # "UNKNOWN" -> SoftType(w[1])
    [] OTHER -> "IDENTIFIER"

TokenAt(t, i) ==
  CASE Opens(t, i)  -> [type |-> "STR", text |-> Quoted(t, i + 1)]
    [] IsHard(t, i) -> [type |-> HardType(t[i]), text |-> <<>>]
    [] OTHER -> [type |-> WordType(Word(t, i)),
                 text |-> IF WordType(Word(t, i)) = "IDENTIFIER" THEN Word(t, i) ELSE <<>>]

WordStarts(t) ==
  {i \in 1 .. Len(t) : IsWordChar(t, i) /\ (i = 1 \/ ~IsWordChar(t, i - 1))}
TokenStarts(t) == WordStarts(t) \cup {i \in 1 .. Len(t) : Opens(t, i) \/ IsHard(t, i)}

(* The tokens that start before the n-th character. *)
TokensBefore(t, n) ==
  FlattenSeq([i \in 1 .. n - 1 |-> IF i \in TokenStarts(t) THEN <<TokenAt(t, i)>> ELSE <<>>])

TokensOf(t) == TokensBefore(t, Len(t) + 1) \o <<[type |-> "EOF", text |-> <<>>]>>

(* What the code cannot lex: a string that is not closed or empty, or whose *)
(* quote ends a block; a word glued to the string after it, which is lost;  *)
(* over two blocks, a word as long as a keyword.                            *)
WellQuoted(s) ==
  /\ QuotesBefore(s.text, Len(s.text) + 1) % 2 = 0
  /\ \A i \in 1 .. Len(s.text) :
       Opens(s.text, i) => /\ s.text[i + 1] # Quote
                           /\ i % s.block_size # 0
                           /\ i > 1 => ~IsWordChar(s.text, i - 1)
WellWorded(s) ==
  \A i \in WordStarts(s.text) :
    LET n == Len(Word(s.text, i))
    IN  n \in {Len(k) : k \in DOMAIN Keywords} =>
          (i - 1) \div s.block_size = (i + n - 2) \div s.block_size
(* Words of one letter; one soft boundary character is a token of its own.  *)
OneLetterWords(s) ==
  {i \in WordStarts(s.text) : /\ Len(Word(s.text, i)) = 1
                              /\ SoftType(s.text[i]) = "UNKNOWN"}

View ==
  [i \in DOMAIN tokens |->
     [type |-> tokens[i].type,
      text |-> IF tokens[i].type \in {"STR", "IDENTIFIER"}
               THEN SliceText(src, data, lexemes[tokens[i].lexeme]) ELSE <<>>]]

LexedAll == status # "lexing" /\ WellQuoted(source) /\ WellWorded(source)

(* Type invariant. *)
TypeOK ==
  /\ at = Null \/ at \in [block: src.live, off: 0 .. source.block_size - 1]
  /\ lexemes \in Seq(Slices)
  /\ cur_lexeme \in DOMAIN lexemes \cup {Null}
  /\ is_reading_str \in BOOLEAN
  /\ \A i \in DOMAIN tokens : tokens[i].lexeme \in DOMAIN lexemes \cup {Null, Junk}
  /\ status \in {"lexing", "done", "aborted"}

(* lexical_analysis.c:15-18 and the lexer's tests: the tokens, with the     *)
(* texts their slices designate, are those of the source: strings, hard     *)
(* boundaries, and whole words between them, also across blocks.            *)
TokensOfSource ==
  LexedAll /\ OneLetterWords(source) = {} => View = TokensOf(source.text)

(* docs/walkthrough.lf:7 has a parameter called p.                          *)
EveryWordIsToken == LexedAll => View = TokensOf(source.text)

(* Tokens and values point at lexemes whose slices the scan goes on moving  *)
(* (lexical_analysis.c:157 and 210): what a token says never changes once   *)
(* it is in the list.                                                       *)
TokensStay == [][ IsPrefix(View, View') ]_vars

(* The scan ends, however the source is broken.                             *)
Terminates == <>(status # "lexing")
=============================================================================
