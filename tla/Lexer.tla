-------------------------------- MODULE Lexer --------------------------------
(***************************************************************************)
(* The lexer of parser.c: operators are found in a trie, names and numbers *)
(* by their first character, and keywords by the address that the string   *)
(* table gives their text.  The parser peeks at the next token or takes it.*)
(*                                                                         *)
(* The text is read from a file into a buffer of its length, without a     *)
(* character at its end that stops the loops which look for the end of a   *)
(* token: they read what is behind the buffer.                             *)
(***************************************************************************)
EXTENDS StringTable, FiniteSets

CONSTANTS
  Texts,   \* the files: sequences of characters
  Behinds  \* what the byte behind the buffer may be

ASSUME LexerAssumption == Texts \subseteq Seq(STRING) /\ Behinds \subseteq STRING

VARIABLES
  source,         \* the text
  behind,         \* the byte behind it
  stage,          \* 0, then the next keyword to add, then LEXING or EXIT
  start, curr,    \* positions in the text
  is_next_lexed, next_token,
  tokens          \* history: the tokens that the parser took

lexVars == <<source, behind, stage, start, curr, is_next_lexed, next_token, tokens>>
vars == <<tableVars, lexVars>>

Digits == {"0", "1", "2", "3", "4", "5", "6", "7", "8", "9"}
Special == {"{", "}", "(", ")", "=", "!", "<", ">", "+", "-", "*", "/", ".", ":", ",", ";"}
Space == {" ", "\t", "\r", "\n"}
\* IS_ALPHA: the letters that occur in the texts, "#" and NUL stand for all else.
Unknown == {"#", "NUL"}
IsNum(c) == c \in Digits
IsAlpha(c) == c \notin Digits \cup Special \cup Space \cup Unknown

-----------------------------------------------------------------------------
(***************************************************************************)
(* The tables.                                                             *)
(***************************************************************************)
BASIC_TOKENS ==
  << <<"{">>, <<"}">>, <<"(">>, <<")">>, <<"=">>, <<"=", "=">>,
     <<"!">>, <<"!", "=">>, <<"<">>, <<">">>, <<"<", "=">>, <<">", "=">>,
     <<"+">>, <<"-">>, <<"+", "=">>, <<"-", "=">>,
     <<"*">>, <<"*", "*">>, <<"/">>, <<"/", "/">>, <<"*", "=">>, <<"*", "*", "=">>,
     <<"/", "=">>, <<"/", "/", "=">>, <<".">>, <<":">>, <<",">>, <<";">> >>

BASIC_TOKEN_INDICIES ==
  <<"LEFT_BRACE", "RIGHT_BRACE", "LEFT_PAREN", "RIGHT_PAREN", "EQUAL", "EQUAL_EQUAL",
    "BANG", "BANG_EQUAL", "LESS", "GREATER", "LESS_EQUAL", "GREATER_EQUAL",
    "PLUS", "MINUS", "PLUS_EQUAL", "MINUS_EQUAL",
    "STAR", "STAR_STAR", "SLASH", "SLASH_SLASH", "STAR_EQUAL", "STAR_STAR_EQUAL",
    "SLASH_EQUAL", "SLASH_SLASH_EQUAL", "DOT", "COLON", "COMMA", "SEMICOLON">>

KEYWORDS ==
  << [type |-> "DEF", text |-> <<"d", "e", "f">>],
     [type |-> "RETURN", text |-> <<"r", "e", "t", "u", "r", "n">>],
     [type |-> "LET", text |-> <<"l", "e", "t">>],
     [type |-> "IF", text |-> <<"i", "f">>],
     [type |-> "WHILE", text |-> <<"w", "h", "i", "l", "e">>],
     [type |-> "ELSE", text |-> <<"e", "l", "s", "e">>] >>

LEXING == Len(KEYWORDS) + 1
EXIT == Len(KEYWORDS) + 2

\* construct_trie.  A node is the sequence of characters that leads to it, its
\* index the position here.  A token is followed as far as there are nodes.
Prefix(t, n) == SubSeq(t, 1, n)

Followed(t, nodes) ==
  CHOOSE n \in 0 .. Len(t) :
    /\ \A m \in 1 .. n : \E k \in DOMAIN nodes : nodes[k] = Prefix(t, m)
    /\ n = Len(t) \/ \A k \in DOMAIN nodes : nodes[k] # Prefix(t, n + 1)

NewNodes(t, nodes) ==
  [n \in 1 .. Len(t) - Followed(t, nodes) |-> Prefix(t, Followed(t, nodes) + n)]

TrieOf[i \in 0 .. Len(BASIC_TOKENS)] ==
  IF i = 0 THEN << >>
  ELSE LET nodes == TrieOf[i - 1] IN nodes \o NewNodes(BASIC_TOKENS[i], nodes)

Trie == TrieOf[Len(BASIC_TOKENS)]

Children == {Trie[n] : n \in DOMAIN Trie}
IndexOf(node) == CHOOSE n \in DOMAIN Trie : Trie[n] = node
Leaves == {BASIC_TOKENS[i] : i \in DOMAIN BASIC_TOKENS}

-----------------------------------------------------------------------------
(***************************************************************************)
(* One token.                                                              *)
(***************************************************************************)
AtEnd(p) == p > Len(source)
Byte(p) == IF ~AtEnd(p) THEN source[p] ELSE IF p = Len(source) + 1 THEN behind ELSE "NUL"
Bytes(from, to) == [n \in 1 .. to - from |-> Byte(from + n - 1)]

\* The first position from p on, up to the byte behind, where the loop stops.
FirstFrom(p, Stops(_)) ==
  CHOOSE q \in p .. Len(source) + 2 : Stops(q) /\ \A r \in p .. q - 1 : ~Stops(r)

SkipSpace(p) == LET Stops(q) == AtEnd(q) \/ Byte(q) \notin Space IN FirstFrom(p, Stops)

\* Mutant: the node is taken for a token as soon as it may be one.
MatchEndShort(p) == IF <<Byte(p)>> \in Leaves THEN p + 1 ELSE p

\* lexer_trie_match: as far as there is a child.
MatchEnd(p) == LET Stops(q) == Bytes(p, q + 1) \notin Children IN FirstFrom(p, Stops)

WordEnd(p) == LET Stops(q) == ~IsAlpha(Byte(q)) /\ ~IsNum(Byte(q)) IN FirstFrom(p, Stops)
NumberEnd(p) == LET Stops(q) == ~IsNum(Byte(q)) IN FirstFrom(p, Stops)

\* The type of a name, by the address of its text.
TypeOfName(address) ==
  IF \E n \in DOMAIN KEYWORDS : interned[KEYWORDS[n].text] = address
  THEN KEYWORDS[CHOOSE n \in DOMAIN KEYWORDS : interned[KEYWORDS[n].text] = address].type
  ELSE "IDENT"

\* lexer_emit_token and lexer_emit_ident.
EmitToken(type, p, q) ==
  /\ Add(Bytes(p, q))
  /\ start' = p
  /\ curr' = q
  /\ next_token' = [type |-> type, text |-> last'.address, start |-> p, end |-> q]
  /\ UNCHANGED stage

Unrecognized(p) ==
  /\ stage' = EXIT
  /\ start' = p
  /\ curr' = p
  /\ UNCHANGED <<tableVars, next_token>>

Lex ==
  LET p == SkipSpace(curr)
      node == Bytes(p, MatchEnd(p))
  IN  \/ /\ AtEnd(curr)
         /\ EmitToken("EOF", curr, curr)
      \/ /\ ~AtEnd(curr) /\ node \in Leaves
         /\ EmitToken(BASIC_TOKEN_INDICIES[IndexOf(node)], p, MatchEnd(p))
      \/ /\ ~AtEnd(curr) /\ node \notin Leaves /\ IsAlpha(Byte(p))
         /\ EmitToken(TypeOfName(last'.address), p, WordEnd(p))
      \/ /\ ~AtEnd(curr) /\ node \notin Leaves /\ IsNum(Byte(p))
         /\ EmitToken("NUMBER", p, NumberEnd(p))
      \/ /\ ~AtEnd(curr) /\ node \notin Leaves /\ ~IsAlpha(Byte(p)) /\ ~IsNum(Byte(p))
         /\ IF AtEnd(p) THEN EmitToken("EOF", p, p) ELSE Unrecognized(p)

-----------------------------------------------------------------------------
Init ==
  /\ TableInit
  /\ source \in Texts
  /\ behind \in Behinds
  /\ stage = 0
  /\ start = 1
  /\ curr = 1
  /\ is_next_lexed = FALSE
  /\ next_token = [type |-> "none"]
  /\ tokens = << >>

\* read_file interns the whole file; create_lexer the keywords.
ReadFile ==
  /\ stage = 0
  /\ Add(source)
  /\ stage' = 1
  /\ UNCHANGED <<source, behind, start, curr, is_next_lexed, next_token, tokens>>

AddKeyword ==
  /\ stage \in DOMAIN KEYWORDS
  /\ Add(KEYWORDS[stage].text)
  /\ stage' = stage + 1
  /\ UNCHANGED <<source, behind, start, curr, is_next_lexed, next_token, tokens>>

\* The parser takes nothing behind the end of the file.
Reads == stage = LEXING /\ \A n \in DOMAIN tokens : tokens[n].type # "EOF"

\* lexer_peek_token; it does nothing when the token is there.
PeekToken ==
  /\ Reads
  /\ ~is_next_lexed
  /\ Lex
  /\ is_next_lexed' = (stage' # EXIT)
  /\ UNCHANGED <<source, behind, tokens>>

\* lexer_next_token.
NextToken ==
  /\ Reads
  /\ IF is_next_lexed THEN UNCHANGED <<tableVars, stage, start, curr, next_token>> ELSE Lex
  /\ is_next_lexed' = FALSE
  /\ tokens' = IF stage' = EXIT THEN tokens ELSE Append(tokens, next_token')
  /\ UNCHANGED <<source, behind>>

Next == ReadFile \/ AddKeyword \/ PeekToken \/ NextToken

Spec == Init /\ [][Next]_vars

-----------------------------------------------------------------------------
(***************************************************************************)
(* What the tokens of a text are.                                          *)
(***************************************************************************)
IsWord(t) == t # << >> /\ IsAlpha(t[1]) /\ \A n \in DOMAIN t : IsAlpha(t[n]) \/ IsNum(t[n])
IsNumber(t) == t # << >> /\ \A n \in DOMAIN t : IsNum(t[n])
IsToken(t) == t \in Leaves \/ IsWord(t) \/ IsNumber(t)

TypeFor(t) ==
  IF t = << >> THEN "EOF"
  ELSE IF t \in Leaves
  THEN BASIC_TOKEN_INDICIES[CHOOSE i \in DOMAIN BASIC_TOKENS : BASIC_TOKENS[i] = t]
  ELSE IF IsNumber(t) THEN "NUMBER"
  ELSE IF \E n \in DOMAIN KEYWORDS : KEYWORDS[n].text = t
  THEN KEYWORDS[CHOOSE n \in DOMAIN KEYWORDS : KEYWORDS[n].text = t].type
  ELSE "IDENT"

\* The text of token n, which reaches behind the buffer only if the byte there
\* goes on with it, or with spaces at the end begins it.
TextOf(n) == Bytes(tokens[n].start, tokens[n].end)
EndOf(n) == IF n = 0 THEN 1 ELSE tokens[n].end

\* The tokens follow each other with only spaces between them; each is a token
\* as long as it can be, has the type of its text, though that is found by the
\* index of a trie node or by an address, and refers to that text.  No input is
\* given up that begins with a token.  (Whether the last token ends with the
\* file is up to the byte behind the buffer.)
TokensAreTheText ==
  /\ \A n \in DOMAIN tokens :
       LET t == TextOf(n)
           until == Len(source) + (IF tokens[n].end > Len(source) + 1 THEN 1 ELSE 0)
       IN  /\ \A p \in EndOf(n - 1) .. tokens[n].start - 1 : Byte(p) \in Space
           /\ tokens[n].type = TypeFor(t)
           /\ tokens[n].text = (IF t = << >> THEN NullString ELSE interned[t])
           /\ tokens[n].type = "EOF" => tokens[n].start > Len(source)
           /\ tokens[n].type # "EOF" => IsToken(t)
           /\ \A q \in tokens[n].end + 1 .. until + 1 : ~IsToken(Bytes(tokens[n].start, q))
  /\ stage = EXIT => ~AtEnd(curr) /\ ~IsToken(<<Byte(curr)>>) /\ Byte(curr) \notin Space

=============================================================================
