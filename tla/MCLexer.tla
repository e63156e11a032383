------------------------------- MODULE MCLexer -------------------------------
EXTENDS Lexer

\* Texts of at most n characters.
Over(chars, n) == UNION {[1 .. k -> chars] : k \in 0 .. n}

Words == {KEYWORDS[n].text : n \in DOMAIN KEYWORDS}

MCTexts ==
  Over({"i", "f", "1", " ", "*", "=", "#"}, 4)
    \cup Over({"*", "/", "="}, 5)
    \cup Over(Special, 2)
    \cup {w \o t : w \in Words, t \in Over({"x", " ", "="}, 2)}

\* Short strings of equal length often collide, and all share two slots.
MCHashOf(c) == (Len(c) + (IF c # << >> /\ Head(c) = "=" THEN 1 ELSE 0)) % 4

=============================================================================
