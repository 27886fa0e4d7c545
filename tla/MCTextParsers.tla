--------------------------- MODULE MCTextParsers ----------------------------
(* Model-checking instance of the two programs that read a text byte by     *)
(* byte, HttpParser and PhpStripTags.  A behaviour is one of the one or of  *)
(* the other.  The texts of php_strip_tags_ex are every short text, shorter *)
(* ones with a NUL, and every text made of a few well-formed pieces.        *)
EXTENDS HttpParser, PhpStripTags

CONSTANTS MaxLength,  \* bound on the arbitrary texts
          MaxWithNul, \* bound on those with a NUL
          MaxPieces   \* bound on the pieces of a well-formed text

\* The characters of the arbitrary texts.
Characters == {"<", ">", "!", "-", "?", "\"", " ", "x"}

Piece(t, p, k) == [text |-> t, plain |-> p, kept |-> k]
Shown(t) == Piece(t, t, t)
Hidden(t) == Piece(t, <<>>, <<>>)
Allowed(t) == Piece(t, <<>>, t)

\* <x> is on the allow list.
Pieces ==
  { Shown(<<"x", "'", "(", "!">>),
    Shown(<<"<", " ", "e", "-", "?">>),
    Shown(<<"l", ">", "\\", ")">>),
    Allowed(<<"<", "x", ">">>),
    Allowed(<<"<", "/", "x", ">">>),
    Allowed(<<"<", "x", " ", "y", "\"", "'", "(", "\"", "-", "!", ">">>),
    Hidden(<<"<", "y", " ", "'", ">", "<", "\"", "'", ">">>),
    Hidden(<<"<", "y", "<", "x", ">", "e", ">">>),
    Hidden(<<"<", "!", "-", "-", "'", "<", "x", ">", "-", "-", ">">>),
    Hidden(<<"<", "!", "x", "(", ">">>),
    Hidden(<<"<", "!", "doctyp", "e", " ", "l", ">">>),
    Piece(<<"<", "!", "doctyp", "e", " ", "x", ">">>, <<>>, <<"<", " ", "x", ">">>),
    Hidden(<<"<", "?", "xm", "l", " ", "x", "?", ">">>),
    Piece(<<"<", "?", "xm", "l", " ", "x", " ", "?", ">">>, <<>>, <<"<", " ", "x", " ", "?", ">">>),
    Hidden(<<"<", "?", "(", "\"", ")", ">", "\\", "\"", "\"", ")", "?", ">">>),
    Hidden(<<"<", "?", "x", ">", "'", "?", ">", "'", "?", ">">>) }

Joined(ps) ==
  [text |-> FlattenSeq([k \in DOMAIN ps |-> ps[k].text]),
   plain |-> FlattenSeq([k \in DOMAIN ps |-> ps[k].plain]),
   kept |-> FlattenSeq([k \in DOMAIN ps |-> ps[k].kept])]

Arbitrary ==
  UNION {[1 .. n -> Characters] : n \in 0 .. MaxLength}
    \cup {t \in UNION {[1 .. n -> Characters \cup {"NUL"}] : n \in 1 .. MaxWithNul} : "NUL" \in ToSet(t)}

MCTexts ==
  {[text |-> t, plain |-> Unsaid, kept |-> Unsaid] : t \in Arbitrary}
    \cup {Joined(ps) : ps \in UNION {[1 .. n -> Pieces] : n \in 1 .. MaxPieces}}

MCAllowLists == {<<"<", "x", ">">>}

VARIABLE program  \* the one that runs

MCInit == Init /\ StripInit /\ program \in {"http_parser_execute", "php_strip_tags_ex"}

MCNext ==
  /\ UNCHANGED program
  /\ \/ program = "http_parser_execute" /\ Next /\ UNCHANGED stripVars
     \/ program = "php_strip_tags_ex" /\ StripNext /\ UNCHANGED vars

MCSpec == MCInit /\ [][MCNext]_<<vars, stripVars, program>>
=============================================================================
