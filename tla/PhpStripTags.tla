---------------------------- MODULE PhpStripTags ----------------------------
(***************************************************************************)
(* php_strip_tags_ex of src/php_strip_tags: a text is read character by    *)
(* character, what is outside of tags is written over it, and so are the   *)
(* tags of an allow list, collected in tbuf.  The caller may hand the      *)
(* state from one call to the next (stateptr).                             *)
(*                                                                         *)
(* Characters are named: each one the code tests for is a symbol, "x" and  *)
(* "y" stand for all others, "doctyp" for these six letters, and "xm" for  *)
(* these two, of either case.                                              *)
(***************************************************************************)
EXTENDS Integers, Sequences, SequencesExt

CONSTANTS Texts,       \* the texts of the calls: [text, plain, kept], see TextOnly
          AllowLists,  \* the allow arguments, sequences of symbols
          TagBufSize   \* PHP_TAG_BUF_SIZE

NoList == <<"NULL">>
\* Nothing is said of the output for a text.
Unsaid == <<"unsaid">>

Quotes == {"'", "\""}
Symbols == Quotes \cup {"NUL", "<", ">", "(", ")", "!", "-", "?", "e", "l", "doctyp", "xm",
                        "\\", "/", " ", "x", "y"}

ASSUME TextsAssumption == \A t \in Texts : t.text \in Seq(Symbols)
ASSUME TagBufSizeAssumption == TagBufSize \in Nat \ {0}

VARIABLES
  call,       \* the text the call reads, and whether it is under way
  allow,      \* argument allow
  allow_tag_spaces,
  i,          \* characters read: p - buf
  state,      \* 0 text, 1 tag, 2 PHP, 3 <!, 4 comment; *stateptr between calls
  lc, br, depth, in_q,
  tbuf,       \* the characters from tbuf to tp
  size,       \* bytes allocated for tbuf
  out         \* the characters from rbuf to rp

arguments == <<call, allow, allow_tag_spaces>>
scan == <<lc, br, depth, in_q>>
stripVars == <<arguments, i, state, scan, tbuf, size, out>>

text == call.text
reading == call.on /\ i < Len(text)
c == text[i + 1]

\* What the code finds k characters before p: before the text, anything.
Before(k) == IF i >= k THEN {text[i + 1 - k]} ELSE Symbols
\* What it finds after p: after the text its NUL, unless buf ended before.
After ==
  CASE i + 2 <= Len(text)                              -> {text[i + 2]}
    [] i + 2 > Len(text) /\ "NUL" \in ToSet(text)    -> Symbols
    [] i + 2 > Len(text) /\ "NUL" \notin ToSet(text) -> {"NUL"}

Idle == [text |-> <<>>, plain |-> <<>>, kept |-> <<>>, on |-> FALSE]

StripInit ==
  /\ call = Idle
  /\ allow = NoList
  /\ allow_tag_spaces = FALSE
  /\ i = 0 /\ state = 0
  /\ lc = "NUL" /\ br = 0 /\ depth = 0 /\ in_q = "NUL"
  /\ tbuf = <<>> /\ size = 0
  /\ out = <<>>

\* estrndup(rbuf, len) is strndup: buf ends with the first NUL of the text, if
\* it has one.  The loop goes on to len, and reads anything beyond buf.
estrndup(s) ==
  LET ends == {n \in 0 .. Len(s) :
                 /\ \A k \in 1 .. n - 1 : s[k] # "NUL"
                 /\ n < Len(s) => n > 0 /\ s[n] = "NUL"}
  IN  UNION {{SubSeq(s, 1, n) \o beyond : beyond \in [1 .. Len(s) - n -> Symbols]} : n \in ends}

\* A call begins, with the state the last one left or without a stateptr.
php_strip_tags_ex(t, list, spaces, s) ==
  /\ \E buf \in estrndup(t.text) :
       call' = [text |-> buf, plain |-> t.plain, kept |-> t.kept, on |-> TRUE]
  /\ allow' = list
  /\ allow_tag_spaces' = spaces
  /\ i' = 0 /\ state' = s
  /\ lc' = "NUL" /\ br' = 0 /\ depth' = 0 /\ in_q' = "NUL"
  /\ tbuf' = <<>> /\ size' = IF list = NoList THEN 0 ELSE TagBufSize + 1
  /\ out' = <<>>

\* The call returns; rbuf holds out.
return ==
  /\ call.on /\ i = Len(text)
  /\ call' = Idle
  /\ allow' = NoList
  /\ allow_tag_spaces' = FALSE
  /\ i' = 0
  /\ lc' = "NUL" /\ br' = 0 /\ depth' = 0 /\ in_q' = "NUL"
  /\ tbuf' = <<>> /\ size' = 0
  /\ out' = <<>>
  /\ UNCHANGED state

-----------------------------------------------------------------------------
(* What the cases of the switch do with a character.                       *)

\* The size of tbuf when a character is added to n of them.
Room(n) == IF n >= TagBufSize THEN n + TagBufSize + 1 ELSE size

\* *(tp++) = ch
Collect(ch) ==
  /\ size' = Room(Len(tbuf))
  /\ tbuf' = Append(tbuf, ch)

Drop == UNCHANGED <<tbuf, size, out>>

\* To the output in text, to tbuf in a tag if there is an allow list.
Keep(ch) ==
  \/ state = 0 /\ out' = Append(out, ch) /\ UNCHANGED <<tbuf, size>>
  \/ state = 1 /\ allow # NoList /\ Collect(ch) /\ UNCHANGED out
  \/ state # 0 /\ (state = 1 => allow = NoList) /\ Drop

reg_char ==
  /\ Keep(c)
  /\ UNCHANGED <<state, scan>>

Ignore == Drop /\ UNCHANGED <<state, scan>>

\* The tag without its slashes and its attributes: cut at the first ">", or at
\* the first space that follows anything but "<" and spaces.
Normalised(tag) ==
  LET cuts == {k \in 1 .. Len(tag) :
                 \/ tag[k] = ">"
                 \/ tag[k] = " " /\ \E j \in 1 .. k - 1 : tag[j] \notin {"<", " "}}
      cut == CHOOSE k \in cuts : \A j \in cuts : k <= j
  IN  Append(SelectSeq(SubSeq(tag, 1, cut - 1), LAMBDA ch : ch \notin {"/", " "}), ">")

\* strstr(set, norm)
php_tag_find(tag, set) ==
  \E k \in 0 .. Len(set) - Len(Normalised(tag)) :
    SubSeq(set, k + 1, k + Len(Normalised(tag))) = Normalised(tag)

less_than ==
  /\ c = "<"
  /\ \/ in_q # "NUL" /\ Ignore
     \/ /\ in_q = "NUL" /\ " " \in After /\ ~allow_tag_spaces
        /\ reg_char
     \/ /\ in_q = "NUL" /\ (After = {" "} => allow_tag_spaces)
        /\ \/ /\ state = 0
              /\ lc' = "<" /\ state' = 1
              /\ IF allow # NoList THEN Collect("<") ELSE UNCHANGED <<tbuf, size>>
              /\ UNCHANGED <<br, depth, in_q, out>>
           \/ state = 1 /\ depth' = depth + 1 /\ Drop /\ UNCHANGED <<state, lc, br, in_q>>
           \/ state > 1 /\ Ignore

parenthesis ==
  /\ c \in {"(", ")"}
  /\ \/ state # 2 /\ reg_char
     \/ state = 2 /\ lc \in Quotes /\ Ignore
     \/ /\ state = 2 /\ lc \notin Quotes
        /\ lc' = c /\ br' = br + (IF c = "(" THEN 1 ELSE -1)
        /\ Drop /\ UNCHANGED <<state, depth, in_q>>

\* A tag, PHP, <! or a comment ends; tp = tbuf.
ToText ==
  /\ in_q' = "NUL" /\ state' = 0
  /\ tbuf' = <<>>
  /\ UNCHANGED <<br, depth>>

\* Mutant: tp is not set back.
tag_ends_kept ==
  LET tag == Append(tbuf, ">")
  IN  /\ lc' = ">" /\ in_q' = "NUL" /\ state' = 0
      /\ IF allow = NoList
         THEN UNCHANGED <<tbuf, size, out>>
         ELSE /\ Collect(">")
              /\ out' = IF php_tag_find(tag, allow) THEN out \o tag ELSE out
      /\ UNCHANGED <<br, depth>>

\* An allowed tag is copied to the output as tbuf has it.
tag_ends ==
  LET tag == Append(tbuf, ">")
  IN  /\ ToText
      /\ lc' = ">"
      /\ IF allow = NoList
         THEN UNCHANGED <<size, out>>
         ELSE /\ size' = Room(Len(tbuf))
              /\ out' = IF php_tag_find(tag, allow) THEN out \o tag ELSE out

\* The conditions under which ">" ends PHP, or a comment.
EndsPhp == br = 0 /\ lc # "\"" /\ \E ch \in Before(1) : ch = "?"
StaysPhp == br = 0 /\ lc # "\"" => \E ch \in Before(1) : ch # "?"
EndsComment == i >= 2 /\ Before(1) = {"-"} /\ Before(2) = {"-"}

\* Mutant: brackets inside a tag are not counted.
greater_than_deep ==
  /\ c = ">"
  /\ \/ in_q # "NUL" /\ Ignore
     \/ /\ in_q = "NUL"
        /\ \/ state = 1 /\ tag_ends
           \/ state = 2 /\ EndsPhp /\ ToText /\ UNCHANGED <<lc, size, out>>
           \/ state = 2 /\ StaysPhp /\ Ignore
           \/ state = 3 /\ ToText /\ UNCHANGED <<lc, size, out>>
           \/ state = 4 /\ EndsComment /\ ToText /\ UNCHANGED <<lc, size, out>>
           \/ state = 4 /\ ~EndsComment /\ Ignore
           \/ state = 0 /\ reg_char

greater_than ==
  /\ c = ">"
  /\ \/ depth > 0 /\ depth' = depth - 1 /\ Drop /\ UNCHANGED <<state, lc, br, in_q>>
     \/ depth = 0 /\ in_q # "NUL" /\ Ignore
     \/ /\ depth = 0 /\ in_q = "NUL"
        /\ \/ state = 1 /\ tag_ends
           \/ state = 2 /\ EndsPhp /\ ToText /\ UNCHANGED <<lc, size, out>>
           \/ state = 2 /\ StaysPhp /\ Ignore
           \/ state = 3 /\ ToText /\ UNCHANGED <<lc, size, out>>
           \/ state = 4 /\ EndsComment /\ ToText /\ UNCHANGED <<lc, size, out>>
           \/ state = 4 /\ ~EndsComment /\ Ignore
           \/ state = 0 /\ reg_char

\* Outside of text a quote opens or closes in_q, unless it is the first
\* character of the call, or comes after a backslash outside of a tag.
InQuote ==
  IF state # 0 /\ i > 0 /\ (state = 1 \/ Before(1) # {"\\"}) /\ in_q \in {"NUL", c}
  THEN IF in_q = "NUL" THEN c ELSE "NUL"
  ELSE in_q

\* lc in PHP; e is the character before.
LastQuote(e) == CASE e = "\\"           -> lc
                  [] e # "\\" /\ lc = c -> "NUL"
                  [] e # "\\" /\ lc # c -> c

quote ==
  /\ c \in Quotes
  /\ \/ state = 4 /\ Ignore
     \/ /\ state # 4
        /\ IF state = 2 THEN \E e \in Before(1) : lc' = LastQuote(e) ELSE UNCHANGED lc
        /\ Keep(c)
        /\ in_q' = InQuote
        /\ UNCHANGED <<state, br, depth>>

\* "<!" and "<?" are looked for in a tag, at its second character.
AfterLess == state = 1 /\ \E e \in Before(1) : e = "<"
NotAfterLess == state = 1 => \E e \in Before(1) : e # "<"

bang ==
  /\ c = "!"
  /\ \/ AfterLess /\ state' = 3 /\ lc' = c /\ Drop /\ UNCHANGED <<br, depth, in_q>>
     \/ NotAfterLess /\ reg_char

dash ==
  LET comment == state = 3 /\ i >= 2 /\ Before(1) = {"-"} /\ Before(2) = {"!"}
  IN  /\ c = "-"
      /\ \/ comment /\ state' = 4 /\ Drop /\ UNCHANGED scan
         \/ ~comment /\ reg_char

\* <!DOCTYPE and <?xml are tags after all.  The letters must not be the first
\* of the text.
Markup ==
  \/ state = 3 /\ i >= 2 /\ Before(1) = {"doctyp"} /\ c # "l"
  \/ state = 2 /\ i >= 2 /\ Before(1) = {"xm"}

\* Cases "e", and "l" which it falls through to; "?" falls through to both.
letter ==
  /\ \/ c \in {"e", "l"}
     \/ c = "?" /\ NotAfterLess
  /\ \/ Markup /\ state' = 1 /\ Drop /\ UNCHANGED scan
     \/ ~Markup /\ reg_char

question ==
  /\ c = "?" /\ AfterLess
  /\ br' = 0 /\ state' = 2
  /\ Drop /\ UNCHANGED <<lc, depth, in_q>>

other ==
  \/ c = "NUL" /\ Ignore
  \/ c \in {"doctyp", "xm", "\\", "/", " ", "x", "y"} /\ reg_char

-----------------------------------------------------------------------------
StripRead ==
  /\ reading
  /\ i' = i + 1
  /\ UNCHANGED arguments
  /\ \/ less_than
     \/ parenthesis
     \/ greater_than
     \/ quote
     \/ bang
     \/ dash
     \/ letter
     \/ question
     \/ other

StripNext ==
  \/ /\ ~call.on
     /\ \E t \in Texts, list \in AllowLists \cup {NoList}, spaces \in BOOLEAN, s \in {0, state} :
          /\ t.plain # Unsaid => ~spaces /\ s = 0
          /\ php_strip_tags_ex(t, list, spaces, s)
  \/ StripRead
  \/ return

StripSpec == StripInit /\ [][StripNext]_stripVars

-----------------------------------------------------------------------------
(* What is written fits what was read: with the tag being collected, the   *)
(* output never exceeds the characters consumed, so copying an allowed tag *)
(* (php_strip_tags.c:197) stays inside rbuf, whatever the text, the allow  *)
(* list and the state taken over from an earlier call; and tbuf has room   *)
(* for the next character and the NUL after it (php_strip_tags.c:195),     *)
(* however often it grows past PHP_TAG_BUF_SIZE.                           *)
WritesFit ==
  /\ Len(out) + Len(tbuf) <= i
  /\ allow # NoList => Len(tbuf) < size /\ Len(tbuf) + 2 <= Room(Len(tbuf))

(* For a text made of text, tags, comments, PHP, XML and DOCTYPE           *)
(* declarations, one after the other and without a NUL, the output is the  *)
(* text alone, and with an allow list the text and the allowed tags as     *)
(* they were: no quote, bracket or parenthesis of one construct leaks into *)
(* the next.  A declaration counts as a tag, without the word that begins  *)
(* it.  This is said of PHP in which no string holds a quote of the other  *)
(* kind, and of allowed tags without "<" or ">" in an attribute.           *)
TextOnly ==
  call.on /\ i = Len(text) /\ call.plain # Unsaid =>
    /\ out = IF allow = NoList THEN call.plain ELSE call.kept
    /\ state = 0
=============================================================================
