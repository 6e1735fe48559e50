----------------------------- MODULE Fingerprint -----------------------------
(***************************************************************************)
(* services/fingerprint.py: a message, or a line of a stack trace, goes    *)
(* through a chain of substitutions.  What becomes of the texts is in      *)
(* Grouping.                                                               *)
(*                                                                         *)
(* A text is a sequence of tokens, each a kind and a value: what one of    *)
(* the regular expressions matches as a whole, a word, a label, a          *)
(* separator, or the placeholder that a substitution put there.  Two       *)
(* tokens of letters and digits never touch: they would be one.            *)
(***************************************************************************)
EXTENDS Naturals, SequencesExt

CONSTANTS
  Kinds,       \* the kinds of token that occur in the inputs
  MaxMessage, MaxLine   \* bounds on the length of a message and of a line

\* What differs between two occurrences of one error.  hex has twelve digits or
\* more, among them letters; huge is the same without letters, long has from
\* five to eleven digits, small fewer.
Replaced == {"uuid", "timestamp", "date", "email", "ip", "address", "hex",
             "huge", "long"}

Numbers == {"small", "long", "huge"}

\* request is request_id, trace_id, ...; label is id, line, ...
Worded == Replaced \cup {"word", "small", "request", "label"}

Separators == {" ", ":", "="}

ASSUME FingerprintAssumption ==
  /\ Kinds \subseteq Worded
  /\ MaxMessage \in Nat /\ MaxLine \in Nat

VARIABLES
  isLine,    \* whether the text is a line of a stack trace; or else a message
  source,    \* the text that came in
  twin,      \* another occurrence of the same, at the same substitution
  text,      \* what it has become
  pass       \* how many substitutions are done

vars == <<isLine, source, text, twin, pass>>

Token(kind, value) == [kind |-> kind, value |-> value]

Mark(kind) == Token(kind, "")

Placeholder(name) == Token("placeholder", name)

Kind(t, i) == IF i \in DOMAIN t THEN t[i].kind ELSE "end"

\* What the texts of a fingerprint are joined with; also in a message, where no
\* substitution looks for it.
Bar == Mark("|")

\* There are two of each kind, but one of each label and separator.
Tokens ==
  {Token(kind, value) : kind \in Kinds \ {"request", "label"}, value \in {"a", "b"}}
  \cup {Mark(kind) : kind \in Separators \cup (Kinds \cap {"request", "label"})}
  \cup {Bar}

Texts(length) ==
  UNION {{t \in [1..n -> Tokens] :
            \A i \in DOMAIN t : Kind(t, i) \in Worded => Kind(t, i + 1) \notin Worded}
           : n \in 0..length}

\* frame is the beginning of a line of a Python traceback up to its number,
\* location is the rest.
Lines ==
  LET numbers == {Token(k, v) : k \in Numbers \cap Kinds, v \in {"a", "b"}}
  IN  Texts(MaxLine)
        \cup {<<Mark("frame"), number>> : number \in numbers}
        \cup {<<Mark("frame"), number, Mark("location")>> : number \in numbers}

-----------------------------------------------------------------------------
(* The substitutions *)

\* The first position from i on whose token is of none of these kinds.
RunEnd(t, i, kinds) == Min({j \in i..Len(t) + 1 : Kind(t, j) \notin kinds})

\* re.sub: goes through t from the left, and where ends[i] > i replaces what is
\* between i and ends[i] by by[i].
Substitute(t, ends, by) ==
  LET rest[i \in 1..Len(t) + 1] ==
        IF i > Len(t) THEN <<>>
        ELSE IF ends[i] > i THEN by[i] \o rest[ends[i]]
        ELSE <<t[i]>> \o rest[i + 1]
  IN  rest[1]

Strip(t) ==
  LET solid == {i \in DOMAIN t : Kind(t, i) # " "}
  IN  IF solid = {} THEN <<>> ELSE SubSeq(t, Min(solid), Max(solid))

\* A pattern would also find its like inside a wider value that is still there,
\* and leave the remainder of it: a date in a timestamp, digits in a UUID.
Within(kind) ==
  CASE kind = "date" -> {"timestamp"}
    [] kind \in {"hex", "long"} -> {"uuid"}
    [] OTHER -> {}

Replace(t, kind) ==
  LET kinds == IF kind = "hex" THEN {"hex", "huge"} ELSE {kind}
  IN  [i \in DOMAIN t |->
         IF t[i].kind \in kinds THEN Placeholder(kind)
         ELSE IF t[i].kind \in Within(kind) THEN Token("remainder", t[i].value)
         ELSE t[i]]

\* What may stand in the value of a request id.
Valued == (Worded \ {"email"}) \cup {":"}

\* A variant of RequestEnd: the value goes on over spaces.
RequestEndOfLine(t, i) ==
  LET begin == RunEnd(t, i + 1, Separators)
  IN  IF Kind(t, i) = "request" /\ Kind(t, begin) \in Valued
      THEN RunEnd(t, begin, Valued \cup Separators)
      ELSE i

\* The label, any separators, then a value; a colon is a value if nothing else
\* follows the separators.
RequestEnd(t, i) ==
  LET after  == RunEnd(t, i + 1, Separators)
      colons == {j \in i + 1..after - 1 : Kind(t, j) = ":"}
      begin  == IF Kind(t, after) \in Valued \/ colons = {} THEN after ELSE Max(colons)
  IN  IF Kind(t, i) = "request" /\ Kind(t, begin) \in Valued
      THEN RunEnd(t, begin, Valued)
      ELSE i

\* A label, a separator at least, and a number.  The beginning of a frame ends
\* with a label and a separator.
LabelEnd(t, i) ==
  LET after == RunEnd(t, i + 1, Separators)
  IN  IF /\ \/ Kind(t, i) \in {"label", "request"} /\ after > i + 1
            \/ Kind(t, i) = "frame"
         /\ Kind(t, after) \in Numbers
      THEN after + 1
      ELSE i

FrameEnd(t, i) ==
  IF /\ Kind(t, i) = "frame" /\ Kind(t, i + 1) \in Numbers
     /\ Kind(t, i + 2) = "location"
  THEN i + 3 ELSE i

ColonEnd(t, i) ==
  IF Kind(t, i) = ":" /\ Kind(t, i + 1) \in Numbers THEN i + 2 ELSE i

Collapse(t) ==
  Strip(Substitute(t, [i \in DOMAIN t |-> RunEnd(t, i, {" "})],
                   [i \in DOMAIN t |-> <<Mark(" ")>>]))

Apply(substitution, t) ==
  CASE substitution = "strip" -> Strip(t)
    [] substitution \in Replaced -> Replace(t, substitution)
    [] substitution = "frame" ->
         Substitute(t, [i \in DOMAIN t |-> FrameEnd(t, i)],
                    [i \in DOMAIN t |-> <<t[i], Placeholder("line"), t[i + 2]>>])
    [] substitution = "request_id" ->
         Substitute(t, [i \in DOMAIN t |-> RequestEnd(t, i)],
                    [i \in DOMAIN t |-> <<t[i], Mark(":"), Placeholder("request_id")>>])
    [] substitution = "label" ->
         Substitute(t, [i \in DOMAIN t |-> LabelEnd(t, i)],
                    [i \in DOMAIN t |-> <<t[i], Mark("="), Placeholder("id")>>])
    [] substitution = "space" -> Collapse(t)
    [] substitution = "colon" ->
         Substitute(t, [i \in DOMAIN t |-> ColonEnd(t, i)],
                    [i \in DOMAIN t |-> <<t[i], Placeholder("line")>>])

\* A variant of Common: hexadecimal numbers come first.
CommonHexFirst ==
  <<"strip", "hex", "uuid", "timestamp", "date", "email", "ip", "address",
    "request_id", "label", "long", "space">>

\* _normalize_common
Common ==
  <<"strip", "uuid", "timestamp", "date", "email", "ip", "address",
    "request_id", "label", "hex", "long", "space">>

Substitutions(line) ==
  IF line THEN <<"strip", "frame">> \o Common \o <<"colon">> ELSE Common

-----------------------------------------------------------------------------
(* Occurrences of one error *)

\* The token at i is the first after a label of this kind; no request id comes
\* before that label.
After(t, i, label) ==
  \E j \in 1..i - 2 :
    /\ Kind(t, j) = label
    /\ \A k \in j + 1..i - 1 : Kind(t, k) \in Separators
    /\ \A k \in 1..j - 1 : Kind(t, k) # "request"

\* What tells one occurrence of an error from another, and nothing else.
Incidental(t, line, i) ==
  \/ Kind(t, i) \in Replaced
  \/ Kind(t, i) = "small" /\ After(t, i, "label")
  \/ Kind(t, i) \in {"small", "word"} /\ After(t, i, "request")
  \/ Kind(t, i) = "small" /\ Kind(t, i - 1) \in {"frame", ":"} /\ line

Typical(t, line) ==
  Collapse([i \in DOMAIN t |->
              IF Incidental(t, line, i) THEN [t[i] EXCEPT !.value = "a"] ELSE t[i]])

Init ==
  /\ isLine \in BOOLEAN
  /\ source \in IF isLine THEN Lines ELSE Texts(MaxMessage)
  /\ text = source
  /\ twin = Typical(source, isLine)
  /\ pass = 0

-----------------------------------------------------------------------------
(* A text on its way *)

\* normalize_message, or normalize_stack_trace for one of its lines.
Step ==
  /\ pass < Len(Substitutions(isLine))
  /\ text' = Apply(Substitutions(isLine)[pass + 1], text)
  /\ twin' = Apply(Substitutions(isLine)[pass + 1], twin)
  /\ pass' = pass + 1
  /\ UNCHANGED <<isLine, source>>

Next == Step

Spec == Init /\ [][Next]_vars

-----------------------------------------------------------------------------
(* Properties *)

Normalized == pass = Len(Substitutions(isLine))

\* ARCHITECTURE.md:9, deterministic grouping: occurrences that differ only in
\* incidental values, or in the length of their gaps, are normalized alike, so
\* no substitution spoils what a later one looks for.
ValuesDoNotSplit == Normalized => text = twin

\* The token at i may be in the value of a request id.
MayBeRequestId(t, i) ==
  \E j \in 1..i - 1, k \in 1..i :
    /\ j < k /\ Kind(t, j) = "request"
    /\ \A m \in j + 1..k - 1 : Kind(t, m) \in Separators
    /\ \A m \in k..i : Kind(t, m) \in Valued

\* The token at i is a number that a label, the beginning of a frame or, on a
\* line, a colon takes with it.
Labelled(t, line, i) ==
  /\ Kind(t, i) = "small"
  /\ \/ Kind(t, i - 1) = "frame"
     \/ line /\ Kind(t, i - 1) = ":"
     \/ \E j \in 1..i - 2 : /\ Kind(t, j) = "label"
                           /\ \A k \in j + 1..i - 1 : Kind(t, k) \in Separators

WordsOf(t) == {i \in DOMAIN t : Kind(t, i) \in {"word", "small"}}

\* Errors that differ in a word are not merged: words and small numbers stay, in
\* their order, but for labelled numbers and what may be in the value of a
\* request id; nothing is put among them.
WordsSurvive ==
  Normalized =>
    \E f \in [WordsOf(text) -> WordsOf(source)] :
      /\ \A i, j \in WordsOf(text) : i < j => f[i] < f[j]
      /\ \A i \in WordsOf(text) : text[i] = source[f[i]]
      /\ \A i \in WordsOf(source) :
           \/ MayBeRequestId(source, i) \/ Labelled(source, isLine, i)
           \/ \E j \in WordsOf(text) : f[j] = i

=============================================================================
