----------------------------- MODULE MCGrouping -----------------------------
(***************************************************************************)
(* A small instance of Fingerprint and Grouping for TLC.                   *)
(***************************************************************************)
EXTENDS Grouping

\* The kinds on which the substitutions meet: timestamp, date, email,
\* ip and address are replaced as uuid is, and long as huge.
SomeKinds == {"word", "request", "label", "uuid", "hex", "huge", "small"}

Word(value) == <<Token("word", value)>>

\* Two names that differ in case only, and have a bar.
TwoNames == {"api|x", "API|x"}

TextOfName == [name \in TwoNames |-> Word("a") \o <<Bar>>]

SomeExceptions == {<<>>, Word("a"), <<Bar>>}

\* An exception group draws bars into its trace.
SomeTraces == {<<>>, <<Bar>>, Word("a") \o <<Bar>>}

\* Logs with messages of up to two tokens; the others come without a log.
SomeMessages ==
  {t \in UNION {[1..n -> {Token("word", "a"), Token("uuid", "a"), Mark(" "), Bar}] : n \in 0..2} :
     t \in Texts(2)}

=============================================================================
