------------------------------ MODULE Grouping ------------------------------
(***************************************************************************)
(* services/logs.py, fingerprint.py: which logs come into one error group. *)
(* The message of an error is normalized as in Fingerprint; then the name  *)
(* of the service, the message, the exception and the stack trace are      *)
(* joined and hashed, and the log is counted in the group with its service *)
(* and its hash.                                                           *)
(*                                                                         *)
(* The hash itself is left out: equal texts, equal fingerprints.  All logs *)
(* are of one environment, which is in the key of a group too.  How groups *)
(* are counted is in LogStore.                                             *)
(***************************************************************************)
EXTENDS Fingerprint

CONSTANTS
  Services,      \* names of services
  ServiceText,   \* for each, the name in lower case, without outer space
  Exceptions,    \* exception types, in lower case; <<>> if there is none
  Traces,        \* stack traces, normalized; <<>> if there is none
  Messages,      \* messages of the logs that are stored
  NumLogs        \* bound on the logs

AllTokens == [kind : STRING, value : STRING]

ASSUME GroupingAssumption ==
  /\ ServiceText \in [Services -> Seq(AllTokens)]
  /\ Exceptions \cup Traces \subseteq Seq(AllTokens)
  /\ Messages \subseteq Texts(MaxMessage)
  /\ NumLogs \in Nat

VARIABLE logs    \* the logs of errors that were stored

groupingVars == <<isLine, source, text, twin, pass, logs>>

\* The message of a log comes in.
Arrives ==
  /\ isLine' = FALSE
  /\ source' \in Messages
  /\ text' = source'
  /\ twin' = Typical(source', FALSE)
  /\ pass' = 0

GroupingInit == Init /\ logs = {}

\* A variant of Join: the texts are joined without a separator.
JoinPlainly(texts) == FlattenSeq(texts)

\* What is hashed.
Join(texts) == texts[1] \o <<Bar>> \o texts[2] \o <<Bar>> \o texts[3] \o <<Bar>> \o texts[4]

\* _persist_log and generate_fingerprint, when the message is normalized; then
\* the next message comes, as long as the bound allows one.
Persist ==
  /\ Normalized /\ ~ isLine /\ source \in Messages /\ Cardinality(logs) < NumLogs
  /\ \E service \in Services, exception \in Exceptions, trace \in Traces :
       logs' = logs \cup
         {[service |-> service, message |-> source, normalized |-> text,
           exception |-> exception, trace |-> trace,
           fingerprint |-> Join(<<ServiceText[service], text, exception, trace>>)]}
  /\ IF Cardinality(logs') < NumLogs THEN Arrives ELSE UNCHANGED vars

GroupingNext == (Step /\ UNCHANGED logs) \/ Persist

GroupingSpec == GroupingInit /\ [][GroupingNext]_groupingVars

-----------------------------------------------------------------------------
(* Properties *)

\* The unique index of error_groups.
InOneGroup(l, m) == l.service = m.service /\ l.fingerprint = m.fingerprint

SameError(l, m) ==
  l.normalized = m.normalized /\ l.exception = m.exception /\ l.trace = m.trace

HasBar(t) == \E i \in DOMAIN t : t[i] = Bar

\* A bar that came in with a message or an exception type is taken for one that
\* joins two texts.  Nothing else merges errors: no substitution brings a bar
\* into a message, and those in the name of a service or in a trace do no harm.
OnlyBarsMerge ==
  \A l, m \in logs :
    InOneGroup(l, m) =>
      \/ SameError(l, m)
      \/ \E n \in {l, m} : HasBar(n.message) \/ HasBar(n.exception)

=============================================================================
