------------------------------ MODULE Redaction ------------------------------
(***************************************************************************)
(* What RedactValue and Redactions stand for in HookInput: the recursion   *)
(* of EventRedactor over a JSON value, and what it promises.  It is a      *)
(* module of its own because only TLC can follow the recursion.            *)
(***************************************************************************)
EXTENDS HookPipeline

CONSTANTS
  KeyTokens,       \* key -> its words, for the keys that have several
  SensitiveKeys,   \* RedactionPolicy.sensitive_keys, as words
  Secrets,         \* tokens some value pattern matches
  SecretNames      \* keys that a reader takes for credentials

Replacement == "[REDACTED]"

IsSensitiveKey_Mutant(key) == key \in DOMAIN KeyTokens /\ KeyTokens[key] \in SensitiveKeys

IsSensitiveKey(key) ==
  LET words == IF key \in DOMAIN KeyTokens THEN KeyTokens[key] ELSE <<key>>
  IN  \E sensitive \in SensitiveKeys :
        \/ IsSuffix(sensitive, words)
        \/ Len(sensitive) = 1 /\ sensitive[1] \in ToSet(words)

\* The value as it is written, whatever it is nested in.
RECURSIVE Redacted(_)
Redacted(value) ==
  CASE Is(value, "object") ->
         Object([key \in DOMAIN value.object |->
                   IF IsSensitiveKey(key) THEN Text(<<Replacement>>) ELSE Redacted(value.object[key])])
    [] Is(value, "array") -> Array([i \in DOMAIN value.array |-> Redacted(value.array[i])])
    [] Is(value, "text") -> Text([i \in DOMAIN value.text |->
                                    IF value.text[i] \in Secrets THEN Replacement ELSE value.text[i]])
    [] OTHER -> value

\* How many values that replaces.
RECURSIVE CountRedacted(_)
CountRedacted(value) ==
  CASE Is(value, "object") ->
         MapThenSumSet(LAMBDA key : IF IsSensitiveKey(key) THEN 1 ELSE CountRedacted(value.object[key]),
                       DOMAIN value.object)
    [] Is(value, "array") -> MapThenSumSet(LAMBDA i : CountRedacted(value.array[i]), DOMAIN value.array)
    [] Is(value, "text") -> Len(SelectSeq(value.text, LAMBDA token : token \in Secrets))
    [] OTHER -> 0

-----------------------------------------------------------------------------
\* The scalars of a JSON value, each with the keys that lead to it.
RECURSIVE Leaves(_)
Leaves(value) ==
  LET parts == IF Is(value, "object") THEN value.object ELSE value.array
  IN  IF Is(value, "object") \/ Is(value, "array")
      THEN UNION {{[leaf EXCEPT !.at = <<IF Is(value, "object") THEN key ELSE "[]">> \o @] :
                     leaf \in Leaves(parts[key])} : key \in DOMAIN parts}
      ELSE {[at |-> <<>>, value |-> value]}

Content(e) == Leaves(Object([payload |-> Object(e.payload), extensions |-> Object(e.extensions),
                             cwd |-> e.cwd, turn_id |-> e.turn_id]))

(* Nothing a value pattern recognises and nothing below a sensitive key is  *)
(* written to the store, whatever it is nested in; all the rest is written  *)
(* as it was, the count is zero exactly when nothing was replaced, and the  *)
(* detectors find in the stored event what they would have found in the     *)
(* event itself (privacy.py:84-140; docs/privacy-retention.md:5-6).         *)
RedactionIsFaithful ==
  stored # None =>
    LET Secret(leaf) ==
          \/ Is(leaf.value, "text") /\ ToSet(leaf.value.text) \cap Secrets # {}
          \/ \E i \in 1..Len(leaf.at) : leaf.at[i] \in SecretNames
    IN  /\ \A leaf \in Content(stored) :
             Secret(leaf) => Is(leaf.value, "text") /\ leaf.value.text = <<Replacement>>
        /\ {leaf \in Content(event) : ~Secret(leaf)} \subseteq Content(stored)
        /\ redactions = 0 <=> stored = event
        /\ Detect(Body(stored), Front(history)) = Detect(Body(event), Front(history))
=============================================================================
