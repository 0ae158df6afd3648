--------------------------- MODULE ConfigRegister ---------------------------
(* What the configuration store promises its writers, without processes,    *)
(* locks or formats: one document, replaced only by a write that named the  *)
(* document it replaces (or none at all), every displaced document kept for *)
(* a restore.  ConfigStore is shown to implement this specification.        *)
EXTENDS Sequences, Integers

CONSTANTS Documents,    \* every document the store may hold
          Empty,        \* the document of a store never written
          Anything,     \* a write that names no document it replaces
          Keep          \* how many displaced documents are kept

VARIABLES value,        \* the stored document
          kept,         \* the displaced documents, oldest first
          accepted,     \* the last accepted write: what it named, what it stored
          interventions \* how often somebody reached past the service

vars == <<value, kept, accepted, interventions>>

LastOf(s) == SubSeq(s, IF Len(s) > Keep THEN Len(s) - Keep + 1 ELSE 1, Len(s))

\* The displaced document joins the kept ones; an empty one leaves no trace.
Displace(d) == kept' = IF d = Empty THEN kept ELSE LastOf(Append(kept, d))

Init == /\ value \in Documents
        /\ kept = <<>>
        /\ accepted = [named |-> Anything, stored |-> Empty]
        /\ interventions = 0

\* An operator's write is accepted only against the document it was made from.
Write ==
    /\ value' \in Documents
    /\ accepted' = [named |-> accepted'.named, stored |-> value']
    /\ accepted'.named \in {Anything, value}
    /\ Displace(value)
    /\ UNCHANGED interventions

\* A boot may fill an empty store, or replace a partial document by a larger
\* one that says the same and more.
Complete ==
    /\ value' \in Documents
    /\ DOMAIN value \subseteq DOMAIN value'
    /\ \A k \in DOMAIN value : value'[k] = value[k]
    /\ Displace(value)
    /\ UNCHANGED <<accepted, interventions>>

\* Somebody replaces the document in the database itself.
Intervene ==
    /\ interventions' = interventions + 1
    /\ value' \in Documents
    /\ UNCHANGED <<kept, accepted>>

Next == Write \/ Complete \/ Intervene

Spec == Init /\ [][Next]_vars
=============================================================================
