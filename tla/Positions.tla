------------------------------ MODULE Positions ------------------------------
(***************************************************************************)
(* ParsePositions (config/positions.go): from the text of --positions to   *)
(* the list of word positions to sweep.  A text is the list of its         *)
(* comma-separated tokens; a token is the range it stands for, a single    *)
(* position being a range of one, or it is malformed (nothing between two  *)
(* commas, a letter, a minus without a number on both sides).              *)
(***************************************************************************)
EXTENDS Integers, Sequences, SequencesExt

WordPositions == 0 .. 11

Malformed == <<>>
Token == {Malformed} \cup (Nat \X Nat)

Span(token) == [k \in 1 .. token[2] - token[1] + 1 |-> token[1] + k - 1]

ListOf(spec) == FlattenSeq([i \in DOMAIN spec |-> Span(spec[i])])

AllowRepeats(spec) == \* mutant of Rejects
    spec = <<>> \/ \E i \in DOMAIN spec : spec[i] = Malformed
Rejects(spec) ==
    \/ spec = <<>>
    \/ \E i \in DOMAIN spec : spec[i] = Malformed
    \/ \E i \in DOMAIN spec : spec[i][1] > spec[i][2]
    \/ LET list == ListOf(spec)
       IN  ~ (Range(list) \subseteq WordPositions /\ IsInjective(list))

(* The empty list stands for an error.                                     *)
ParsePositions(spec) == IF Rejects(spec) THEN <<>> ELSE ListOf(spec)
=============================================================================
