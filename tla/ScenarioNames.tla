----------------------------- MODULE ScenarioNames -----------------------------
(***************************************************************************)
(* Logical names: how a table's schema and name are written as the one     *)
(* name its delta and its registry rows go by.  A name is a sequence of    *)
(* characters, and only two of them matter, the separator and the quote.   *)
(***************************************************************************)
EXTENDS Naturals, SequencesExt

CONSTANTS
    Letter,        \* the other characters
    DefaultSchema, \* name of the schema that is left out
    MaxLength      \* bound: characters of a name

Dot == "."
Quote == "\""

\* What a database allows as a name: any characters, but some.
Identifier == UNION {[1..n -> Letter \cup {Dot, Quote}] : n \in 1..MaxLength}

-----------------------------------------------------------------------------
\* Mutant of NeedsQuotes: a leading quote is left as it is.
NeedsQuotesForDot(part) == Contains(part, Dot)

NeedsQuotes(part) == Contains(part, Dot) \/ Head(part) = Quote

EncodeNamePart(part) ==
    IF ~NeedsQuotes(part) THEN part
    ELSE <<Quote>> \o FlattenSeq([i \in DOMAIN part |-> IF part[i] = Quote THEN <<Quote, Quote>> ELSE <<part[i]>>])
           \o <<Quote>>

EncodeLogicalName(schema, table) ==
    IF schema = DefaultSchema THEN EncodeNamePart(table)
    ELSE EncodeNamePart(schema) \o <<Dot>> \o EncodeNamePart(table)

-----------------------------------------------------------------------------
(* Decoding gives a part and the position after it.                        *)

Malformed == [part |-> <<>>, pos |-> 0]

WellFormed(read) == read.pos # 0

\* The part of which the closing quote is the first that is not doubled.
QuotedPart(name, start, stopAtDot) ==
    LET At(i, c) == i <= Len(name) /\ name[i] = c
        read[i \in Nat] ==
            LET After(n) == IF WellFormed(read[i + n]) THEN [read[i + n] EXCEPT !.part = <<name[i]>> \o @]
                            ELSE Malformed
            IN  IF i > Len(name) THEN Malformed
                ELSE IF name[i] # Quote THEN After(1)
                ELSE IF At(i + 1, Quote) THEN After(2)
                ELSE IF i = Len(name) \/ (stopAtDot /\ At(i + 1, Dot)) THEN [part |-> <<>>, pos |-> i + 1]
                ELSE Malformed
    IN  IF At(start, Quote) THEN read[start + 1] ELSE Malformed

\* The characters up to the next separator, or all that are left.
LiteralPart(name, start, stopAtDot) ==
    LET ends == {i \in start..Len(name) : stopAtDot /\ name[i] = Dot} \cup {Len(name) + 1}
        end == CHOOSE e \in ends : \A i \in ends : e <= i
    IN  [part |-> SubSeq(name, start, end - 1), pos |-> end]

DecodeNamePart(name, start, stopAtDot) ==
    LET quoted == QuotedPart(name, start, stopAtDot)
    IN  IF WellFormed(quoted) THEN quoted ELSE LiteralPart(name, start, stopAtDot)

SplitLogicalName(name) ==
    LET first == DecodeNamePart(name, 1, TRUE)
    IN  IF first.pos > Len(name) THEN <<DefaultSchema, first.part>>
        ELSE <<first.part, DecodeNamePart(name, first.pos + 1, FALSE).part>>

-----------------------------------------------------------------------------
\* A logical name names one table: splitting it gives back the schema and the
\* name it was made of.  So no two tables share a delta, and a merge, which has
\* only the logical name, finds the base table.
RoundTrips(schema, table) == SplitLogicalName(EncodeLogicalName(schema, table)) = <<schema, table>>
=============================================================================
