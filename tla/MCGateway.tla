---------------------------- MODULE MCGateway ----------------------------
EXTENDS Gateway

\* The discretionary caller's request asks for a catalogue entry, the other's
\* for nothing in particular; every entry passes both requests' filters.
MCSuits  == [c \in Callers |-> Entries]
MCHinted == [c \in Callers |-> IF c \in Discretionary THEN Catalogue ELSE Entries]
=============================================================================
