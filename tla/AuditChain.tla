------------------------------ MODULE AuditChain ------------------------------
(***************************************************************************)
(* The audit log of the key service as audit_append chains it and          *)
(* audit_verify reads it (storage.py): each row carries a hash over the    *)
(* text of its own columns and the hash of the row before it.              *)
(*                                                                         *)
(* A hash is the pair it is computed from, so that equal hashes are those  *)
(* of equal texts; a text, never a row, is what a hash determines.  Three  *)
(* things are lost on the way to a text: a column that is NULL is written  *)
(* as an empty one, the time is written with six digits after the point,   *)
(* and the bar that separates two columns may occur in a column too.       *)
(***************************************************************************)
EXTENDS Integers, Sequences

CONSTANTS
    Characters,
    Separator,    \* the bar between two columns
    Null,         \* the value of a column that has none
    Grain         \* the readings of the clock in one microsecond

ASSUME GrainAssumption == Grain \in Nat \ {0}

Strings == Seq(Characters)
Columns == Strings \union {Null}

\* prev_hash of the first row
Genesis == << >>

\* f"{ts:.6f}": the microsecond nearest to a reading of the clock.
Stamp(ts) == (ts + Grain \div 2) \div Grain

\* column or ""
Shown(column) == IF column = Null THEN << >> ELSE column

\* What one row says.  Two of the columns that are text tell the cases apart;
\* the time, which stands before them, holds no bar.
Joined(first, second) == first \o <<Separator>> \o second

Text(row) == <<Stamp(row.ts), Joined(Shown(row.first), Shown(row.second))>>

Hash(prev, row) == <<prev, Text(row)>>

HashBefore(log, i) == IF i = 1 THEN Genesis ELSE log[i - 1].hash

\* audit_append, which holds the lock from its SELECT to its COMMIT.
NewRow(log, ts, first, second) ==
    LET row == [ts |-> ts, first |-> first, second |-> second]
    IN  [ts |-> ts, first |-> first, second |-> second,
         hash |-> <<HashBefore(log, Len(log) + 1), Text(row)>>]

Appended(log, ts, first, second) == Append(log, NewRow(log, ts, first, second))

\* audit_verify: the column prev_hash is not read.
Verified(log) == \A i \in 1 .. Len(log) : log[i].hash = Hash(HashBefore(log, i), log[i])

-----------------------------------------------------------------------------
\* A log that verifies still does after an append, whatever the columns hold
\* (storage.py:489-511).
AppendVerifies(log, ts, first, second) ==
    Verified(log) => Verified(Appended(log, ts, first, second))

\* What audit_verify promises is to return "False if any row was altered"
\* (storage.py:517).  When the columns of some rows are altered and the hashes
\* are not, it returns False exactly if one of the texts has changed.
AlterationFound(log, altered) ==
    /\ Verified(log)
    /\ Len(altered) = Len(log)
    /\ \A i \in 1 .. Len(log) : altered[i].hash = log[i].hash
    => (Verified(altered) <=> \A i \in 1 .. Len(log) : Text(altered[i]) = Text(log[i]))

\* Two values of a column that the text does not tell apart.
SameTime(t, u)   == Stamp(t) = Stamp(u)
SameColumn(c, d) == c = d \/ {c, d} = {Null, << >>}

\* When a single column of a row is altered, that is found unless an empty
\* column takes the place of one that is NULL, or NULL that of an empty one, or
\* the time moves within the six digits that are written of it
\* (storage.py:494-497, 522-526).
FieldAlterationFound(log, i, ts, first, second) ==
    Verified(log) /\ i \in 1 .. Len(log) =>
        /\ Verified([log EXCEPT ![i].ts = ts]) <=> SameTime(ts, log[i].ts)
        /\ Verified([log EXCEPT ![i].first = first]) <=> SameColumn(first, log[i].first)
        /\ Verified([log EXCEPT ![i].second = second]) <=> SameColumn(second, log[i].second)

\* Rows that are taken off the end are not missed.
EndNotMissed(log, n) == Verified(log) /\ n \in 0 .. Len(log) => Verified(SubSeq(log, 1, n))

===============================================================================
