----------------------------- MODULE MCAccounts -----------------------------
(* Accounts for TLC, whose model values are interchangeable, and the audit log *)
(* that its handlers write.                                                    *)
EXTENDS Accounts, AuditChain, TLC

Symmetry == Permutations(Names) \union Permutations(Reqs)

\* Columns of up to n characters, times of which two share their six digits,
\* and every log of up to two rows of them.
Short(n) == UNION {[1 .. k -> Characters] : k \in 0 .. n} \union {Null}
Times    == 0 .. 2

LogsOf(times, columns) ==
    LET one == {Appended(<< >>, t, f, s) : t \in times, f, s \in columns}
    IN  {<< >>} \union one
          \union {Appended(log, t, f, s) : log \in one, t \in times, f, s \in columns}

\* Every alteration of the columns of a log, which leaves its hashes.
Alterations(log, times, columns) ==
    {[i \in 1 .. Len(log) |-> [ts |-> row[i][1], first |-> row[i][2], second |-> row[i][3],
                               hash |-> log[i].hash]] :
        row \in [1 .. Len(log) -> times \X columns \X columns]}

ASSUME AuditChainCheck ==
    LET few  == {Null, << >>, <<Separator>>}
        logs == LogsOf(Times, Short(1))
    IN  /\ \A log \in logs, t \in Times, f, s \in few : AppendVerifies(log, t, f, s)
        /\ \A log \in LogsOf({0}, few) : \A altered \in Alterations(log, {0, 1}, few) :
              AlterationFound(log, altered)
        /\ \A log \in LogsOf({0, 1}, few), i \in 1 .. 2, t \in Times, f, s \in Short(2) :
              FieldAlterationFound(log, i, t, f, s)
        /\ \A log \in logs, n \in 0 .. 2 : EndNotMissed(log, n)

\* The cases in which an alteration is not found: characters that move across a
\* separator, an empty column for one that is NULL, and a time with the same six
\* digits.
ASSUME NotFound ==
    LET log   == Appended(<< >>, 1, <<Separator>>, Null)
        moved == [log EXCEPT ![1].first = << >>, ![1].second = <<Separator>>]
        empty == [log EXCEPT ![1].second = << >>]
        late  == [log EXCEPT ![1].ts = 2]
    IN  Verified(log) /\ \A altered \in {moved, empty, late} : altered # log /\ Verified(altered)

=============================================================================
