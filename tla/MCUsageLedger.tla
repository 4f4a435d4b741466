--------------------------- MODULE MCUsageLedger ---------------------------
(* Small instances of UsageLedger, and the load as the loop of the code.   *)
EXTENDS UsageLedger

\* The lines of the file: the runs of chunks between line feeds.
Lines(chunks) ==
    FoldLeft(LAMBDA lines, chunk :
                IF chunk = Newline THEN Append(lines, <<>>)
                ELSE Append(Front(lines), Append(Last(lines), chunk)),
             << <<>> >>, chunks)

\* One iteration of the loop in loadUsage.
LoadLine(state, line) ==
    IF state.poison \/ line = <<>> THEN state
    ELSE IF Len(line) > 1 \/ line[1] = Torn THEN [state EXCEPT !.poison = TRUE]
    ELSE LET row == line[1]
             existing == state.usage[row.unit]
         IN  IF existing # NoReceipt /\ Contradicts(existing, row)
             THEN [state EXCEPT !.poison = TRUE]
             ELSE IF existing = row THEN state
             ELSE [state EXCEPT !.usage[row.unit] = row]

\* The load of the model is the loop of the code: it poisons the same files
\* and folds the same receipts, on everything a reader may find.
LoadIsTheLoop ==
    \A chunks \in Survivors :
        FoldLeft(LoadLine, [usage |-> NoUsage, poison |-> FALSE], Lines(chunks))
            = [usage |-> Loaded(chunks), poison |-> ~Loads(chunks)]
=============================================================================
