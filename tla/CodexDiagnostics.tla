--------------------------- MODULE CodexDiagnostics ---------------------------
(***************************************************************************)
(* What the Codex transport reads out of a finished executor's output      *)
(* (executor_transports/codex_local.py, executor_outcome.py).  At most     *)
(* Budget bytes of a stream are scanned: all of it, or its head and its    *)
(* tail; a line cut by either edge is dropped.                             *)
(*                                                                         *)
(* A stream is a sequence of lines [kind, bytes, outcome, id]: the bytes   *)
(* include the line end; outcome is the marker a message carries; id is    *)
(* the item id of a command or file change, 0 when it has none.            *)
(***************************************************************************)
EXTENDS Integers, Sequences, FiniteSets, FiniteSetsExt, SequencesExt

CONSTANT Budget     \* MAX_CODEX_DIAGNOSTIC_SCAN_BYTES_PER_STREAM

ASSUME BudgetAssumption == Budget \in Nat \ {0}

EndOf(stream, i) == FoldLeft(LAMBDA n, l : n + l.bytes, 0, SubSeq(stream, 1, i))
StartOf(stream, i) == EndOf(stream, i) - stream[i].bytes
TotalBytes(stream) == EndOf(stream, Len(stream))
Truncated(stream) == TotalBytes(stream) > Budget

Half == Budget \div 2
TailStart(stream) == Max({Half, TotalBytes(stream) - (Budget - Half)})

\* One byte before the tail is read to learn whether the tail starts a line.
Whole(stream, i) ==
    \/ ~Truncated(stream)
    \/ EndOf(stream, i) <= Half
    \/ StartOf(stream, i) > TailStart(stream)

\* Bug: the line cut by the start of the tail is kept.
ScannedCutLine(stream) ==
    {i \in DOMAIN stream : Whole(stream, i) \/ EndOf(stream, i) > TailStart(stream) + 1}

\* The lines that are read; the ones cut by an edge are dropped.
Scanned(stream) == {i \in DOMAIN stream : Whole(stream, i)}

\* Part of a JSON line is not JSON.
AsRead(stream, i) ==
    IF Whole(stream, i) THEN stream[i] ELSE [stream[i] EXCEPT !.kind = "text"]

IsJson(line) == line.kind # "text"
IsRecognized(line) ==
    line.kind \in {"failure", "turn", "reasoning", "message", "silent", "command", "file"}

\* A message without text ("silent") is recognized but not taken as final.
IsMessage(line) == line.kind = "message"

\* One marker of the closed vocabulary, or UNKNOWN: none, several and
\* unlisted ones are not told apart.
OutcomeCodes == {"IMPLEMENTED", "BLOCKED", "NO_WORK_REQUIRED", "INSTRUCTION_CONFLICT", "UNKNOWN"}
TerminalOutcome(line) == IF line.outcome \in OutcomeCodes THEN line.outcome ELSE "UNKNOWN"

\* Events of one item are counted once, events without an id each.
ActivityCount(stream, kind) ==
    LET of == {i \in Scanned(stream) : stream[i].kind = kind}
        named == {i \in of : stream[i].id # 0}
    IN  Cardinality({stream[i].id : i \in named}) + Cardinality(of \ named)

DiagnosticCode(out, err) ==
    LET lines == {AsRead(out, i) : i \in Scanned(out)}
        json == \E l \in lines : IsJson(l)
    IN  CASE out = <<>> /\ err = <<>> -> "EMPTY_OUTPUT"
          [] out = <<>> /\ err # <<>> -> "STDERR_ONLY"
          [] out # <<>> /\ \E l \in lines : l.kind = "failure" -> "JSON_ERROR_EVENT"
          [] OTHER -> CASE json /\ \A l \in lines : IsJson(l) -> "JSON_EVENT_STREAM"
                        [] json /\ \E l \in lines : ~IsJson(l) -> "MIXED_OUTPUT"
                        [] ~json -> "NON_JSON_OUTPUT"

\* _analyze_diagnostic_stream; "cut" says that some byte of stdout was skipped.
Diagnostic(out, err) ==
    LET messages == {i \in Scanned(out) : IsMessage(out[i])}
        known == \E i \in Scanned(out) : IsRecognized(out[i])
        counted == known /\ ~Truncated(out)
    IN  [code |-> DiagnosticCode(out, err),
         cut |-> Truncated(out),
         observed |-> CASE messages # {} -> "YES"
                        [] messages = {} /\ counted -> "NO"
                        [] OTHER -> "UNKNOWN",
         outcome |-> IF messages = {} THEN "UNKNOWN"
                                      ELSE TerminalOutcome(out[Max(messages)]),
         commands |-> IF counted THEN ActivityCount(out, "command") ELSE -1,
         files |-> IF counted THEN ActivityCount(out, "file") ELSE -1]

-----------------------------------------------------------------------------
(* What the whole stream says, for comparison.                             *)

Messages(out) == {i \in DOMAIN out : IsMessage(out[i])}
FinalOutcome(out) ==
    IF Messages(out) = {} THEN "UNKNOWN" ELSE TerminalOutcome(out[Max(Messages(out))])
Distinct(out, kind) ==
    Cardinality({<<out[i].id, IF out[i].id = 0 THEN i ELSE 0>> :
                    i \in {j \in DOMAIN out : out[j].kind = kind}})
=============================================================================
