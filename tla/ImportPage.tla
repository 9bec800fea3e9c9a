----------------------------- MODULE ImportPage -----------------------------
(***************************************************************************)
(* The page that imports a CSV, with the requests it sends and what the    *)
(* API does with them.                                                     *)
(*                                                                         *)
(* A text is the sequence of its lines after the header.  Files are read   *)
(* and requests answered while the user goes on; an answer is handled even *)
(* when the page has been told to forget its request.  Rows carry no       *)
(* external id, so that nothing but the look-up keeps one from being       *)
(* stored twice.                                                           *)
(***************************************************************************)
EXTENDS Integers, Sequences, FiniteSets

CONSTANTS Row,          \* rows that can be stored
          Texts,        \* the texts that are typed or kept in files
          Garbled,      \* what a file becomes in the wrong encoding
          MaxRows,      \* CSV_MAX_ROWS
          MaxEdits,     \* bound: how often the text or the encoding is changed or the page left
          MaxRequests   \* bound: how many requests are sent

VARIABLES
    csv, encoding, report, done, inputError,   \* the state of the page
    reading,    \* the files under way, each with the encoding it was chosen with
    request,    \* what has been sent, in this order
    table,      \* how often the database has each row
    edits

importVars == <<csv, encoding, report, done, inputError, reading, request, table, edits>>

Encoding == {"utf-8", "shift_jis"}
Files == [text : Texts, encoding : Encoding, big : BOOLEAN]

\* Anything else on a line: a row that is refused, nothing, or only spaces.
Others == {"bad", "blank", "space"}
Line == Row \cup Others

ASSUME ImportAssumption ==
    /\ Row \cap Others = {}
    /\ Texts \cup {Garbled} \subseteq Seq(Line)

ASSUME ImportBounds == IsFiniteSet(Row) /\ MaxEdits \in Nat /\ MaxRequests \in Nat

-----------------------------------------------------------------------------
(* How the page and the API number the lines.                              *)

\* The rows of the preview, and those that the page counts.
Preview(t) == SelectSeq(t, LAMBDA l : l \notin {"blank", "space"})

\* The lines that the CSV reader takes for rows: it leaves out empty ones only.
Records(t) == {k \in DOMAIN t : t[k] # "blank"}
RowNumber(t, k) == Cardinality({m \in Records(t) : m <= k})

Repeats(t, k) == \E m \in Records(t) : m < k /\ t[m] = t[k]

\* Mutant: the header counts as a row.
RefusedFromHeader(t) == {RowNumber(t, k) + 1 : k \in {m \in Records(t) : t[m] \notin Row}}

\* The rows that validate_csv refuses, and their numbers.
RefusedLines(t) == {k \in Records(t) : t[k] \notin Row \/ Repeats(t, k)}
Refused(t) == {RowNumber(t, k) : k \in RefusedLines(t)}

\* What it looks up and does not find.
Missing(t) == {t[k] : k \in Records(t) \ RefusedLines(t)} \cap {x \in Row : table[x] = 0}

NoReport == [text |-> << >>, errors |-> {}, insert |-> 0, late |-> FALSE]
Report(t) == [text |-> t, errors |-> Refused(t), insert |-> Cardinality(Missing(t)), late |-> FALSE]

Shown == report # NoReport

-----------------------------------------------------------------------------
ImportInit ==
    /\ csv = << >> /\ encoding = "utf-8" /\ report = NoReport /\ done = << >> /\ inputError = FALSE
    /\ reading = {} /\ request = << >> /\ table = [x \in Row |-> 0] /\ edits = 0

NoReply == [kind |-> "none", report |-> NoReport]
Failure == [kind |-> "failure", report |-> NoReport]
Inserted == [kind |-> "inserted", report |-> NoReport]
Judged(t) == [kind |-> "report", report |-> Report(t)]

\* Whether the page waits for its last dry run or import.
IsPending(kind) == \E n \in DOMAIN request : request[n].kind = kind /\ request[n].client = "waiting"

AtServer(n) == request[n].server # "ended"

\* An answer that is under way is handled, whatever the page was told since.
Awaited(n) == request[n].client \in {"waiting", "detached"}

\* The page stops to wait: `alone` says that none of its requests was left behind.
Detach(r, how) ==
    [n \in DOMAIN r |->
        IF r[n].client \in {"waiting", "failed"} \/ (how = "gone" /\ r[n].client = "detached")
        THEN [r[n] EXCEPT !.client = IF @ = "failed" THEN "told" ELSE how,
                          !.alone = @ /\ r[n].server = "ended"]
        ELSE r[n]]

\* Mutant: the result of the validation is kept.
SetCsvOnly(t) ==
    /\ csv' = t
    /\ done' = << >>
    /\ request' = Detach(request, "detached")
    /\ UNCHANGED report

\* A new text takes the result of the validation, and the requests, off the page.
SetCsv(t) ==
    /\ csv' = t
    /\ report' = NoReport /\ done' = << >>
    /\ request' = Detach(request, "detached")

Edit == edits < MaxEdits /\ edits' = edits + 1

TypeText(t) ==
    /\ Edit /\ t # csv
    /\ SetCsv(t) /\ inputError' = FALSE
    /\ UNCHANGED <<encoding, reading, table>>

ChooseEncoding(e) ==
    /\ Edit /\ e # encoding
    /\ encoding' = e
    /\ UNCHANGED <<csv, report, done, inputError, reading, request, table>>

\* A file that is too large is refused before it is read.
ChooseFile(f) ==
    /\ Edit
    /\ IF f.big
       THEN SetCsv(<< >>) /\ inputError' = TRUE /\ UNCHANGED reading
       ELSE /\ reading' = reading \cup {<<f, encoding>>}
            /\ UNCHANGED <<csv, report, done, inputError, request>>
    /\ UNCHANGED <<encoding, table>>

Decode(f, e) == IF f.encoding = e THEN f.text ELSE Garbled

\* Files are read in any order; the one that is read last is the text.
FileRead(x) ==
    /\ SetCsv(Decode(x[1], x[2])) /\ inputError' = FALSE
    /\ reading' = reading \ {x}
    /\ UNCHANGED <<encoding, table, edits>>

FileFails(x) ==
    /\ SetCsv(<< >>) /\ inputError' = TRUE
    /\ reading' = reading \ {x}
    /\ UNCHANGED <<encoding, table, edits>>

LeavePage ==
    /\ Edit
    /\ csv' = << >> /\ encoding' = "utf-8" /\ report' = NoReport /\ done' = << >>
    /\ inputError' = FALSE /\ reading' = {}
    /\ request' = Detach(request, "gone")
    /\ UNCHANGED table

-----------------------------------------------------------------------------
(* The two buttons.  A text that is all blank is not sent, nor one that is *)
(* too long.  The header is not modelled: a text without rows has one.     *)

CanValidate ==
    /\ csv # << >> /\ Len(Preview(csv)) <= MaxRows
    /\ ~IsPending("dry")

\* Mutant: the button is not disabled while the import is under way.
CanSubmitTwice == Shown /\ report.errors = {} /\ report.insert > 0

CanSubmit == Shown /\ report.errors = {} /\ report.insert > 0 /\ ~IsPending("run")

\* A failure is shown until the same button is pressed again.
Send(kind) ==
    /\ Len(request) < MaxRequests
    /\ request' = Append(
            [n \in DOMAIN request |->
                IF request[n].kind = kind /\ request[n].client = "failed"
                THEN [request[n] EXCEPT !.client = "told"] ELSE request[n]],
            [kind |-> kind, text |-> csv, server |-> "sent", rows |-> {}, reply |-> NoReply,
             client |-> "waiting", alone |-> TRUE])
    /\ UNCHANGED <<csv, encoding, report, done, inputError, reading, table, edits>>

HandleDryRun == CanValidate /\ Send("dry")
HandleRun == CanSubmit /\ Send("run")

-----------------------------------------------------------------------------
(* The API: validation, and for an import that passes it, one transaction. *)

pageVars == <<csv, encoding, report, done, inputError, reading, edits>>

Validate(n) ==
    LET r == request[n]
    IN  /\ r.server = "sent"
        /\ request' = [request EXCEPT ![n] =
                IF r.kind = "run" /\ Refused(r.text) = {}
                THEN [r EXCEPT !.server = "checked", !.rows = Missing(r.text)]
                ELSE [r EXCEPT !.server = "ended", !.reply = Judged(r.text)]]
        /\ UNCHANGED <<pageVars, table>>

Write(n) ==
    /\ request[n].server = "checked"
    /\ table' = [x \in Row |-> table[x] + IF x \in request[n].rows THEN 1 ELSE 0]
    /\ request' = [request EXCEPT ![n].server = "ended", ![n].reply = Inserted]
    /\ UNCHANGED pageVars

\* A history that does not fold, or a failure of the database or the server.
Rollback(n) ==
    /\ AtServer(n)
    /\ request' = [request EXCEPT ![n].server = "ended", ![n].reply = Failure]
    /\ UNCHANGED <<pageVars, table>>

-----------------------------------------------------------------------------
(* What the page does with an answer.                                      *)

\* Mutant: a refused import is taken for one that went in.
OutcomeOfAny(n) ==
    IF request[n].reply.kind # "none" /\ request[n].kind = "run" THEN "inserted"
    ELSE request[n].reply.kind

\* 422 with a report is an answer, anything else that is no success a failure.
Outcome(n) == request[n].reply.kind

Late(n) == [request[n].reply.report EXCEPT !.late = request[n].client = "detached"]

Answer(n) ==
    /\ Awaited(n) /\ Outcome(n) # "none"
    /\ CASE Outcome(n) = "report" -> report' = Late(n) /\ UNCHANGED done
         [] Outcome(n) = "inserted" -> done' = request[n].text /\ report' = NoReport
         [] OTHER -> UNCHANGED <<report, done>>
    /\ request' = [request EXCEPT ![n].client =
            IF Outcome(n) = "failure" /\ @ = "waiting" THEN "failed" ELSE "told"]
    /\ UNCHANGED <<csv, encoding, inputError, reading, table, edits>>

\* The connection is gone; the API may have done its work, do it yet, or never.
Lose(n) ==
    /\ Awaited(n)
    /\ request' = [request EXCEPT ![n].client = IF @ = "waiting" THEN "failed" ELSE "told",
                                  ![n].alone = @ /\ ~AtServer(n)]
    /\ UNCHANGED <<pageVars, table>>

ImportAnswers == \E n \in DOMAIN request : Validate(n) \/ Write(n) \/ Answer(n)

ImportNext ==
    \/ \E t \in Texts \cup {<< >>} : TypeText(t)
    \/ \E e \in Encoding : ChooseEncoding(e)
    \/ \E f \in Files : ChooseFile(f)
    \/ \E x \in reading : FileRead(x) \/ FileFails(x)
    \/ LeavePage
    \/ HandleDryRun
    \/ HandleRun
    \/ \E n \in DOMAIN request : Rollback(n) \/ Lose(n)
    \/ ImportAnswers

ImportSpec == ImportInit /\ [][ImportNext]_importVars

-----------------------------------------------------------------------------
ImportTypeOK ==
    /\ csv \in Texts \cup {<< >>, Garbled} /\ encoding \in Encoding /\ inputError \in BOOLEAN
    /\ done \in Texts \cup {<< >>, Garbled}
    /\ report.errors \subseteq 1 .. Cardinality(Records(report.text))
    /\ report.insert \in 0 .. Cardinality(Row)
    /\ reading \subseteq Files \X Encoding
    /\ \A n \in DOMAIN request :
        /\ request[n].kind \in {"dry", "run"} /\ request[n].rows \subseteq Row
        /\ request[n].server \in {"sent", "checked", "ended"}
        /\ request[n].client \in {"waiting", "failed", "detached", "gone", "told"}
    /\ table \in [Row -> 0 .. MaxRequests]
    /\ edits \in 0 .. MaxEdits

\* The result on the page is about the text on the page, except for a result
\* that was on its way when the text was changed (setCsv).
ReportIsOfItsCsv == Shown /\ ~report.late => report.text = csv

\* A text is imported only after a validation of that very text has been
\* answered without errors (task-23-csv-import-ui.md: otherwise another content
\* could be imported as if it had been validated).
OnlyValidatedIsSent ==
    \A n \in DOMAIN request : request[n].kind = "run" =>
        \E m \in 1 .. n - 1 :
            /\ request[m].kind = "dry" /\ request[m].text = request[n].text
            /\ request[m].client = "told" /\ request[m].reply.report.errors = {}

\* What the page says has been imported is in the database (runImport keeps
\* refusals and successes apart).
DoneIsStored == \A n \in DOMAIN done : done[n] \in Row => table[done[n]] > 0

\* A row gets in twice only if the page has left an import behind at the API:
\* by a new text, by leaving, or because the connection was lost.
RowsOnce ==
    (\E x \in Row : table[x] > 1) => \E n \in DOMAIN request : request[n].kind = "run" /\ ~request[n].alone
=============================================================================
