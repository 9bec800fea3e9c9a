----------------------------- MODULE PageProofs -----------------------------
(***************************************************************************)
(* Proofs about the pages of a browser tab: ImportPage, for any rows,      *)
(* texts and files and any number of edits and requests; Selections, for   *)
(* any options, texts to search for and delay, and any number of choices;  *)
(* Dialogs, for any texts and any number of forms, requests and changes;   *)
(* Session, for every lifetime of a token, margin and leeway, and any      *)
(* number of requests; and MCWebTab, which composes the four.              *)
(***************************************************************************)
EXTENDS MCWebTab, SequenceTheorems, FiniteSetTheorems, TLAPS

-----------------------------------------------------------------------------
(* ImportPage: what its variables are.                                     *)

AnyText == Seq(Line)

AnyReport == [text : AnyText, errors : SUBSET {Cardinality(S) : S \in SUBSET Nat},
              insert : {Cardinality(S) : S \in SUBSET Row} \cup {0}, late : BOOLEAN]

AnyReply == [kind : {"none", "failure", "inserted", "report"}, report : AnyReport]

AnyRequest == [kind : {"dry", "run"}, text : AnyText, server : {"sent", "checked", "ended"},
               rows : SUBSET Row, reply : AnyReply,
               client : {"waiting", "failed", "detached", "gone", "told"}, alone : BOOLEAN]

ImportTypes ==
    /\ csv \in AnyText /\ done \in AnyText
    /\ report \in AnyReport
    /\ encoding \in Encoding
    /\ reading \subseteq Files \X Encoding
    /\ request \in Seq(AnyRequest)
    /\ table \in [Row -> Nat]

LEMMA TextFacts ==
    /\ << >> \in AnyText
    /\ \A t \in Texts : t \in AnyText
    /\ \A f \in Files, e \in Encoding : Decode(f, e) \in AnyText
    /\ \A t \in AnyText : DOMAIN t \in SUBSET Nat /\ \A k \in DOMAIN t : t[k] \in Line
  BY ImportAssumption DEF AnyText, Files, Decode

LEMMA ReportFacts ==
    ASSUME NEW t \in AnyText
    PROVE  /\ NoReport \in AnyReport
           /\ Report(t) \in AnyReport /\ Report(t).text = t /\ Report(t).late = FALSE
           /\ Judged(t) \in AnyReply /\ Judged(t).kind = "report" /\ Judged(t).report = Report(t)
  <1>1. NoReport \in AnyReport
    BY TextFacts DEF NoReport, AnyReport
  <1>2. Report(t) \in AnyReport
    <2>1. Refused(t) \in SUBSET {Cardinality(S) : S \in SUBSET Nat}
      <3>1. \A k : {m \in Records(t) : m <= k} \in SUBSET Nat
        BY TextFacts DEF Records
      <3>. QED  BY <3>1 DEF Refused, RowNumber
    <2>2. Missing(t) \in SUBSET Row
      BY DEF Missing
    <2>. QED  BY <2>1, <2>2 DEF Report, AnyReport
  <1>3. Report(t).text = t /\ Report(t).late = FALSE
    BY DEF Report
  <1>. QED  BY <1>1, <1>2, <1>3 DEF Judged, AnyReply

LEMMA ReplyFacts ==
    /\ NoReport \in AnyReport
    /\ NoReply \in AnyReply /\ NoReply.kind = "none"
    /\ Failure \in AnyReply /\ Failure.kind = "failure"
    /\ Inserted \in AnyReply /\ Inserted.kind = "inserted"
  <1>1. NoReport \in AnyReport
    BY TextFacts, ReportFacts
  <1>. QED  BY <1>1 DEF NoReply, Failure, Inserted, AnyReply

\* The fields of a request that neither the page's waiting nor its end changes.
Same(r, s) ==
    /\ r.kind = s.kind /\ r.text = s.text /\ r.server = s.server /\ r.rows = s.rows
    /\ r.reply = s.reply

\* To stop waiting leaves alone only those that the API is done with.
LEMMA DetachFacts ==
    ASSUME ImportTypes, NEW how \in {"detached", "gone"}
    PROVE  /\ Detach(request, how) \in Seq(AnyRequest)
           /\ DOMAIN Detach(request, how) = DOMAIN request
           /\ \A n \in DOMAIN request :
                /\ Same(Detach(request, how)[n], request[n])
                /\ Detach(request, how)[n].client # "waiting"
                /\ Detach(request, how)[n].alone =>
                       /\ request[n].alone
                       /\ request[n].client = "waiting" => request[n].server = "ended"
  <1>1. request \in Seq(AnyRequest) /\ DOMAIN request = 1 .. Len(request) /\ Len(request) \in Nat
    BY DEF ImportTypes
  <1>2. \A n \in DOMAIN request : request[n] \in AnyRequest
    BY <1>1
  <1> DEFINE D(n) == IF request[n].client \in {"waiting", "failed"}
                         \/ (how = "gone" /\ request[n].client = "detached")
                     THEN [request[n] EXCEPT
                               !.client = IF @ = "failed" THEN "told" ELSE how,
                               !.alone = @ /\ request[n].server = "ended"]
                     ELSE request[n]
  <1>3. Detach(request, how) = [n \in DOMAIN request |-> D(n)]
    BY DEF Detach
  <1>4. ASSUME NEW n \in DOMAIN request
        PROVE  /\ D(n) \in AnyRequest /\ Same(D(n), request[n]) /\ D(n).client # "waiting"
               /\ D(n).alone => /\ request[n].alone
                                /\ request[n].client = "waiting" => request[n].server = "ended"
    <2>1. request[n] \in AnyRequest
      BY <1>2, <1>4
    <2>. QED  BY <2>1 DEF AnyRequest, Same
  <1> HIDE DEF D
  <1>5. Detach(request, how) \in Seq(AnyRequest)
    BY <1>1, <1>3, <1>4
  <1>. QED  BY <1>3, <1>4, <1>5

\* Whatever is sent comes after what has been sent.
LEMMA SendFacts ==
    ASSUME ImportTypes, NEW kind \in {"dry", "run"}, Send(kind)
    PROVE  LET end == Len(request) + 1
           IN  /\ request' \in Seq(AnyRequest)
               /\ DOMAIN request' = DOMAIN request \cup {end} /\ end \notin DOMAIN request
               /\ \A n \in DOMAIN request :
                    /\ Same(request'[n], request[n])
                    /\ request'[n].alone = request[n].alone
                    /\ request'[n].client = "waiting" <=> request[n].client = "waiting"
               /\ Same(request'[end], [kind |-> kind, text |-> csv, server |-> "sent",
                                        rows |-> {}, reply |-> NoReply])
               /\ request'[end].client = "waiting" /\ request'[end].alone
  <1>1. request \in Seq(AnyRequest) /\ DOMAIN request = 1 .. Len(request) /\ Len(request) \in Nat
    BY DEF ImportTypes
  <1>2. \A n \in DOMAIN request : request[n] \in AnyRequest
    BY <1>1
  <1> DEFINE K(n) == IF request[n].kind = kind /\ request[n].client = "failed"
                     THEN [request[n] EXCEPT !.client = "told"] ELSE request[n]
             old == [n \in DOMAIN request |-> K(n)]
             new == [kind |-> kind, text |-> csv, server |-> "sent", rows |-> {},
                     reply |-> NoReply, client |-> "waiting", alone |-> TRUE]
  <1>3. request' = Append(old, new)
    BY DEF Send
  <1>4. ASSUME NEW n \in DOMAIN request
        PROVE  /\ K(n) \in AnyRequest /\ Same(K(n), request[n]) /\ K(n).alone = request[n].alone
               /\ K(n).client = "waiting" <=> request[n].client = "waiting"
    <2>1. request[n] \in AnyRequest
      BY <1>2, <1>4
    <2>. QED  BY <2>1 DEF AnyRequest, Same
  <1>5. new \in AnyRequest
    BY ReplyFacts DEF AnyRequest, ImportTypes
  <1>6. /\ new.client = "waiting" /\ new.alone
        /\ Same(new, [kind |-> kind, text |-> csv, server |-> "sent", rows |-> {},
                      reply |-> NoReply])
    BY DEF Same
  <1> HIDE DEF K, new
  <1>7. old \in Seq(AnyRequest) /\ Len(old) = Len(request) /\ DOMAIN old = DOMAIN request
        /\ \A n \in DOMAIN request : old[n] = K(n)
    BY <1>1, <1>4
  <1> HIDE DEF old
  <1>8. /\ request' \in Seq(AnyRequest) /\ DOMAIN request' = 1 .. Len(request) + 1
        /\ \A n \in DOMAIN request : request'[n] = K(n)
        /\ request'[Len(request) + 1] = new
    BY <1>1, <1>3, <1>5, <1>7
  <1>. QED  BY <1>1, <1>4, <1>6, <1>8

\* A step about one request leaves the others.
LEMMA OneRequest ==
    ASSUME ImportTypes, NEW n \in DOMAIN request, NEW r \in AnyRequest,
           request' = [request EXCEPT ![n] = r]
    PROVE  /\ request' \in Seq(AnyRequest) /\ DOMAIN request' = DOMAIN request
           /\ request'[n] = r
           /\ \A m \in DOMAIN request : m # n => request'[m] = request[m]
  BY DEF ImportTypes
-----------------------------------------------------------------------------
(* ImportPage: the invariants.                                             *)

\* What the page waits for is about its text; a report is about the text it was
\* made for, whenever it comes.
ReportOK ==
    /\ ReportIsOfItsCsv
    /\ \A n \in DOMAIN request :
        /\ request[n].client = "waiting" => request[n].text = csv
        /\ request[n].reply.kind = "report" => request[n].reply.report.text = request[n].text

\* Every row of a text is in the database, or among those about to be written.
Held(t, more) == \A k \in DOMAIN t : t[k] \in Row => table[t[k]] > 0 \/ t[k] \in more

StoredOK ==
    /\ Held(done, {})
    /\ \A n \in DOMAIN request :
        /\ request[n].server = "checked" => Held(request[n].text, request[n].rows)
        /\ request[n].reply.kind = "inserted" => Held(request[n].text, {})

Run(n) == request[n].kind = "run"
NoneLeft == \A n \in DOMAIN request : Run(n) => request[n].alone

\* While no import was left behind, the API is busy with at most one, the one the
\* page waits for, and the rows that it looked up are still missing.
OnceOK ==
    /\ \A n \in DOMAIN request :
        /\ request[n].server = "checked" => Run(n)
        /\ AtServer(n) => request[n].reply.kind = "none"
        /\ Run(n) /\ request[n].alone /\ AtServer(n) => request[n].client = "waiting"
    /\ \A m, n \in DOMAIN request :
        Run(m) /\ Run(n) /\ request[m].client = "waiting" /\ request[n].client = "waiting"
            => m = n
    /\ NoneLeft =>
        /\ \A x \in Row : table[x] <= 1
        /\ \A n \in DOMAIN request :
            request[n].server = "checked" => \A x \in request[n].rows : table[x] = 0

ImportInv == ImportTypes /\ ReportOK /\ StoredOK /\ OnceOK

LEMMA InitImport == ImportInit => ImportInv
  <1> SUFFICES ASSUME ImportInit PROVE ImportInv
    OBVIOUS
  <1>1. ImportTypes
    <2>1. << >> \in AnyText /\ NoReport \in AnyReport
      BY TextFacts, ReportFacts
    <2>2. << >> \in Seq(AnyRequest)
      OBVIOUS
    <2>3. [x \in Row |-> 0] \in [Row -> Nat] /\ "utf-8" \in Encoding
      BY DEF Encoding
    <2>. QED  BY <2>1, <2>2, <2>3 DEF ImportInit, ImportTypes
  <1>2. DOMAIN request = {} /\ DOMAIN done = {}
    BY DEF ImportInit
  <1>3. ReportOK /\ StoredOK /\ OnceOK
    BY <1>2 DEF ImportInit, ReportOK, ReportIsOfItsCsv, Shown, StoredOK, Held, OnceOK
  <1>. QED  BY <1>1, <1>3 DEF ImportInv

\* A new text, or the page left: nothing of what was shown stays.
LEMMA ClearedStep ==
    ASSUME ImportInv, NEW how \in {"detached", "gone"}, csv' \in AnyText, report' = NoReport,
           done' = << >>, request' = Detach(request, how), table' = table,
           encoding' \in Encoding, reading' \subseteq Files \X Encoding
    PROVE  ImportInv'
  <1>1. /\ request' \in Seq(AnyRequest) /\ DOMAIN request' = DOMAIN request
        /\ \A n \in DOMAIN request :
            /\ Same(request'[n], request[n])
            /\ request'[n].client # "waiting"
            /\ request'[n].alone =>
                   /\ request[n].alone
                   /\ request[n].client = "waiting" => request[n].server = "ended"
    BY DetachFacts DEF ImportInv
  <1>2. ImportTypes'
    BY <1>1, TextFacts, ReportFacts DEF ImportInv, ImportTypes
  <1>3. ReportOK'
    BY <1>1 DEF ImportInv, ReportOK, ReportIsOfItsCsv, Shown, Same
  <1>4. StoredOK'
    BY <1>1 DEF ImportInv, StoredOK, Held, Same
  <1>5. OnceOK'
    BY <1>1 DEF ImportInv, OnceOK, NoneLeft, Run, AtServer, Same
  <1>. QED  BY <1>2, <1>3, <1>4, <1>5 DEF ImportInv

LEMMA SameStep ==
    ASSUME ImportInv, UNCHANGED <<csv, report, done, request, table>>,
           encoding' \in Encoding, reading' \subseteq Files \X Encoding
    PROVE  ImportInv'
  <1>1. ImportTypes'
    BY DEF ImportInv, ImportTypes
  <1>2. ReportOK' /\ StoredOK' /\ OnceOK'
    BY DEF ImportInv, ReportOK, ReportIsOfItsCsv, Shown, StoredOK, Held, OnceOK, NoneLeft, Run,
           AtServer
  <1>. QED  BY <1>1, <1>2 DEF ImportInv

LEMMA EditStep ==
    ASSUME ImportInv,
           \/ \E t \in Texts \cup {<< >>} : TypeText(t)
           \/ \E e \in Encoding : ChooseEncoding(e)
           \/ \E f \in Files : ChooseFile(f)
           \/ \E x \in reading : FileRead(x) \/ FileFails(x)
           \/ LeavePage
    PROVE  ImportInv'
  <1>1. reading \subseteq Files \X Encoding /\ encoding \in Encoding
        /\ "utf-8" \in Encoding
    BY DEF ImportInv, ImportTypes, Encoding
  <1>2. ASSUME NEW t \in Texts \cup {<< >>}, TypeText(t) PROVE ImportInv'
    <2>1. t \in AnyText
      BY TextFacts
    <2>. QED  BY <1>1, <1>2, <2>1, ClearedStep DEF TypeText, SetCsv
  <1>3. ASSUME NEW e \in Encoding, ChooseEncoding(e) PROVE ImportInv'
    BY <1>1, <1>3, SameStep DEF ChooseEncoding
  <1>4. ASSUME NEW f \in Files, ChooseFile(f) PROVE ImportInv'
    <2>1. CASE f.big
      BY <1>1, <1>4, <2>1, TextFacts, ClearedStep DEF ChooseFile, SetCsv
    <2>2. CASE ~ f.big
      <3>1. <<f, encoding>> \in Files \X Encoding
        BY <1>1
      <3>2. reading' = reading \cup {<<f, encoding>>}
        BY <1>4, <2>2 DEF ChooseFile
      <3>3. reading' \subseteq Files \X Encoding
        BY <1>1, <3>1, <3>2
      <3>. QED  BY <1>1, <1>4, <2>2, <3>3, SameStep DEF ChooseFile
    <2>. QED  BY <2>1, <2>2
  <1>5. ASSUME NEW x \in reading, FileRead(x) \/ FileFails(x) PROVE ImportInv'
    <2>1. Decode(x[1], x[2]) \in AnyText
      BY <1>1, TextFacts
    <2>2. reading \ {x} \subseteq Files \X Encoding /\ << >> \in AnyText
      BY <1>1, TextFacts
    <2>3. PICK t \in AnyText : SetCsv(t) /\ reading' = reading \ {x}
                              /\ UNCHANGED <<encoding, table>>
      BY <1>5, <2>1, <2>2 DEF FileRead, FileFails
    <2>. QED  BY <1>1, <2>2, <2>3, ClearedStep DEF SetCsv
  <1>6. ASSUME LeavePage PROVE ImportInv'
    BY <1>1, <1>6, TextFacts, ClearedStep DEF LeavePage
  <1>. QED  BY <1>2, <1>3, <1>4, <1>5, <1>6

\* A button: an import is sent only when the page waits for none.
LEMMA SendStep ==
    ASSUME ImportInv, HandleDryRun \/ HandleRun
    PROVE  ImportInv'
  <1>1. PICK kind \in {"dry", "run"} : Send(kind) /\ (kind = "run" => ~ IsPending("run"))
    BY DEF HandleDryRun, HandleRun, CanSubmit
  <1> DEFINE end == Len(request) + 1
  <1>2. /\ request' \in Seq(AnyRequest)
        /\ DOMAIN request' = DOMAIN request \cup {end} /\ end \notin DOMAIN request
        /\ \A n \in DOMAIN request :
            /\ Same(request'[n], request[n])
            /\ request'[n].alone = request[n].alone
            /\ request'[n].client = "waiting" <=> request[n].client = "waiting"
        /\ request'[end].kind = kind /\ request'[end].text = csv
        /\ request'[end].server = "sent" /\ request'[end].reply = NoReply
        /\ request'[end].client = "waiting" /\ request'[end].alone
    BY <1>1, SendFacts DEF ImportInv, Same
  <1>3. UNCHANGED <<csv, encoding, report, done, reading, table>>
    BY <1>1 DEF Send
  <1> HIDE DEF end
  <1>4. ImportTypes'
    BY <1>2, <1>3 DEF ImportInv, ImportTypes
  <1>5. ReportOK'
    BY <1>2, <1>3, ReplyFacts DEF ImportInv, ReportOK, ReportIsOfItsCsv, Shown, Same
  <1>6. StoredOK'
    <2>1. \A n \in DOMAIN request' :
              request'[n].server = "checked" \/ request'[n].reply.kind = "inserted" =>
                  n \in DOMAIN request /\ Same(request'[n], request[n])
      BY <1>2, ReplyFacts
    <2>. QED  BY <1>3, <2>1 DEF ImportInv, StoredOK, Held, Same
  <1>7. OnceOK'
    <2>1. \A n \in DOMAIN request :
              Run(n) /\ request[n].client = "waiting" => kind # "run"
      BY <1>1 DEF IsPending, Run
    <2>2. NoneLeft' => NoneLeft
      BY <1>2 DEF NoneLeft, Run, Same
    <2>3. \A n \in DOMAIN request' :
            /\ request'[n].server = "checked" => Run(n)'
            /\ AtServer(n)' => request'[n].reply.kind = "none"
            /\ Run(n)' /\ request'[n].alone /\ AtServer(n)' => request'[n].client = "waiting"
      BY <1>2, ReplyFacts DEF ImportInv, OnceOK, Run, AtServer, Same
    <2>4. \A m, n \in DOMAIN request' :
            Run(m)' /\ Run(n)' /\ request'[m].client = "waiting"
                    /\ request'[n].client = "waiting" => m = n
      BY <1>2, <2>1 DEF ImportInv, OnceOK, Run, Same
    <2>5. \A n \in DOMAIN request' :
            request'[n].server = "checked" => n \in DOMAIN request /\ Same(request'[n], request[n])
      BY <1>2
    <2>6. ASSUME NoneLeft' PROVE (/\ \A x \in Row : table[x] <= 1
                                  /\ \A n \in DOMAIN request : request[n].server = "checked" =>
                                         \A x \in request[n].rows : table[x] = 0)'
      BY <1>3, <2>2, <2>5, <2>6 DEF ImportInv, OnceOK, Same
    <2>. QED  BY <2>3, <2>4, <2>6 DEF OnceOK
  <1>. QED  BY <1>4, <1>5, <1>6, <1>7 DEF ImportInv

\* What the API or the page does about one request leaves its text as it is, and
\* does not make it wait again.
LEMMA AboutOne ==
    ASSUME ImportInv, NEW n \in DOMAIN request, NEW r \in AnyRequest,
           request' = [request EXCEPT ![n] = r],
           r.kind = request[n].kind, r.text = request[n].text,
           r.client = "waiting" => request[n].client = "waiting",
           r.alone => request[n].alone,
           r.reply.kind = "report" => r.reply.report.text = r.text,
           UNCHANGED <<csv, encoding, reading>>
    PROVE  /\ request' \in Seq(AnyRequest) /\ DOMAIN request' = DOMAIN request
           /\ request'[n] = r
           /\ \A m \in DOMAIN request : m # n => request'[m] = request[m]
           /\ NoneLeft' => NoneLeft
           /\ ReportIsOfItsCsv' => ReportOK'
           /\ \A k, m \in DOMAIN request :
                Run(k)' /\ Run(m)' /\ request'[k].client = "waiting"
                        /\ request'[m].client = "waiting" => k = m
  <1>1. /\ request' \in Seq(AnyRequest) /\ DOMAIN request' = DOMAIN request
        /\ request'[n] = r
        /\ \A m \in DOMAIN request : m # n => request'[m] = request[m]
    BY OneRequest DEF ImportInv
  <1>2. NoneLeft' => NoneLeft
    BY <1>1 DEF NoneLeft, Run
  <1>3. ReportIsOfItsCsv' => ReportOK'
    BY <1>1 DEF ImportInv, ReportOK
  <1>4. \A k, m \in DOMAIN request :
            Run(k)' /\ Run(m)' /\ request'[k].client = "waiting"
                    /\ request'[m].client = "waiting" => k = m
    BY <1>1 DEF ImportInv, OnceOK, Run
  <1>. QED  BY <1>1, <1>2, <1>3, <1>4

LEMMA RequestFacts ==
    ASSUME ImportTypes, NEW n \in DOMAIN request
    PROVE  request[n] \in AnyRequest
  BY DEF ImportTypes

\* A row of a text without refused rows is one that the look-up has found or not.
LEMMA LookedUp ==
    ASSUME ImportTypes, NEW t \in AnyText, Refused(t) = {}
    PROVE  Held(t, Missing(t)) /\ Missing(t) \in SUBSET Row
           /\ \A x \in Missing(t) : table[x] = 0
  <1>1. RefusedLines(t) = {}
    BY DEF Refused
  <1>2. ASSUME NEW k \in DOMAIN t, t[k] \in Row
        PROVE  table[t[k]] > 0 \/ t[k] \in Missing(t)
    <2>1. k \in Records(t) \ RefusedLines(t)
      BY <1>1, <1>2, ImportAssumption DEF Records, Others
    <2>2. table[t[k]] = 0 => t[k] \in Missing(t)
      BY <1>2, <2>1 DEF Missing
    <2>3. table[t[k]] \in Nat
      BY <1>2 DEF ImportTypes
    <2>. QED  BY <2>2, <2>3
  <1>. QED  BY <1>2 DEF Held, Missing

LEMMA ValidateStep ==
    ASSUME ImportInv, NEW n \in DOMAIN request, Validate(n)
    PROVE  ImportInv'
  <1> DEFINE t == request[n].text
             r == IF request[n].kind = "run" /\ Refused(t) = {}
                  THEN [request[n] EXCEPT !.server = "checked", !.rows = Missing(t)]
                  ELSE [request[n] EXCEPT !.server = "ended", !.reply = Judged(t)]
  <1>1. request[n] \in AnyRequest /\ t \in AnyText
    BY RequestFacts DEF ImportInv, AnyRequest
  <1>2. /\ request' = [request EXCEPT ![n] = r] /\ request[n].server = "sent"
        /\ UNCHANGED <<csv, encoding, report, done, inputError, reading, edits, table>>
    BY DEF Validate, pageVars
  <1>3. /\ Judged(t) \in AnyReply /\ Judged(t).kind = "report" /\ Judged(t).report.text = t
    BY <1>1, ReportFacts
  <1>4. /\ r \in AnyRequest /\ r.kind = request[n].kind /\ r.text = t
        /\ r.client = request[n].client /\ r.alone = request[n].alone
        /\ \/ /\ r.server = "checked" /\ r.rows = Missing(t) /\ r.reply = request[n].reply
              /\ r.kind = "run" /\ Refused(t) = {}
           \/ r.server = "ended" /\ r.reply = Judged(t)
    <2>1. CASE request[n].kind = "run" /\ Refused(t) = {}
      <3>1. r = [request[n] EXCEPT !.server = "checked", !.rows = Missing(t)]
        BY <2>1
      <3>2. Missing(t) \in SUBSET Row
        BY DEF Missing
      <3>. QED  BY <1>1, <2>1, <3>1, <3>2 DEF AnyRequest
    <2>2. CASE ~ (request[n].kind = "run" /\ Refused(t) = {})
      <3>1. r = [request[n] EXCEPT !.server = "ended", !.reply = Judged(t)]
        BY <2>2
      <3>. QED  BY <1>1, <1>3, <3>1 DEF AnyRequest
    <2>. QED  BY <2>1, <2>2
  <1> HIDE DEF r
  <1>5. r.reply.kind = "report" => r.reply.report.text = r.text
    BY <1>3, <1>4 DEF ImportInv, ReportOK
  <1>6. /\ request' \in Seq(AnyRequest) /\ DOMAIN request' = DOMAIN request
        /\ request'[n] = r
        /\ \A m \in DOMAIN request : m # n => request'[m] = request[m]
        /\ NoneLeft' => NoneLeft
        /\ ReportIsOfItsCsv' => ReportOK'
        /\ \A k, m \in DOMAIN request :
                Run(k)' /\ Run(m)' /\ request'[k].client = "waiting"
                        /\ request'[m].client = "waiting" => k = m
    BY <1>2, <1>4, <1>5, AboutOne
  <1>7. ImportTypes'
    BY <1>2, <1>6 DEF ImportInv, ImportTypes
  <1>8. ReportOK'
    BY <1>2, <1>6 DEF ImportInv, ReportOK, ReportIsOfItsCsv, Shown
  <1>9. r.server = "checked" => Held(t, r.rows) /\ \A x \in r.rows : table[x] = 0
    BY <1>1, <1>4, LookedUp DEF ImportInv
  <1>10. StoredOK'
    <2>1. r.reply.kind = "inserted" => Held(t, {})
      BY <1>3, <1>4 DEF ImportInv, StoredOK
    <2>. QED  BY <1>2, <1>4, <1>6, <1>9, <2>1 DEF ImportInv, StoredOK, Held
  <1>11. OnceOK'
    <2>1. \A m \in DOMAIN request :
            /\ request'[m].server = "checked" => Run(m)'
            /\ AtServer(m)' => request'[m].reply.kind = "none"
            /\ Run(m)' /\ request'[m].alone /\ AtServer(m)' => request'[m].client = "waiting"
      BY <1>2, <1>4, <1>6 DEF ImportInv, OnceOK, Run, AtServer
    <2>2. ASSUME NoneLeft' PROVE (/\ \A x \in Row : table[x] <= 1
                                  /\ \A m \in DOMAIN request : request[m].server = "checked" =>
                                         \A x \in request[m].rows : table[x] = 0)'
      BY <1>2, <1>6, <1>9, <2>2 DEF ImportInv, OnceOK
    <2>. QED  BY <1>6, <2>1, <2>2 DEF OnceOK
  <1>. QED  BY <1>7, <1>8, <1>10, <1>11 DEF ImportInv

LEMMA WriteStep ==
    ASSUME ImportInv, NEW n \in DOMAIN request, Write(n)
    PROVE  ImportInv'
  <1> DEFINE r == [request[n] EXCEPT !.server = "ended", !.reply = Inserted]
  <1>1. request[n] \in AnyRequest
    BY RequestFacts DEF ImportInv
  <1>2. /\ request' = [request EXCEPT ![n] = r] /\ request[n].server = "checked"
        /\ UNCHANGED <<csv, encoding, report, done, inputError, reading, edits>>
        /\ table' = [x \in Row |-> table[x] + IF x \in request[n].rows THEN 1 ELSE 0]
    BY <1>1 DEF Write, pageVars, ImportInv, ImportTypes
  <1>3. /\ r \in AnyRequest /\ r.kind = request[n].kind /\ r.text = request[n].text
        /\ r.client = request[n].client /\ r.alone = request[n].alone
        /\ r.server = "ended" /\ r.reply.kind = "inserted"
    BY <1>1, ReplyFacts DEF AnyRequest
  <1> HIDE DEF r
  <1>4. /\ request' \in Seq(AnyRequest) /\ DOMAIN request' = DOMAIN request
        /\ request'[n] = r
        /\ \A m \in DOMAIN request : m # n => request'[m] = request[m]
        /\ NoneLeft' => NoneLeft
        /\ ReportIsOfItsCsv' => ReportOK'
        /\ \A k, m \in DOMAIN request :
                Run(k)' /\ Run(m)' /\ request'[k].client = "waiting"
                        /\ request'[m].client = "waiting" => k = m
    BY <1>2, <1>3, AboutOne
  <1>5. /\ table' \in [Row -> Nat]
        /\ \A x \in Row : /\ table'[x] >= table[x] /\ table[x] \in Nat
                          /\ x \in request[n].rows => table'[x] = table[x] + 1
                          /\ x \notin request[n].rows => table'[x] = table[x]
    BY <1>2 DEF ImportInv, ImportTypes
  <1>6. ImportTypes'
    BY <1>2, <1>4, <1>5 DEF ImportInv, ImportTypes
  <1>7. ReportOK'
    BY <1>2, <1>4 DEF ImportInv, ReportOK, ReportIsOfItsCsv, Shown
  <1>8. StoredOK'
    <2>1. Held(request[n].text, {})'
      <3>1. Held(request[n].text, request[n].rows)
        BY <1>2 DEF ImportInv, StoredOK
      <3>2. request'[n].text = request[n].text
        BY <1>3, <1>4
      <3>. QED  BY <1>5, <3>1, <3>2 DEF Held
    <2>2. \A m \in DOMAIN request : m # n =>
            /\ request'[m].server = "checked" => Held(request[m].text, request[m].rows)'
            /\ request'[m].reply.kind = "inserted" => Held(request[m].text, {})'
      BY <1>4, <1>5 DEF ImportInv, StoredOK, Held
    <2>3. Held(done, {})'
      BY <1>2, <1>5 DEF ImportInv, StoredOK, Held
    <2>. QED  BY <1>3, <1>4, <2>1, <2>2, <2>3 DEF StoredOK
  <1>9. OnceOK'
    <2>1. \A m \in DOMAIN request :
            /\ request'[m].server = "checked" => Run(m)'
            /\ AtServer(m)' => request'[m].reply.kind = "none"
            /\ Run(m)' /\ request'[m].alone /\ AtServer(m)' => request'[m].client = "waiting"
      BY <1>3, <1>4 DEF ImportInv, OnceOK, Run, AtServer
    <2>2. ASSUME NoneLeft'
          PROVE  (/\ \A x \in Row : table[x] <= 1
                  /\ \A m \in DOMAIN request : request[m].server = "checked" =>
                         \A x \in request[m].rows : table[x] = 0)'
      <3>1. NoneLeft
        BY <1>4, <2>2
      <3>2. (\A x \in request[n].rows : table[x] = 0) /\ \A x \in Row : table[x] <= 1
        BY <1>2, <3>1 DEF ImportInv, OnceOK
      <3>3. \A x \in Row : table'[x] <= 1
        BY <1>5, <3>2
      <3>4. \A m \in DOMAIN request : m # n => request[m].server # "checked"
        BY <1>2, <3>1 DEF ImportInv, OnceOK, NoneLeft, AtServer
      <3>. QED  BY <1>3, <1>4, <3>3, <3>4
    <2>. QED  BY <1>4, <2>1, <2>2 DEF OnceOK
  <1>. QED  BY <1>6, <1>7, <1>8, <1>9 DEF ImportInv

LEMMA RollbackStep ==
    ASSUME ImportInv, NEW n \in DOMAIN request, Rollback(n)
    PROVE  ImportInv'
  <1> DEFINE r == [request[n] EXCEPT !.server = "ended", !.reply = Failure]
  <1>1. request[n] \in AnyRequest
    BY RequestFacts DEF ImportInv
  <1>2. /\ request' = [request EXCEPT ![n] = r]
        /\ UNCHANGED <<csv, encoding, report, done, inputError, reading, edits, table>>
    BY <1>1 DEF Rollback, pageVars, ImportInv, ImportTypes
  <1>3. /\ r \in AnyRequest /\ r.kind = request[n].kind /\ r.text = request[n].text
        /\ r.client = request[n].client /\ r.alone = request[n].alone
        /\ r.server = "ended" /\ r.reply.kind = "failure"
    BY <1>1, ReplyFacts DEF AnyRequest
  <1> HIDE DEF r
  <1>4. /\ request' \in Seq(AnyRequest) /\ DOMAIN request' = DOMAIN request
        /\ request'[n] = r
        /\ \A m \in DOMAIN request : m # n => request'[m] = request[m]
        /\ NoneLeft' => NoneLeft
        /\ ReportIsOfItsCsv' => ReportOK'
        /\ \A k, m \in DOMAIN request :
                Run(k)' /\ Run(m)' /\ request'[k].client = "waiting"
                        /\ request'[m].client = "waiting" => k = m
    BY <1>2, <1>3, AboutOne
  <1>5. ImportTypes'
    BY <1>2, <1>4 DEF ImportInv, ImportTypes
  <1>6. ReportOK'
    BY <1>2, <1>4 DEF ImportInv, ReportOK, ReportIsOfItsCsv, Shown
  <1>7. StoredOK'
    BY <1>2, <1>3, <1>4 DEF ImportInv, StoredOK, Held
  <1>8. OnceOK'
    BY <1>2, <1>3, <1>4 DEF ImportInv, OnceOK, Run, AtServer
  <1>. QED  BY <1>5, <1>6, <1>7, <1>8 DEF ImportInv

\* The page is told, or the connection is gone.
LEMMA AnswerStep ==
    ASSUME ImportInv, NEW n \in DOMAIN request, Answer(n) \/ Lose(n)
    PROVE  ImportInv'
  <1>1. request[n] \in AnyRequest
    BY RequestFacts DEF ImportInv
  <1>2. PICK r \in AnyRequest :
            /\ request' = [request EXCEPT ![n] = r]
            /\ Same(r, request[n]) /\ r.client \in {"failed", "told"}
            /\ r.alone => request[n].alone
            /\ r.server # "ended" => ~ r.alone
    <2>1. CASE Answer(n)
      <3> DEFINE r == [request[n] EXCEPT !.client =
                           IF Outcome(n) = "failure" /\ @ = "waiting" THEN "failed" ELSE "told"]
      <3>1. request' = [request EXCEPT ![n] = r]
        BY <1>1, <2>1 DEF Answer, ImportInv, ImportTypes
      <3>2. r \in AnyRequest /\ Same(r, request[n]) /\ r.client \in {"failed", "told"}
            /\ r.alone = request[n].alone
        BY <1>1 DEF AnyRequest, Same
      <3>3. request[n].server = "ended"
        BY <2>1 DEF Answer, Outcome, ImportInv, OnceOK, AtServer
      <3> HIDE DEF r
      <3>4. r.server = "ended"
        BY <3>2, <3>3 DEF Same
      <3>5. r.alone => request[n].alone
        BY <3>2
      <3>. QED  BY <3>1, <3>2, <3>4, <3>5
    <2>2. CASE Lose(n)
      <3> DEFINE r == [request[n] EXCEPT !.client = IF @ = "waiting" THEN "failed" ELSE "told",
                                         !.alone = @ /\ ~ AtServer(n)]
      <3>1. request' = [request EXCEPT ![n] = r]
        BY <1>1, <2>2 DEF Lose, ImportInv, ImportTypes
      <3>2. /\ r \in AnyRequest /\ Same(r, request[n]) /\ r.client \in {"failed", "told"}
            /\ r.alone <=> (request[n].alone /\ ~ AtServer(n))
        BY <1>1 DEF AnyRequest, Same, AtServer
      <3> HIDE DEF r
      <3>3. r.server # "ended" => ~ r.alone
        BY <3>2 DEF Same, AtServer
      <3>4. r.alone => request[n].alone
        BY <3>2
      <3>. QED  BY <3>1, <3>2, <3>3, <3>4
    <2>. QED  BY <2>1, <2>2
  <1>3. /\ UNCHANGED <<csv, encoding, inputError, reading, table, edits>>
        /\ \/ UNCHANGED <<report, done>>
           \/ /\ request[n].reply.kind = "report" /\ report' = Late(n) /\ UNCHANGED done
           \/ /\ request[n].reply.kind = "inserted" /\ done' = request[n].text
              /\ report' = NoReport
    BY DEF Answer, Lose, Outcome, pageVars
  <1>4. r.reply.kind = "report" => r.reply.report.text = r.text
    BY <1>2 DEF ImportInv, ReportOK, Same
  <1>5. /\ request' \in Seq(AnyRequest) /\ DOMAIN request' = DOMAIN request
        /\ request'[n] = r
        /\ \A m \in DOMAIN request : m # n => request'[m] = request[m]
        /\ NoneLeft' => NoneLeft
        /\ ReportIsOfItsCsv' => ReportOK'
        /\ \A k, m \in DOMAIN request :
                Run(k)' /\ Run(m)' /\ request'[k].client = "waiting"
                        /\ request'[m].client = "waiting" => k = m
    BY <1>2, <1>3, <1>4, AboutOne DEF Same
  <1>6. /\ Late(n) \in AnyReport
        /\ Late(n).text = request[n].reply.report.text
        /\ Late(n).late = (request[n].client = "detached")
    BY <1>1 DEF Late, AnyRequest, AnyReply, AnyReport
  <1>7. ImportTypes'
    BY <1>1, <1>3, <1>5, <1>6, TextFacts, ReportFacts DEF ImportInv, ImportTypes, AnyRequest
  <1>8. ReportOK'
    <2>1. Answer(n) \/ Lose(n) => request[n].client \in {"waiting", "detached"}
      BY DEF Answer, Lose, Awaited
    <2>2. request[n].client = "waiting" => request[n].text = csv
      BY DEF ImportInv, ReportOK
    <2>3. request[n].reply.kind = "report" => request[n].reply.report.text = request[n].text
      BY DEF ImportInv, ReportOK
    <2>4. ReportIsOfItsCsv'
      BY <1>3, <1>6, <2>1, <2>2, <2>3 DEF ImportInv, ReportOK, ReportIsOfItsCsv, Shown
    <2>. QED  BY <1>5, <2>4
  <1>9. StoredOK'
    <2>1. Held(done, {})'
      BY <1>3 DEF ImportInv, StoredOK, Held
    <2>. QED  BY <1>2, <1>3, <1>5, <2>1 DEF ImportInv, StoredOK, Held, Same
  <1>10. OnceOK'
    <2>1. \A m \in DOMAIN request :
            /\ request'[m].server = "checked" => Run(m)'
            /\ AtServer(m)' => request'[m].reply.kind = "none"
            /\ Run(m)' /\ request'[m].alone /\ AtServer(m)' => request'[m].client = "waiting"
      BY <1>2, <1>5 DEF ImportInv, OnceOK, Run, AtServer, Same
    <2>2. ASSUME NoneLeft' PROVE (/\ \A x \in Row : table[x] <= 1
                                  /\ \A m \in DOMAIN request : request[m].server = "checked" =>
                                         \A x \in request[m].rows : table[x] = 0)'
      BY <1>2, <1>3, <1>5, <2>2 DEF ImportInv, OnceOK, Same
    <2>. QED  BY <1>5, <2>1, <2>2 DEF OnceOK
  <1>. QED  BY <1>7, <1>8, <1>9, <1>10 DEF ImportInv

LEMMA ImportInductive == ImportInv /\ [ImportNext]_importVars => ImportInv'
  <1> SUFFICES ASSUME ImportInv, [ImportNext]_importVars PROVE ImportInv'
    OBVIOUS
  <1>1. CASE UNCHANGED importVars
    BY <1>1, SameStep DEF importVars, ImportInv, ImportTypes
  <1>2. ASSUME NEW n \in DOMAIN request,
               Validate(n) \/ Write(n) \/ Answer(n) \/ Rollback(n) \/ Lose(n)
        PROVE  ImportInv'
    BY <1>2, ValidateStep, WriteStep, AnswerStep, RollbackStep
  <1>. QED  BY <1>1, <1>2, EditStep, SendStep DEF ImportNext, ImportAnswers

LEMMA ImportInvariant == ImportSpec => []ImportInv
  BY InitImport, ImportInductive, PTL DEF ImportSpec

-----------------------------------------------------------------------------
(* ImportPage: theorems.                                                   *)

\* The result that the page shows is about its text, unless it was under way when
\* setCsv put another one in: however files are read, texts typed and requests
\* answered, lost or left behind.
THEOREM ReportOfItsCsv == ImportSpec => []ReportIsOfItsCsv
  <1>1. ImportInv => ReportIsOfItsCsv
    BY DEF ImportInv, ReportOK
  <1>. QED  BY <1>1, ImportInvariant, PTL

\* What handleRun shows as imported is in the database, row by row: those that
\* the import wrote and those that validate_csv found there.
THEOREM DoneInDatabase == ImportSpec => []DoneIsStored
  <1>1. ImportInv => DoneIsStored
    BY DEF ImportInv, StoredOK, Held, DoneIsStored
  <1>. QED  BY <1>1, ImportInvariant, PTL

\* While the page has left no import behind at the API, no row gets in twice: one
\* import at a time is then enough, although nothing in the database forbids it.
THEOREM NoRowTwice == ImportSpec => []RowsOnce
  <1>1. ASSUME ImportInv PROVE RowsOnce
    <2>1. \A x \in Row : table[x] \in Nat
      BY <1>1 DEF ImportInv, ImportTypes
    <2>2. NoneLeft => \A x \in Row : table[x] <= 1
      BY <1>1 DEF ImportInv, OnceOK
    <2>. QED  BY <2>1, <2>2 DEF RowsOnce, NoneLeft, Run
  <1>2. ImportInv => RowsOnce
    BY <1>1
  <1>. QED  BY <1>2, ImportInvariant, PTL
-----------------------------------------------------------------------------
(* ImportPage: types.                                                      *)

PageText == Texts \cup {<< >>, Garbled}

\* The numbers of a report fit its text, and the rows that there are.
ReportFits(r) ==
    r.errors \subseteq 1 .. Cardinality(Records(r.text)) /\ r.insert \in 0 .. Cardinality(Row)

PageBounded ==
    /\ csv \in PageText /\ done \in PageText /\ inputError \in BOOLEAN
    /\ ReportFits(report)
    /\ edits \in 0 .. MaxEdits

\* The requests that the API is done with.  Each of them has stored a row once at most.
Finished == {n \in DOMAIN request : request[n].server = "ended"}

Texted(n) == request[n].text \in PageText /\ ReportFits(request[n].reply.report)

RequestsBounded ==
    /\ Len(request) <= MaxRequests
    /\ \A n \in DOMAIN request : Texted(n)
    /\ \A x \in Row : table[x] <= Cardinality(Finished)

ImportBounded == PageBounded /\ RequestsBounded

LEMMA PageTexts == PageText \subseteq AnyText
  BY ImportAssumption, TextFacts DEF PageText, AnyText

\* A number of a row is that of one of the rows of the text.
LEMMA NumbersFit ==
    ASSUME NEW t \in AnyText
    PROVE  Refused(t) \subseteq 1 .. Cardinality(Records(t))
  <1>1. IsFiniteSet(Records(t)) /\ Cardinality(Records(t)) \in Nat
    <2>1. Records(t) \subseteq 1 .. Len(t) /\ Len(t) \in Nat
      BY DEF Records, AnyText
    <2>2. IsFiniteSet(1 .. Len(t))
      BY <2>1, FS_Interval
    <2>. QED  BY <2>1, <2>2, FS_Subset, FS_CardinalityType
  <1>2. ASSUME NEW k \in Records(t) PROVE RowNumber(t, k) \in 1 .. Cardinality(Records(t))
    <2> DEFINE before == {m \in Records(t) : m <= k}
    <2>1. k \in before /\ before \subseteq Records(t)
      BY TextFacts DEF Records
    <2>2. IsFiniteSet(before) /\ Cardinality(before) <= Cardinality(Records(t))
      BY <1>1, <2>1, FS_Subset
    <2>3. Cardinality(before) \in Nat /\ Cardinality(before) # 0
      BY <2>1, <2>2, FS_CardinalityType, FS_EmptySet
    <2>. QED  BY <1>1, <2>2, <2>3 DEF RowNumber
  <1>. QED  BY <1>2 DEF Refused, RefusedLines

LEMMA FitsFacts ==
    /\ ReportFits(NoReport)
    /\ ReportFits(NoReply.report) /\ ReportFits(Failure.report) /\ ReportFits(Inserted.report)
    /\ \A t \in AnyText : ReportFits(Judged(t).report)
  <1>1. Cardinality(Row) \in Nat
    BY ImportBounds, FS_CardinalityType
  <1>2. ReportFits(NoReport)
    BY <1>1 DEF ReportFits, NoReport
  <1>3. ASSUME NEW t \in AnyText PROVE ReportFits(Judged(t).report)
    <2>1. Cardinality(Missing(t)) \in 0 .. Cardinality(Row)
      <3>1. Missing(t) \subseteq Row
        BY DEF Missing
      <3>. QED  BY <1>1, <3>1, ImportBounds, FS_Subset, FS_CardinalityType
    <2>. QED  BY <2>1, NumbersFit DEF ReportFits, Report, Judged
  <1>. QED  BY <1>2, <1>3 DEF NoReply, Failure, Inserted

LEMMA FinishedFacts ==
    ASSUME ImportTypes
    PROVE  /\ IsFiniteSet(Finished)
           /\ Cardinality(Finished) \in Nat /\ Cardinality(Finished) <= Len(request)
  <1>1. Finished \subseteq 1 .. Len(request) /\ Len(request) \in Nat
    BY DEF Finished, ImportTypes
  <1>2. IsFiniteSet(1 .. Len(request)) /\ Cardinality(1 .. Len(request)) = Len(request)
    BY <1>1, FS_Interval
  <1>. QED  BY <1>1, <1>2, FS_Subset, FS_CardinalityType

\* What the API is done with stays done; a table that nobody writes stays bounded.
LEMMA RequestsGrow ==
    ASSUME ImportTypes, ImportTypes', RequestsBounded, UNCHANGED table,
           Len(request') <= MaxRequests, \A n \in DOMAIN request' : Texted(n)',
           \A n \in DOMAIN request :
               /\ n \in DOMAIN request'
               /\ request[n].server = "ended" => request'[n].server = "ended"
    PROVE  RequestsBounded'
  <1>1. Finished \subseteq Finished'
    BY DEF Finished
  <1>2. IsFiniteSet(Finished)'
    BY FinishedFacts, PTL
  <1>3. Cardinality(Finished) <= Cardinality(Finished')
    BY <1>1, <1>2, FS_Subset
  <1>4. \A x \in Row : table[x] \in Nat /\ table[x] <= Cardinality(Finished)
    BY DEF ImportTypes, RequestsBounded
  <1>5. Cardinality(Finished) \in Nat
    BY FinishedFacts
  <1>6. (Cardinality(Finished) \in Nat)'
    BY FinishedFacts, PTL
  <1>7. \A x \in Row : table'[x] <= Cardinality(Finished')
    BY <1>3, <1>4, <1>5, <1>6
  <1>. QED  BY <1>7 DEF RequestsBounded

\* A new text, or the page left.
LEMMA ClearedBounded ==
    ASSUME ImportInv, ImportInv', RequestsBounded, NEW how \in {"detached", "gone"},
           request' = Detach(request, how), UNCHANGED table
    PROVE  RequestsBounded'
  <1>1. DOMAIN request' = DOMAIN request /\ \A n \in DOMAIN request : Same(request'[n], request[n])
    BY DetachFacts DEF ImportInv
  <1>2. request \in Seq(AnyRequest) /\ request' \in Seq(AnyRequest)
    BY DEF ImportInv, ImportTypes
  <1>3. Len(request') = Len(request)
    BY <1>1, <1>2
  <1>4. /\ Len(request') <= MaxRequests
        /\ \A n \in DOMAIN request' : Texted(n)'
        /\ \A n \in DOMAIN request : request'[n].server = request[n].server
    BY <1>1, <1>3 DEF RequestsBounded, Texted, Same
  <1>. QED  BY <1>1, <1>4, RequestsGrow DEF ImportInv

LEMMA EditBounded ==
    ASSUME ImportInv, ImportInv', ImportBounded,
           \/ \E t \in Texts \cup {<< >>} : TypeText(t)
           \/ \E e \in Encoding : ChooseEncoding(e)
           \/ \E f \in Files : ChooseFile(f)
           \/ \E x \in reading : FileRead(x) \/ FileFails(x)
           \/ LeavePage
    PROVE  ImportBounded'
  <1>1. edits' \in 0 .. MaxEdits
    <2>1. edits' = edits \/ Edit
      BY DEF TypeText, ChooseEncoding, ChooseFile, FileRead, FileFails, LeavePage
    <2>. QED  BY <2>1, ImportBounds DEF Edit, ImportBounded, PageBounded
  <1>2. inputError' \in BOOLEAN
    BY DEF TypeText, ChooseEncoding, ChooseFile, FileRead, FileFails, LeavePage, ImportBounded,
           PageBounded
  <1>3. /\ UNCHANGED table
        /\ \/ UNCHANGED <<csv, report, done, request>>
           \/ \E t \in PageText : SetCsv(t)
           \/ /\ csv' = << >> /\ report' = NoReport /\ done' = << >>
              /\ request' = Detach(request, "gone")
    <2>1. \A x \in reading : Decode(x[1], x[2]) \in PageText
      BY DEF ImportInv, ImportTypes, Files, Decode, PageText
    <2>. QED  BY <2>1 DEF TypeText, ChooseEncoding, ChooseFile, FileRead, FileFails, LeavePage,
                        PageText
  <1>4. PageBounded'
    BY <1>1, <1>2, <1>3, FitsFacts DEF ImportBounded, PageBounded, SetCsv, PageText
  <1>5. RequestsBounded'
    <2>1. CASE UNCHANGED <<csv, report, done, request>>
      BY <1>3, <2>1 DEF ImportBounded, RequestsBounded, Texted, Finished
    <2>2. CASE request' = Detach(request, "detached") \/ request' = Detach(request, "gone")
      BY <1>3, <2>2, ClearedBounded DEF ImportBounded
    <2>. QED  BY <1>3, <2>1, <2>2 DEF SetCsv
  <1>. QED  BY <1>4, <1>5 DEF ImportBounded

LEMMA SendBounded ==
    ASSUME ImportInv, ImportInv', ImportBounded, HandleDryRun \/ HandleRun
    PROVE  ImportBounded'
  <1>1. PICK kind \in {"dry", "run"} : Send(kind)
    BY DEF HandleDryRun, HandleRun
  <1>2. PageBounded'
    BY <1>1 DEF Send, ImportBounded, PageBounded
  <1> DEFINE end == Len(request) + 1
  <1>3. /\ DOMAIN request' = DOMAIN request \cup {end}
        /\ \A n \in DOMAIN request : Same(request'[n], request[n])
        /\ request'[end].text = csv /\ request'[end].reply = NoReply
    BY <1>1, SendFacts DEF ImportInv, Same
  <1>4. Len(request') <= MaxRequests
    <2>1. Len(request) \in Nat /\ Len(request) < MaxRequests
      BY <1>1 DEF Send, ImportInv, ImportTypes
    <2>2. request' \in Seq(AnyRequest) /\ request \in Seq(AnyRequest)
      BY DEF ImportInv, ImportTypes
    <2>3. end \in DOMAIN request' /\ end + 1 \notin DOMAIN request'
      BY <1>3, <2>1, <2>2
    <2>4. Len(request') = end
      BY <2>1, <2>2, <2>3
    <2>. QED  BY <2>1, <2>4, ImportBounds
  <1>5. \A n \in DOMAIN request' : Texted(n)'
    BY <1>3, FitsFacts DEF ImportBounded, PageBounded, RequestsBounded, Texted, Same
  <1>6. UNCHANGED table
    BY <1>1 DEF Send
  <1>7. RequestsBounded'
    BY <1>3, <1>4, <1>5, <1>6, RequestsGrow DEF ImportInv, ImportBounded, Same
  <1>. QED  BY <1>2, <1>7 DEF ImportBounded

\* A step about one request, which stays within its bounds and does not store.
LEMMA OneBounded ==
    ASSUME ImportInv, ImportInv', RequestsBounded, NEW n \in DOMAIN request, NEW r \in AnyRequest,
           request' = [request EXCEPT ![n] = r], UNCHANGED table,
           r.text = request[n].text, ReportFits(r.reply.report),
           request[n].server = "ended" => r.server = "ended"
    PROVE  RequestsBounded'
  <1>1. /\ DOMAIN request' = DOMAIN request /\ request'[n] = r
        /\ \A m \in DOMAIN request : m # n => request'[m] = request[m]
    BY OneRequest DEF ImportInv
  <1>2. Len(request') = Len(request)
    BY <1>1 DEF ImportInv, ImportTypes
  <1>3. \A m \in DOMAIN request' : Texted(m)'
    BY <1>1 DEF RequestsBounded, Texted
  <1>4. Len(request') <= MaxRequests
    BY <1>2 DEF RequestsBounded
  <1>. QED  BY <1>1, <1>3, <1>4, RequestsGrow DEF ImportInv

LEMMA ValidateBounded ==
    ASSUME ImportInv, ImportInv', ImportBounded, NEW n \in DOMAIN request, Validate(n)
    PROVE  ImportBounded'
  <1> DEFINE t == request[n].text
             r == IF request[n].kind = "run" /\ Refused(t) = {}
                  THEN [request[n] EXCEPT !.server = "checked", !.rows = Missing(t)]
                  ELSE [request[n] EXCEPT !.server = "ended", !.reply = Judged(t)]
  <1>1. request[n] \in AnyRequest /\ t \in AnyText
    BY RequestFacts DEF ImportInv, AnyRequest
  <1>2. /\ request' = [request EXCEPT ![n] = r] /\ request[n].server = "sent"
        /\ UNCHANGED <<csv, report, done, inputError, edits, table>>
    BY DEF Validate, pageVars
  <1>3. Judged(t) \in AnyReply /\ ReportFits(Judged(t).report)
    BY <1>1, ReportFacts, FitsFacts
  <1>4. r \in AnyRequest /\ r.text = t /\ ReportFits(r.reply.report)
    <2>1. CASE request[n].kind = "run" /\ Refused(t) = {}
      <3>1. r = [request[n] EXCEPT !.server = "checked", !.rows = Missing(t)]
        BY <2>1
      <3>2. Missing(t) \in SUBSET Row /\ ReportFits(request[n].reply.report)
        BY DEF Missing, ImportBounded, RequestsBounded, Texted
      <3>. QED  BY <1>1, <3>1, <3>2 DEF AnyRequest
    <2>2. CASE ~ (request[n].kind = "run" /\ Refused(t) = {})
      <3>1. r = [request[n] EXCEPT !.server = "ended", !.reply = Judged(t)]
        BY <2>2
      <3>. QED  BY <1>1, <1>3, <3>1 DEF AnyRequest
    <2>. QED  BY <2>1, <2>2
  <1> HIDE DEF r
  <1>5. RequestsBounded'
    BY <1>2, <1>4, OneBounded DEF ImportBounded
  <1>6. PageBounded'
    BY <1>2 DEF ImportBounded, PageBounded
  <1>. QED  BY <1>5, <1>6 DEF ImportBounded

\* The one step that stores: a row once more, and one more import is done.
LEMMA WriteBounded ==
    ASSUME ImportInv, ImportInv', ImportBounded, NEW n \in DOMAIN request, Write(n)
    PROVE  ImportBounded'
  <1> DEFINE r == [request[n] EXCEPT !.server = "ended", !.reply = Inserted]
  <1>1. request[n] \in AnyRequest
    BY RequestFacts DEF ImportInv
  <1>2. /\ request' = [request EXCEPT ![n] = r] /\ request[n].server = "checked"
        /\ UNCHANGED <<csv, report, done, inputError, edits>>
        /\ table' = [x \in Row |-> table[x] + IF x \in request[n].rows THEN 1 ELSE 0]
    BY <1>1 DEF Write, pageVars, ImportInv, ImportTypes
  <1>3. /\ r \in AnyRequest /\ r.text = request[n].text
        /\ r.server = "ended" /\ r.reply = Inserted
    BY <1>1, ReplyFacts DEF AnyRequest
  <1> HIDE DEF r
  <1>4. /\ DOMAIN request' = DOMAIN request /\ request'[n] = r
        /\ \A m \in DOMAIN request : m # n => request'[m] = request[m]
    BY <1>2, <1>3, OneRequest DEF ImportInv
  <1>5. Len(request') = Len(request)
    BY <1>4 DEF ImportInv, ImportTypes
  <1>6. \A m \in DOMAIN request' : Texted(m)'
    BY <1>3, <1>4, FitsFacts DEF ImportBounded, RequestsBounded, Texted
  <1>7. Finished' = Finished \cup {n} /\ n \notin Finished
    BY <1>2, <1>3, <1>4 DEF Finished
  <1>8. Cardinality(Finished') = Cardinality(Finished) + 1 /\ Cardinality(Finished) \in Nat
    BY <1>7, FinishedFacts, FS_AddElement DEF ImportInv
  <1>9. \A x \in Row : table'[x] <= Cardinality(Finished')
    <2>1. \A x \in Row : table[x] \in Nat /\ table[x] <= Cardinality(Finished)
      BY DEF ImportInv, ImportTypes, ImportBounded, RequestsBounded
    <2>2. \A x \in Row : table'[x] = table[x] \/ table'[x] = table[x] + 1
      BY <1>2, <2>1
    <2>. QED  BY <1>8, <2>1, <2>2
  <1>10. RequestsBounded'
    BY <1>5, <1>6, <1>9 DEF ImportBounded, RequestsBounded
  <1>11. PageBounded'
    BY <1>2 DEF ImportBounded, PageBounded
  <1>. QED  BY <1>10, <1>11 DEF ImportBounded

LEMMA RollbackBounded ==
    ASSUME ImportInv, ImportInv', ImportBounded, NEW n \in DOMAIN request, Rollback(n)
    PROVE  ImportBounded'
  <1> DEFINE r == [request[n] EXCEPT !.server = "ended", !.reply = Failure]
  <1>1. request[n] \in AnyRequest
    BY RequestFacts DEF ImportInv
  <1>2. /\ request' = [request EXCEPT ![n] = r]
        /\ UNCHANGED <<csv, report, done, inputError, edits, table>>
    BY <1>1 DEF Rollback, pageVars, ImportInv, ImportTypes
  <1>3. /\ r \in AnyRequest /\ r.text = request[n].text
        /\ r.server = "ended" /\ r.reply = Failure
    BY <1>1, ReplyFacts DEF AnyRequest
  <1> HIDE DEF r
  <1>4. RequestsBounded'
    BY <1>2, <1>3, FitsFacts, OneBounded DEF ImportBounded
  <1>5. PageBounded'
    BY <1>2 DEF ImportBounded, PageBounded
  <1>. QED  BY <1>4, <1>5 DEF ImportBounded

LEMMA AnswerBounded ==
    ASSUME ImportInv, ImportInv', ImportBounded, NEW n \in DOMAIN request, Answer(n) \/ Lose(n)
    PROVE  ImportBounded'
  <1>1. request[n] \in AnyRequest /\ Texted(n)
    BY RequestFacts DEF ImportInv, ImportBounded, RequestsBounded
  <1>2. PICK r \in AnyRequest : request' = [request EXCEPT ![n] = r] /\ Same(r, request[n])
    <2>1. CASE Answer(n)
      <3> DEFINE r == [request[n] EXCEPT !.client =
                           IF Outcome(n) = "failure" /\ @ = "waiting" THEN "failed" ELSE "told"]
      <3>1. request' = [request EXCEPT ![n] = r]
        BY <1>1, <2>1 DEF Answer, ImportInv, ImportTypes
      <3>2. r \in AnyRequest /\ Same(r, request[n])
        BY <1>1 DEF AnyRequest, Same
      <3>. QED  BY <3>1, <3>2
    <2>2. CASE Lose(n)
      <3> DEFINE r == [request[n] EXCEPT !.client = IF @ = "waiting" THEN "failed" ELSE "told",
                                         !.alone = @ /\ ~ AtServer(n)]
      <3>1. request' = [request EXCEPT ![n] = r]
        BY <1>1, <2>2 DEF Lose, ImportInv, ImportTypes
      <3>2. r \in AnyRequest /\ Same(r, request[n])
        BY <1>1 DEF AnyRequest, Same, AtServer
      <3>. QED  BY <3>1, <3>2
    <2>. QED  BY <2>1, <2>2
  <1>3. /\ UNCHANGED <<csv, inputError, table, edits>>
        /\ \/ UNCHANGED <<report, done>>
           \/ report' = Late(n) /\ UNCHANGED done
           \/ done' = request[n].text /\ report' = NoReport
    BY DEF Answer, Lose, Outcome, pageVars
  <1>4. RequestsBounded'
    BY <1>1, <1>2, <1>3, OneBounded DEF ImportBounded, Texted, Same
  <1>5. ReportFits(Late(n))
    BY <1>1 DEF Late, Texted, ReportFits, AnyRequest, AnyReply, AnyReport
  <1>6. PageBounded'
    BY <1>1, <1>3, <1>5, FitsFacts DEF ImportBounded, PageBounded, Texted
  <1>. QED  BY <1>4, <1>6 DEF ImportBounded

LEMMA BoundedInductive ==
    ImportInv /\ ImportInv' /\ ImportBounded /\ [ImportNext]_importVars => ImportBounded'
  <1> SUFFICES ASSUME ImportInv, ImportInv', ImportBounded, [ImportNext]_importVars
               PROVE  ImportBounded'
    OBVIOUS
  <1>1. CASE UNCHANGED importVars
    BY <1>1 DEF importVars, ImportBounded, PageBounded, RequestsBounded, Texted, Finished
  <1>2. ASSUME NEW n \in DOMAIN request,
               Validate(n) \/ Write(n) \/ Answer(n) \/ Rollback(n) \/ Lose(n)
        PROVE  ImportBounded'
    BY <1>2, ValidateBounded, WriteBounded, AnswerBounded, RollbackBounded
  <1>. QED  BY <1>1, <1>2, EditBounded, SendBounded DEF ImportNext, ImportAnswers

\* What the page keeps has its types.  The rows that validate_csv refuses are rows
\* of the text that the result is about, it never counts more rows to insert than
\* there are, and no row is stored more often than imports were sent.
THEOREM ImportTypeCorrect == ImportSpec => []ImportTypeOK
  <1>1. ImportInit => ImportBounded
    <2> SUFFICES ASSUME ImportInit PROVE ImportBounded
      OBVIOUS
    <2>1. PageBounded
      <3>1. 0 \in 0 .. MaxEdits /\ << >> \in PageText
        BY ImportBounds DEF PageText
      <3>2. ReportFits(NoReport)
        BY FitsFacts
      <3>. QED  BY <3>1, <3>2 DEF ImportInit, PageBounded
    <2>2. ImportTypes /\ DOMAIN request = {} /\ Len(request) = 0 /\ \A x \in Row : table[x] = 0
      <3>1. ImportTypes
        BY InitImport DEF ImportInv
      <3>2. request = << >> /\ table = [x \in Row |-> 0]
        BY DEF ImportInit
      <3>. QED  BY <3>1, <3>2
    <2>3. \A x \in Row : table[x] <= Cardinality(Finished)
      <3>1. Cardinality(Finished) \in Nat
        BY <2>2, FinishedFacts
      <3>2. \A c \in Nat : 0 <= c
        OBVIOUS
      <3>. QED  BY <2>2, <3>1, <3>2
    <2>4. Len(request) <= MaxRequests
      BY <2>2, ImportBounds
    <2>. QED  BY <2>1, <2>2, <2>3, <2>4 DEF ImportBounded, RequestsBounded
  <1>2. ASSUME ImportInv, ImportBounded PROVE ImportTypeOK
    <2>1. table \in [Row -> 0 .. MaxRequests]
      <3>1. Cardinality(Finished) <= MaxRequests /\ Cardinality(Finished) \in Nat
        <4>1. Len(request) \in Nat /\ Len(request) <= MaxRequests
          BY <1>2 DEF ImportInv, ImportTypes, ImportBounded, RequestsBounded
        <4>2. Cardinality(Finished) \in Nat /\ Cardinality(Finished) <= Len(request)
          BY <1>2, FinishedFacts DEF ImportInv
        <4>. QED  BY <4>1, <4>2, ImportBounds
      <3>2. table \in [Row -> Nat] /\ \A x \in Row : table[x] <= Cardinality(Finished)
        BY <1>2 DEF ImportInv, ImportTypes, ImportBounded, RequestsBounded
      <3>3. \A x \in Row : table[x] \in 0 .. MaxRequests
        BY <3>1, <3>2, ImportBounds
      <3>. QED  BY <3>2, <3>3
    <2>2. \A n \in DOMAIN request :
            /\ request[n].kind \in {"dry", "run"} /\ request[n].rows \subseteq Row
            /\ request[n].server \in {"sent", "checked", "ended"}
            /\ request[n].client \in {"waiting", "failed", "detached", "gone", "told"}
      BY <1>2, RequestFacts DEF ImportInv, AnyRequest
    <2>3. encoding \in Encoding /\ reading \subseteq Files \X Encoding
      BY <1>2 DEF ImportInv, ImportTypes
    <2>. QED  BY <1>2, <2>1, <2>2, <2>3 DEF ImportBounded, PageBounded, ReportFits, PageText,
                                           ImportTypeOK
  <1>3. ImportInv /\ ImportBounded => ImportTypeOK
    BY <1>2
  <1>. QED
    BY <1>1, <1>3, BoundedInductive, ImportInvariant, PTL DEF ImportSpec

-----------------------------------------------------------------------------
(* Selections: the invariant.                                              *)

Searches == Query \cup {All}

\* A key and what is asked for under it, for some position of the controls.
Fitting == {<<QueryKey(c, text), Asks(c, text)>> : c \in Controls(view), text \in Searches}
Fits(key, of) == <<key, of>> \in Fitting

SelInv ==
    /\ view \in View
    /\ choice \in Controls(view) /\ search \in Searches
    /\ \A k \in DOMAIN answers : Fits(k, answers[k].of)
    /\ \A r \in asked : Fits(r.key, r.of)
    /\ Has(Here) \/ Here \in refused \/ \E r \in asked : r.key = Here
    /\ view # "assets" => timers = {}
    /\ \A t \in timers : t.text = choice.q /\ t.text \in Searches

\* Two positions of the controls with one key ask for the same.
LEMMA KeyDecides ==
    ASSUME view \in View, NEW c \in Controls(view), NEW d \in Controls(view),
           NEW s \in Searches, NEW t \in Searches, QueryKey(c, s) = QueryKey(d, t)
    PROVE  Asks(c, s) = Asks(d, t)
  <1>1. CASE view = "assets"
    BY <1>1 DEF QueryKey, AssetsKey, Asks
  <1>2. CASE view \in {"holdings", "transactions", "allocation"}
    BY <1>2 DEF QueryKey, HoldingsKey, TransactionsKey, AllocationKey, Asks
  <1>3. CASE view = "history"
    <2>1. HistoryKey(c) = HistoryKey(d) /\ c \in HistoryControls /\ d \in HistoryControls
      BY <1>3 DEF QueryKey, Controls
    <2>2. c.preset = d.preset /\ c.group = d.group
      BY <2>1 DEF HistoryKey
    <2>3. c = d
      BY <2>1, <2>2 DEF HistoryControls
    <2>. QED  BY <1>3, <2>3 DEF Asks
  <1>. QED  BY <1>1, <1>2, <1>3 DEF View

LEMMA HereFits ==
    ASSUME SelInv, NEW of, Fits(Here, of)
    PROVE  of = Current
  <1>1. PICK c \in Controls(view), text \in Searches :
            QueryKey(choice, search) = QueryKey(c, text) /\ of = Asks(c, text)
    BY DEF Fits, Fitting, Here
  <1>. QED  BY <1>1, KeyDecides DEF SelInv, Current

LEMMA FirstFits ==
    ASSUME view \in View
    PROVE  First(view) \in Controls(view) /\ All \in Searches
  BY DEF View, First, Controls, Searches, HoldingsControls, TransactionsControls, AssetsControls,
         HistoryControls, AllocationControls

LEMMA InitSelection == SelectionInit => SelInv
  <1> SUFFICES ASSUME SelectionInit PROVE SelInv
    OBVIOUS
  <1>1. First(view) \in Controls(view) /\ All \in Searches
    BY FirstFits DEF SelectionInit
  <1>2. \A r \in asked : r.key = QueryKey(First(view), All) /\ r.of = Asks(First(view), All)
    BY DEF SelectionInit
  <1>3. \A r \in asked : Fits(r.key, r.of)
    BY <1>1, <1>2 DEF Fits, Fitting
  <1>4. DOMAIN answers = {}
    BY DEF SelectionInit
  <1>5. \E r \in asked : r.key = Here
    <2>1. Here = QueryKey(First(view), All)
      BY DEF SelectionInit, Here
    <2>2. asked # {}
      BY DEF SelectionInit
    <2>. QED  BY <1>2, <2>1, <2>2
  <1>. QED  BY <1>1, <1>3, <1>4, <1>5 DEF SelectionInit, SelInv

LEMMA FitsStays == UNCHANGED view => Fitting' = Fitting
  BY DEF Fitting, Controls, QueryKey, Asks

\* To look at a key asks for it, unless it is there or under way.
LEMMA LookFacts ==
    ASSUME SelInv, NEW c \in Controls(view), NEW text \in Searches, Look(c, text),
           UNCHANGED <<view, answers>>
    PROVE  /\ (\A r \in asked : Fits(r.key, r.of))'
           /\ Has(QueryKey(c, text))' \/ \E r \in asked' : r.key = QueryKey(c, text)
  <1> DEFINE key == QueryKey(c, text)
             new == [key |-> key, of |-> Asks(c, text)]
  <1>1. Fitting' = Fitting
    BY FitsStays
  <1>2. Fits(key, Asks(c, text))
    BY DEF Fits, Fitting
  <1>3. new.key = key /\ new.of = Asks(c, text)
    OBVIOUS
  <1>4. \/ asked' = asked /\ (Has(key) \/ \E r \in asked : r.key = key)
        \/ asked' = asked \cup {new}
    BY DEF Look
  <1> HIDE DEF key, new
  <1>5. \A r \in asked' : Fits(r.key, r.of)
    BY <1>2, <1>3, <1>4 DEF SelInv
  <1>6. Has(key) \/ \E r \in asked' : r.key = key
    BY <1>3, <1>4
  <1>7. /\ QueryKey(c, text)' = QueryKey(c, text)
        /\ Has(QueryKey(c, text))' <=> Has(QueryKey(c, text))
    BY DEF QueryKey, Has
  <1>8. (\A r \in asked : Fits(r.key, r.of))'
    BY <1>1, <1>5 DEF Fits
  <1>. QED  BY <1>6, <1>7, <1>8 DEF key

LEMMA ChooseSelection ==
    ASSUME SelInv, NEW c \in Controls(view), Choose(c)
    PROVE  SelInv'
  <1>1. /\ view # "assets" /\ choice' = c /\ Look(c, search)
        /\ UNCHANGED <<view, search, timers, answers>>
    BY DEF Choose
  <1>2. search \in Searches
    BY DEF SelInv
  <1>3. /\ (\A r \in asked : Fits(r.key, r.of))'
        /\ Has(QueryKey(c, search))' \/ \E r \in asked' : r.key = QueryKey(c, search)
    BY <1>1, <1>2, LookFacts
  <1>4. Here' = QueryKey(c, search) /\ QueryKey(c, search)' = QueryKey(c, search)
    BY <1>1 DEF Here, QueryKey
  <1>5. (\A k \in DOMAIN answers : Fits(k, answers[k].of))'
    BY <1>1, FitsStays DEF SelInv, Fits
  <1>6. Controls(view)' = Controls(view)
    BY <1>1 DEF Controls
  <1>7. timers' = {}
    BY <1>1 DEF SelInv
  <1>. QED  BY <1>1, <1>3, <1>4, <1>5, <1>6, <1>7 DEF SelInv, Has

LEMMA SearchSelection ==
    ASSUME SelInv, NEW text \in Searches, Search(text)
    PROVE  SelInv'
  <1>1. /\ view = "assets" /\ choice' = [q |-> text]
        /\ timers' = {[text |-> text, left |-> Delay]}
        /\ UNCHANGED <<view, search, answers, asked, refused, last>>
    BY DEF Search, EnterText
  <1>2. Here' = Here /\ (Has(Here))' = Has(Here)
    BY <1>1 DEF Here, QueryKey, Has
  <1>3. choice' \in Controls(view)'
    BY <1>1 DEF Controls, AssetsControls, Searches
  <1>4. /\ (\A k \in DOMAIN answers : Fits(k, answers[k].of))'
        /\ (\A r \in asked : Fits(r.key, r.of))'
    BY <1>1, FitsStays DEF SelInv, Fits
  <1>5. \A t \in timers' : t.text = choice'.q /\ t.text \in Searches
    BY <1>1
  <1>. QED  BY <1>1, <1>2, <1>3, <1>4, <1>5 DEF SelInv, Has

LEMMA TickSelection ==
    ASSUME SelInv, TimerTick
    PROVE  SelInv'
  <1>1. UNCHANGED <<view, choice, search, answers, asked, refused, last>>
    BY DEF TimerTick
  <1>2. Here' = Here /\ (Has(Here))' = Has(Here)
    BY <1>1 DEF Here, QueryKey, Has
  <1>3. /\ (\A k \in DOMAIN answers : Fits(k, answers[k].of))'
        /\ (\A r \in asked : Fits(r.key, r.of))'
    BY <1>1, FitsStays DEF SelInv, Fits
  <1>4. /\ view # "assets" => timers' = {}
        /\ \A t \in timers' : t.text = choice'.q /\ t.text \in Searches
    <2>1. timers' = {[t EXCEPT !.left = @ - 1] : t \in timers}
      BY DEF TimerTick
    <2>2. ASSUME NEW t \in timers PROVE [t EXCEPT !.left = @ - 1].text = t.text
      OBVIOUS
    <2>3. \A u \in timers' : \E t \in timers : u.text = t.text
      BY <2>1, <2>2
    <2>. QED  BY <1>1, <2>1, <2>3 DEF SelInv
  <1>5. Controls(view)' = Controls(view)
    BY <1>1 DEF Controls
  <1>. QED  BY <1>1, <1>2, <1>3, <1>4, <1>5 DEF SelInv, Has

LEMMA FireSelection ==
    ASSUME SelInv, NEW t \in timers, Fire(t)
    PROVE  SelInv'
  <1>1. /\ timers' = timers \ {t} /\ search' = t.text
        /\ UNCHANGED <<view, choice, answers, choices>>
        /\ IF t.text = search THEN UNCHANGED <<asked, refused, last>> ELSE Look(choice, t.text)
    BY DEF Fire
  <1>2. choice \in Controls(view) /\ t.text \in Searches /\ view = "assets"
    BY DEF SelInv
  <1>3. /\ (\A r \in asked : Fits(r.key, r.of))'
        /\ (Has(Here) \/ Here \in refused \/ \E r \in asked : r.key = Here)'
    <2>1. CASE t.text = search
      <3>1. Here' = Here /\ (Has(Here))' = Has(Here)
        BY <1>1, <2>1 DEF Here, QueryKey, Has
      <3>2. UNCHANGED <<asked, refused>>
        BY <1>1, <2>1
      <3>3. (\A r \in asked : Fits(r.key, r.of))'
        BY <1>1, <3>2, FitsStays DEF SelInv, Fits
      <3>. QED  BY <3>1, <3>2, <3>3 DEF SelInv
    <2>2. CASE t.text # search
      <3>1. /\ (\A r \in asked : Fits(r.key, r.of))'
            /\ Has(QueryKey(choice, t.text))' \/ \E r \in asked' : r.key = QueryKey(choice, t.text)
        BY <1>1, <1>2, <2>2, LookFacts
      <3>2. Here' = QueryKey(choice, t.text)
            /\ QueryKey(choice, t.text)' = QueryKey(choice, t.text)
        BY <1>1 DEF Here, QueryKey
      <3>. QED  BY <3>1, <3>2 DEF Has
    <2>. QED  BY <2>1, <2>2
  <1>4. (\A k \in DOMAIN answers : Fits(k, answers[k].of))'
    BY <1>1, FitsStays DEF SelInv, Fits
  <1>5. Controls(view)' = Controls(view)
    BY <1>1 DEF Controls
  <1>. QED  BY <1>1, <1>2, <1>3, <1>4, <1>5 DEF SelInv

\* A request again, an answer, or a failure: the controls stay as they are.
LEMMA RequestSelection ==
    ASSUME SelInv, Retry \/ \E r \in asked : Arrive(r) \/ Fail(r)
    PROVE  SelInv'
  <1>1. UNCHANGED <<view, choice, search, timers>>
    BY DEF Retry, Arrive, Fail
  <1>2. Here' = Here /\ Controls(view)' = Controls(view)
    BY <1>1 DEF Here, QueryKey, Controls
  <1>3. CASE Retry
    <2> DEFINE new == [key |-> Here, of |-> Current]
    <2>1. asked' = asked \cup {new} /\ answers' = answers
      BY <1>3 DEF Retry
    <2>2. new.key = Here /\ Fits(new.key, new.of)
      BY DEF Fits, Fitting, Here, Current, SelInv
    <2> HIDE DEF new
    <2>3. (\A r \in asked : Fits(r.key, r.of))'
      BY <1>1, <2>1, <2>2, FitsStays DEF SelInv, Fits
    <2>4. \E r \in asked' : r.key = Here
      BY <2>1, <2>2
    <2>5. (\A k \in DOMAIN answers : Fits(k, answers[k].of))'
      BY <1>1, <2>1, FitsStays DEF SelInv, Fits
    <2>. QED  BY <1>1, <1>2, <2>3, <2>4, <2>5 DEF SelInv
  <1>4. ASSUME NEW r \in asked, Arrive(r) PROVE SelInv'
    <2>1. PICK empty \in BOOLEAN :
            answers' = [k \in DOMAIN answers \cup {r.key} |->
                            IF k = r.key THEN [of |-> r.of, empty |-> empty] ELSE answers[k]]
      BY <1>4 DEF Arrive
    <2>2. asked' = asked \ {r} /\ refused' = refused \ {r.key}
      BY <1>4 DEF Arrive
    <2>3. /\ DOMAIN answers' = DOMAIN answers \cup {r.key}
          /\ \A k \in DOMAIN answers' : IF k = r.key THEN answers'[k].of = r.of
                                        ELSE answers'[k] = answers[k]
      BY <2>1
    <2>4. (\A k \in DOMAIN answers : Fits(k, answers[k].of))'
      BY <1>1, <2>3, FitsStays DEF SelInv, Fits
    <2>5. (\A x \in asked : Fits(x.key, x.of))'
      BY <1>1, <2>2, FitsStays DEF SelInv, Fits
    <2>6. (Has(Here) \/ Here \in refused \/ \E x \in asked : x.key = Here)'
      <3>1. CASE r.key = Here
        BY <1>2, <2>3, <3>1 DEF Has
      <3>2. CASE r.key # Here
        BY <1>2, <2>2, <2>3, <3>2 DEF Has, SelInv
      <3>. QED  BY <3>1, <3>2
    <2>. QED  BY <1>1, <1>2, <2>4, <2>5, <2>6 DEF SelInv
  <1>5. ASSUME NEW r \in asked, Fail(r) PROVE SelInv'
    <2>1. asked' = asked \ {r} /\ refused' = refused \cup {r.key} /\ answers' = answers
      BY <1>5 DEF Fail
    <2>2. (\A k \in DOMAIN answers : Fits(k, answers[k].of))'
      BY <1>1, <2>1, FitsStays DEF SelInv, Fits
    <2>3. (\A x \in asked : Fits(x.key, x.of))'
      BY <1>1, <2>1, FitsStays DEF SelInv, Fits
    <2>4. (Has(Here) \/ Here \in refused \/ \E x \in asked : x.key = Here)'
      BY <1>2, <2>1 DEF Has, SelInv
    <2>. QED  BY <1>1, <1>2, <2>2, <2>3, <2>4 DEF SelInv
  <1>. QED  BY <1>3, <1>4, <1>5

LEMMA SelectionInductive == SelInv /\ [SelectionNext]_selectionVars => SelInv'
  <1> SUFFICES ASSUME SelInv, [SelectionNext]_selectionVars PROVE SelInv'
    OBVIOUS
  <1>1. CASE UNCHANGED selectionVars
    <2>1. UNCHANGED <<view, choice, search, timers, answers, asked, refused>>
      BY <1>1 DEF selectionVars
    <2>2. Here' = Here /\ Controls(view)' = Controls(view)
      BY <2>1 DEF Here, QueryKey, Controls
    <2>. QED  BY <2>1, <2>2, FitsStays DEF SelInv, Fits, Has
  <1>2. CASE SelectionNext
    <2>1. ASSUME NEW text \in Query \cup {All}, Search(text) PROVE SelInv'
      BY <2>1, SearchSelection DEF Searches
    <2>. QED  BY <1>2, <2>1, ChooseSelection, TickSelection, FireSelection, RequestSelection
              DEF SelectionNext
  <1>. QED  BY <1>1, <1>2

LEMMA SelectionInvariant == SelectionSpec => []SelInv
  BY InitSelection, SelectionInductive, PTL DEF SelectionSpec

-----------------------------------------------------------------------------
(* Selections: theorems.                                                   *)

\* An answer on the page, kept for its key or shown meanwhile (keepPreviousData),
\* belongs to the controls, unless their own answer is under way: in whatever
\* order answers come, and however often the controls are used in between.
THEOREM ShownSelected == SelectionSpec => []ShownIsSelected
  <1>1. ASSUME SelInv PROVE ShownIsSelected
    <2>1. CASE Has(Here)
      <3>1. answers[Here].of = Current
        BY <1>1, <2>1, HereFits DEF SelInv, Has
      <3>2. Displayed = None \/ Displayed = answers[Here]
        BY <2>1 DEF Displayed, Phase
      <3>. QED  BY <3>1, <3>2 DEF ShownIsSelected
    <2>2. CASE Here \in refused
      BY <2>2 DEF ShownIsSelected, Displayed, Phase
    <2>3. ASSUME NEW r \in asked, r.key = Here PROVE ShownIsSelected
      <3>1. r.of = Current
        BY <1>1, <2>3, HereFits DEF SelInv
      <3>. QED  BY <3>1 DEF ShownIsSelected
    <2>. QED  BY <1>1, <2>1, <2>2, <2>3 DEF SelInv
  <1>2. SelInv => ShownIsSelected
    BY <1>1
  <1>. QED  BY <1>2, SelectionInvariant, PTL

\* Neither an error nor a list that a filter has emptied leaves the user without a
\* control or a button, on each of the five views.
THEOREM NeverStuck == SelectionSpec => []NoDeadEnd
  <1>1. ASSUME SelInv PROVE NoDeadEnd
    <2> SUFFICES ASSUME \A r \in asked : r.key # Here, Phase = "error" \/ Filtered
                 PROVE  Offers # {}
      BY DEF NoDeadEnd
    <2>1. CASE view \in {"holdings", "history", "allocation"}
      BY <2>1 DEF Offers, HoldingsOffers, HistoryOffers, AllocationOffers
    <2>2. CASE view \in {"transactions", "assets"}
      <3>1. Offers = ListOffers
        BY <2>2 DEF Offers, TransactionsOffers, AssetsOffers
      <3>2. CASE Phase = "error"
        BY <3>1, <3>2 DEF ListOffers
      <3>3. CASE Phase # "error"
        <4>1. Here \notin refused
          BY <3>3 DEF Phase
        <4>2. Has(Here)
          BY <1>1, <4>1 DEF SelInv
        <4>3. Displayed = answers[Here]
          BY <4>1, <4>2 DEF Displayed, Phase
        <4>4. answers[Here].of = Current
          BY <1>1, <4>2, HereFits DEF SelInv, Has
        <4>5. Current # [nothing |-> TRUE]
          <5>1. CASE view = "assets"
            <6>1. DOMAIN Current = {"q"} /\ DOMAIN [nothing |-> TRUE] = {"nothing"}
              BY <5>1 DEF Current, Asks
            <6>. QED  BY <6>1
          <5>2. CASE view = "transactions"
            <6>1. DOMAIN Current = {"account", "period"}
                  /\ DOMAIN [nothing |-> TRUE] = {"nothing"}
              BY <1>1, <5>2 DEF SelInv, Current, Asks, Controls, TransactionsControls
            <6>. QED  BY <6>1
          <5>. QED  BY <2>2, <5>1, <5>2
        <4>6. Displayed # None
          BY <4>3, <4>4, <4>5 DEF None
        <4>. QED  BY <3>1, <3>3, <4>6 DEF ListOffers
      <3>. QED  BY <3>2, <3>3
    <2>. QED  BY <1>1, <2>1, <2>2 DEF SelInv, View
  <1>2. SelInv => NoDeadEnd
    BY <1>1
  <1>. QED  BY <1>2, SelectionInvariant, PTL

\* useDebounced: the text that is searched for changes only to what the field has
\* by then.
THEOREM SearchedIsTyped == SelectionSpec => SearchIsTheText
  <1>1. ASSUME SelInv, SelectionNext, search' # search PROVE search' = choice'.q
    <2>1. PICK t \in timers : Fire(t)
      BY <1>1 DEF SelectionNext, Choose, Search, TimerTick, Retry, Arrive, Fail
    <2>. QED  BY <1>1, <2>1 DEF Fire, SelInv
  <1>2. SelInv /\ [SelectionNext]_selectionVars
            => [search' # search => search' = choice'.q]_selectionVars
    BY <1>1
  <1>. QED  BY <1>2, SelectionInvariant, PTL DEF SelectionSpec, SearchIsTheText

-----------------------------------------------------------------------------
(* Selections: types.                                                      *)

\* A timer counts down to 0; the bound on choices is that of Use.
Counters ==
    /\ timers \subseteq [text : Searches, left : 0 .. Delay]
    /\ choices \in 0 .. MaxChoices

LEMMA CountersStep == Counters /\ SelInv /\ [SelectionNext]_selectionVars => Counters'
  <1> SUFFICES ASSUME Counters, SelInv, [SelectionNext]_selectionVars PROVE Counters'
    OBVIOUS
  <1>1. choices' \in 0 .. MaxChoices
    <2>1. choices' = choices \/ Use
      BY DEF SelectionNext, Choose, Search, TimerTick, Retry, Fire, Arrive, Fail, selectionVars
    <2>. QED  BY <2>1, SelectionAssumption DEF Use, Counters
  <1>2. ASSUME NEW text \in Searches, Search(text)
        PROVE  timers' \subseteq [text : Searches, left : 0 .. Delay]
    BY <1>2, SelectionAssumption DEF Search, EnterText
  <1>3. ASSUME TimerTick
        PROVE  timers' \subseteq [text : Searches, left : 0 .. Delay]
    <2>1. timers' = {[t EXCEPT !.left = @ - 1] : t \in timers} /\ \A t \in timers : t.left > 0
      BY <1>3 DEF TimerTick
    <2>2. ASSUME NEW t \in timers
          PROVE  [t EXCEPT !.left = @ - 1] \in [text : Searches, left : 0 .. Delay]
      <3>1. t \in [text : Searches, left : 0 .. Delay] /\ t.left > 0
        BY <2>1 DEF Counters
      <3>. QED  BY <3>1, SelectionAssumption
    <2>. QED  BY <2>1, <2>2
  <1>4. timers' \subseteq timers \/ (\E text \in Searches : Search(text)) \/ TimerTick
    BY DEF SelectionNext, Choose, Retry, Fire, Arrive, Fail, selectionVars, Searches
  <1>. QED  BY <1>1, <1>2, <1>3, <1>4 DEF Counters

\* The controls, the texts and the timers of the five views keep their types, and
\* what is asked for or answered is always some position of the controls.
THEOREM SelectionTypeCorrect == SelectionSpec => []SelectionTypeOK
  <1>1. SelectionInit => Counters
    BY SelectionAssumption DEF SelectionInit, Counters
  <1>2. ASSUME SelInv, Counters PROVE SelectionTypeOK
    <2>1. ASSUME NEW key, NEW of, Fits(key, of) PROVE of \in Controls(view)
      <3>1. PICK c \in Controls(view), text \in Searches : of = Asks(c, text)
        BY <2>1 DEF Fits, Fitting
      <3>. QED  BY <3>1 DEF Asks, Controls, AssetsControls, Searches
    <2>2. \A t \in timers : t.text \in Searches /\ t.left \in 0 .. Delay
      BY <1>2 DEF Counters
    <2>3. /\ \A r \in asked : r.of \in Controls(view)
          /\ \A k \in DOMAIN answers : answers[k].of \in Controls(view)
      BY <1>2, <2>1 DEF SelInv
    <2>. QED  BY <1>2, <2>2, <2>3 DEF SelInv, Counters, SelectionTypeOK, Searches
  <1>3. SelInv /\ Counters => SelectionTypeOK
    BY <1>2
  <1>. QED
    BY <1>1, <1>3, CountersStep, SelectionInvariant, PTL DEF SelectionSpec

-----------------------------------------------------------------------------
(* Dialogs: the invariant.                                                 *)

AnyKind == AccountsPage \cup AssetsPage \cup TransactionsPage

Elements(s) == {s[n] : n \in DOMAIN s}

\* A request as Submit makes it, and what is left of it when it is over.
Asked(r) ==
    /\ r = [kind |-> r.kind, of |-> r.of, instance |-> r.instance, row |-> r.row, body |-> r.body,
            typed |-> r.typed, reply |-> r.reply, client |-> r.client, lost |-> r.lost]
    /\ r.kind \in AnyKind /\ r.of \in Nat /\ r.lost \in BOOLEAN
    /\ r.reply \in {"none", "ok", "failed", "blocked"}
    /\ r.kind \in Keyed => r.instance = r.of
    /\ r.kind \in Editing => DOMAIN r.body \subseteq r.typed
    /\ r.lost => r.client = "ended"

\* A request that makes no row, or whose answer is lost.
Spent(r) == r.lost \/ r.reply \in {"failed", "blocked"}

SentOK ==
    /\ sent \in Seq(Elements(sent))
    /\ opened \in Nat /\ trouble \in Nat
    /\ \A n \in DOMAIN sent : Asked(sent[n]) /\ sent[n].of <= opened + trouble

\* The form `f` with these fields.
Filled(f, of, values, typed, error, notice) ==
    f = [of |-> of, values |-> values, typed |-> typed, error |-> error, notice |-> notice]

Shape(f) ==
    /\ Filled(f, f.of, f.values, f.typed, f.error, f.notice)
    /\ f.error = [of |-> f.error.of, blocked |-> f.error.blocked]

\* The form `f` is that of the dialog `d`; fields that are not typed in are those
\* of the row that the dialog was opened for.
Belongs(f, d) ==
    \/ d = NoDialog
    \/ /\ d = [kind |-> d.kind, row |-> d.row, before |-> d.before, number |-> d.number]
       /\ d.kind \in AnyKind /\ f.of = d.kind /\ d.number \in Nat
       /\ d.kind \in Keyed => f.error.of \in {0, d.number}
       /\ d.kind \in Editing => \A x \in DOMAIN f.values \ f.typed : f.values[x] = d.before[x]

FormOK ==
    /\ Shape(form) /\ Belongs(form, dialog)
    /\ dialog # NoDialog => dialog.number <= opened + trouble

\* A request `r` of the form that is open: its dialog hears of it, and once it
\* has it is spent, or has closed the dialog.
Hears(r) ==
    dialog # NoDialog /\ r.of = dialog.number =>
        /\ r.kind = dialog.kind
        /\ r.kind \notin Keyed => r.instance = mounts
        /\ r.kind \in Creating /\ r.client = "ended" => Spent(r)

\* Of two requests of one form that make rows, one is spent.
Pair(r, s) == r.of = s.of /\ {r.kind, s.kind} \subseteq Creating => Spent(r) \/ Spent(s)

Pairs == \A n, m \in DOMAIN sent : n # m => Pair(sent[n], sent[m])

DlgInv == SentOK /\ FormOK /\ Pairs /\ \A n \in DOMAIN sent : Hears(sent[n])

-----------------------------------------------------------------------------
(* Dialogs: sequences of requests.                                         *)

LEMMA OwnElements ==
    ASSUME NEW S, NEW s \in Seq(S)
    PROVE  s \in Seq(Elements(s))
  <1>1. Len(s) \in Nat /\ DOMAIN s = 1 .. Len(s) /\ s = [n \in 1 .. Len(s) |-> s[n]]
    OBVIOUS
  <1>2. \A n \in 1 .. Len(s) : s[n] \in Elements(s)
    BY <1>1 DEF Elements
  <1>3. [n \in 1 .. Len(s) |-> s[n]] \in Seq(Elements(s))
    BY <1>1, <1>2
  <1>. QED  BY <1>1, <1>3

LEMMA SequenceFacts ==
    ASSUME NEW s, s \in Seq(Elements(s)), NEW r
    PROVE  /\ Append(s, r) \in Seq(Elements(Append(s, r)))
           /\ DOMAIN Append(s, r) = DOMAIN s \cup {Len(s) + 1}
           /\ \A n \in DOMAIN s : Append(s, r)[n] = s[n]
           /\ Append(s, r)[Len(s) + 1] = r
           /\ Len(s) + 1 \notin DOMAIN s
  <1> DEFINE E == Elements(s) \cup {r}
  <1>1. s \in Seq(E) /\ r \in E
    BY DEF Elements
  <1>2. Append(s, r) \in Seq(E) /\ Len(Append(s, r)) = Len(s) + 1
        /\ (\A n \in 1 .. Len(s) : Append(s, r)[n] = s[n]) /\ Append(s, r)[Len(s) + 1] = r
    BY <1>1
  <1>3. Append(s, r) \in Seq(Elements(Append(s, r)))
    BY <1>2 DEF Elements
  <1>. QED  BY <1>1, <1>2, <1>3

LEMMA ExceptFacts ==
    ASSUME NEW s, s \in Seq(Elements(s)), NEW n \in DOMAIN s, NEW r
    PROVE  /\ [s EXCEPT ![n] = r] \in Seq(Elements([s EXCEPT ![n] = r]))
           /\ DOMAIN [s EXCEPT ![n] = r] = DOMAIN s
           /\ \A k \in DOMAIN s : [s EXCEPT ![n] = r][k] = IF k = n THEN r ELSE s[k]
  <1> DEFINE t == [s EXCEPT ![n] = r]
  <1>1. DOMAIN t = 1 .. Len(s) /\ Len(s) \in Nat
    OBVIOUS
  <1>2. \A k \in 1 .. Len(s) : t[k] \in Elements(t)
    BY <1>1 DEF Elements
  <1>3. t = [k \in 1 .. Len(s) |-> t[k]]
    BY <1>1
  <1>4. t \in Seq(Elements(t))
    <2> HIDE DEF t
    <2>. QED  BY <1>1, <1>2, <1>3
  <1>. QED  BY <1>1, <1>4

LEMMA RemoveFacts ==
    ASSUME NEW s, s \in Seq(Elements(s)), NEW n \in DOMAIN s
    PROVE  /\ RemoveAt(s, n) \in Seq(Elements(RemoveAt(s, n)))
           /\ DOMAIN RemoveAt(s, n) = 1 .. Len(s) - 1
           /\ \A k \in 1 .. Len(s) - 1 : RemoveAt(s, n)[k] = s[IF k < n THEN k ELSE k + 1]
  <1> DEFINE a == SubSeq(s, 1, n - 1)
             b == SubSeq(s, n + 1, Len(s))
  <1>1. a \in Seq(Elements(s)) /\ Len(a) = n - 1 /\ \A k \in 1 .. n - 1 : a[k] = s[k]
    OBVIOUS
  <1>2. b \in Seq(Elements(s)) /\ Len(b) = Len(s) - n
        /\ \A k \in 1 .. Len(s) - n : b[k] = s[n + k]
    OBVIOUS
  <1>3. /\ a \o b \in Seq(Elements(s)) /\ Len(a \o b) = Len(s) - 1
        /\ \A k \in 1 .. Len(s) - 1 : (a \o b)[k] = s[IF k < n THEN k ELSE k + 1]
    <2> HIDE DEF a, b
    <2>. QED  BY <1>1, <1>2
  <1> HIDE DEF a, b
  <1>4. a \o b \in Seq(Elements(a \o b))
    BY <1>3, OwnElements
  <1>5. RemoveAt(s, n) = a \o b
    BY DEF RemoveAt, a, b
  <1>. QED  BY <1>3, <1>4, <1>5

\* The request `t` is `r` but for these fields.
Changed(r, t, body, typed, reply, client, lost) ==
    t = [kind |-> r.kind, of |-> r.of, instance |-> r.instance, row |-> r.row, body |-> body,
         typed |-> typed, reply |-> reply, client |-> client, lost |-> lost]

LEMMA RequestFields ==
    ASSUME NEW r, Asked(r), NEW x, NEW y
    PROVE  /\ Changed(r, [r EXCEPT !.body = x, !.typed = y], x, y, r.reply, r.client, r.lost)
           /\ Changed(r, [r EXCEPT !.reply = x], r.body, r.typed, x, r.client, r.lost)
           /\ Changed(r, [r EXCEPT !.client = x, !.lost = y], r.body, r.typed, r.reply, x, y)
           /\ Changed(r, [r EXCEPT !.client = x], r.body, r.typed, r.reply, x, r.lost)
  <1> DEFINE Change(a, b, c, d, e) ==
               [kind : {r.kind}, of : {r.of}, instance : {r.instance}, row : {r.row}, body : {a},
                typed : {b}, reply : {c}, client : {d}, lost : {e}]
  <1>1. r \in Change(r.body, r.typed, r.reply, r.client, r.lost)
    BY DEF Asked
  <1>2. [r EXCEPT !.body = x, !.typed = y] \in Change(x, y, r.reply, r.client, r.lost)
    BY <1>1
  <1>3. [r EXCEPT !.reply = x] \in Change(r.body, r.typed, x, r.client, r.lost)
    BY <1>1
  <1>4. [r EXCEPT !.client = x, !.lost = y] \in Change(r.body, r.typed, r.reply, x, y)
    BY <1>1
  <1>5. [r EXCEPT !.client = x] \in Change(r.body, r.typed, r.reply, x, r.lost)
    BY <1>1
  <1>6. \A t, a, b, c, d, e : t \in Change(a, b, c, d, e) => Changed(r, t, a, b, c, d, e)
    BY DEF Changed
  <1> HIDE DEF Change
  <1>7. Changed(r, [r EXCEPT !.body = x, !.typed = y], x, y, r.reply, r.client, r.lost)
    BY <1>2, <1>6, Zenon
  <1>8. Changed(r, [r EXCEPT !.reply = x], r.body, r.typed, x, r.client, r.lost)
    BY <1>3, <1>6, Zenon
  <1>9. Changed(r, [r EXCEPT !.client = x, !.lost = y], r.body, r.typed, r.reply, x, y)
    BY <1>4, <1>6, Zenon
  <1>10. Changed(r, [r EXCEPT !.client = x], r.body, r.typed, r.reply, x, r.lost)
    BY <1>5, <1>6, Zenon
  <1>. QED  BY <1>7, <1>8, <1>9, <1>10, Zenon

\* What a request is by the next state.
Becoming(a, b) ==
    /\ Asked(b) /\ b.kind = a.kind /\ b.of = a.of /\ b.instance = a.instance
    /\ Spent(a) => Spent(b)

LEMMA EachBecomes ==
    ASSUME SentOK, Pairs, opened' \in Nat, trouble' \in Nat,
           opened + trouble <= opened' + trouble',
           sent' \in Seq(Elements(sent')),
           NEW f,
           \A k \in DOMAIN sent' : f[k] \in DOMAIN sent /\ Becoming(sent[f[k]], sent'[k]),
           \A k, j \in DOMAIN sent' : k # j => f[k] # f[j]
    PROVE  SentOK' /\ Pairs'
  <1>1. SentOK'
    <2> SUFFICES ASSUME NEW k \in DOMAIN sent'
                 PROVE  Asked(sent'[k]) /\ sent'[k].of <= opened' + trouble'
      BY DEF SentOK, Asked
    <2>1. sent[f[k]].of <= opened + trouble /\ sent[f[k]].of \in Nat
          /\ opened + trouble \in Nat /\ opened' + trouble' \in Nat
      BY DEF SentOK, Asked
    <2>2. Asked(sent'[k]) /\ sent'[k].of = sent[f[k]].of
      BY DEF Becoming
    <2>. QED  BY <2>1, <2>2
  <1>2. Pairs'
    <2> SUFFICES ASSUME NEW k \in DOMAIN sent', NEW j \in DOMAIN sent', k # j
                 PROVE  Pair(sent'[k], sent'[j])
      BY DEF Pairs, Pair, Spent
    <2>1. Pair(sent[f[k]], sent[f[j]])
      BY DEF Pairs
    <2>2. Becoming(sent[f[k]], sent'[k]) /\ Becoming(sent[f[j]], sent'[j])
      OBVIOUS
    <2>. QED  BY <2>1, <2>2 DEF Pair, Becoming
  <1>. QED  BY <1>1, <1>2

\* One request becomes `r`, and may be forgotten; the others stay.
LEMMA OneBecomes ==
    ASSUME SentOK, Pairs, NEW n \in DOMAIN sent, NEW r, Becomes(n, r), Becoming(sent[n], r),
           opened' \in Nat, trouble' \in Nat, opened + trouble <= opened' + trouble'
    PROVE  /\ SentOK' /\ Pairs'
           /\ \A k \in DOMAIN sent' :
                 \/ \E j \in DOMAIN sent : sent'[k] = sent[j]
                 \/ /\ sent'[k].kind = r.kind /\ sent'[k].of = r.of
                    /\ sent'[k].instance = r.instance /\ sent'[k].client = r.client
                    /\ sent'[k].lost = r.lost /\ sent'[k].reply = r.reply
  <1>0. sent \in Seq(Elements(sent)) /\ Asked(r) /\ Len(sent) \in Nat
        /\ DOMAIN sent = 1 .. Len(sent)
        /\ \A k \in DOMAIN sent : Becoming(sent[k], sent[k])
    BY DEF SentOK, Becoming
  <1>1. ASSUME NEW t, Becoming(sent[n], t), sent' = [sent EXCEPT ![n] = t],
               /\ t.kind = r.kind /\ t.of = r.of /\ t.instance = r.instance
               /\ t.client = r.client /\ t.lost = r.lost /\ t.reply = r.reply
        PROVE  /\ SentOK' /\ Pairs'
               /\ \A k \in DOMAIN sent' :
                     \/ \E j \in DOMAIN sent : sent'[k] = sent[j]
                     \/ /\ sent'[k].kind = r.kind /\ sent'[k].of = r.of
                        /\ sent'[k].instance = r.instance /\ sent'[k].client = r.client
                        /\ sent'[k].lost = r.lost /\ sent'[k].reply = r.reply
    <2> DEFINE f == [k \in DOMAIN sent |-> k]
    <2>1. sent' \in Seq(Elements(sent')) /\ DOMAIN sent' = DOMAIN sent
          /\ \A k \in DOMAIN sent : sent'[k] = IF k = n THEN t ELSE sent[k]
      BY <1>0, <1>1, ExceptFacts
    <2>2. \A k \in DOMAIN sent' : f[k] \in DOMAIN sent /\ Becoming(sent[f[k]], sent'[k])
      BY <1>0, <1>1, <2>1
    <2>3. \A k, j \in DOMAIN sent' : k # j => f[k] # f[j]
      BY <2>1
    <2> HIDE DEF f
    <2>4. SentOK' /\ Pairs'
      BY <2>1, <2>2, <2>3, EachBecomes
    <2>. QED  BY <1>1, <2>1, <2>4
  <1>2. CASE ~Over(r)
    BY <1>1, <1>2 DEF Becomes
  <1>3. CASE Over(r) /\ r.kind \in Creating /\ r.reply = "ok"
    <2> DEFINE t == [r EXCEPT !.body = << >>, !.typed = {}]
    <2>1. Changed(r, t, << >>, {}, r.reply, r.client, r.lost)
      BY <1>0, RequestFields, Zenon
    <2>2. sent' = [sent EXCEPT ![n] = t]
      BY <1>3 DEF Becomes
    <2> HIDE DEF t
    <2>3. Becoming(sent[n], t)
      BY <1>3, <1>0, <2>1 DEF Becoming, Asked, Spent, Creating, Editing, Changed
    <2>. QED  BY <1>1, <2>1, <2>2, <2>3 DEF Changed
  <1>4. CASE Over(r) /\ ~(r.kind \in Creating /\ r.reply = "ok")
    <2> DEFINE f == [k \in 1 .. Len(sent) - 1 |-> IF k < n THEN k ELSE k + 1]
    <2>1. sent' = RemoveAt(sent, n)
      BY <1>4 DEF Becomes
    <2>2. sent' \in Seq(Elements(sent')) /\ DOMAIN sent' = 1 .. Len(sent) - 1
          /\ \A k \in 1 .. Len(sent) - 1 : sent'[k] = sent[IF k < n THEN k ELSE k + 1]
      BY <1>0, <2>1, RemoveFacts
    <2>3. \A k \in DOMAIN sent' : f[k] \in DOMAIN sent /\ sent'[k] = sent[f[k]]
      BY <1>0, <2>2
    <2>4. \A k, j \in DOMAIN sent' : k # j => f[k] # f[j]
      BY <1>0, <2>2
    <2> HIDE DEF f
    <2>5. SentOK' /\ Pairs'
      BY <1>0, <2>2, <2>3, <2>4, EachBecomes
    <2>. QED  BY <2>3, <2>5
  <1>. QED  BY <1>2, <1>3, <1>4
-----------------------------------------------------------------------------
(* Dialogs: forms.                                                         *)

LEMMA FormFields ==
    ASSUME NEW f, Shape(f), NEW x, NEW v
    PROVE  /\ Filled([f EXCEPT !.values[x] = v, !.typed = @ \cup {x}],
                     f.of, [f.values EXCEPT ![x] = v], f.typed \cup {x}, f.error, f.notice)
           /\ Filled([f EXCEPT !.error = NoError, !.notice = "none"],
                     f.of, f.values, f.typed, NoError, "none")
           /\ Filled([f EXCEPT !.error = v], f.of, f.values, f.typed, v, f.notice)
           /\ Filled([f EXCEPT !.notice = v], f.of, f.values, f.typed, f.error, v)
           /\ Filled([f EXCEPT !.error.of = v], f.of, f.values, f.typed,
                     [of |-> v, blocked |-> f.error.blocked], f.notice)
  <1> DEFINE Fill(a, b, c, d, e) ==
               [of : {a}, values : {b}, typed : {c}, error : {d}, notice : {e}]
  <1>1. f \in Fill(f.of, f.values, f.typed, f.error, f.notice)
    BY DEF Shape, Filled
  <1>2. [f EXCEPT !.values[x] = v, !.typed = @ \cup {x}]
          \in Fill(f.of, [f.values EXCEPT ![x] = v], f.typed \cup {x}, f.error, f.notice)
    BY <1>1
  <1>3. [f EXCEPT !.error = NoError, !.notice = "none"]
          \in Fill(f.of, f.values, f.typed, NoError, "none")
    BY <1>1
  <1>4. [f EXCEPT !.error = v] \in Fill(f.of, f.values, f.typed, v, f.notice)
    BY <1>1
  <1>5. [f EXCEPT !.notice = v] \in Fill(f.of, f.values, f.typed, f.error, v)
    BY <1>1
  <1>6. [f EXCEPT !.error.of = v]
          \in Fill(f.of, f.values, f.typed, [f.error EXCEPT !.of = v], f.notice)
    BY <1>1
  <1>7. [f.error EXCEPT !.of = v] = [of |-> v, blocked |-> f.error.blocked]
    <2>1. [f.error EXCEPT !.of = v] \in [of : {v}, blocked : {f.error.blocked}]
      BY DEF Shape
    <2>2. \A e : e \in [of : {v}, blocked : {f.error.blocked}]
                    => e = [of |-> v, blocked |-> f.error.blocked]
      OBVIOUS
    <2>. QED  BY <2>1, <2>2, Zenon
  <1>8. \A g, a, b, c, d, e : g \in Fill(a, b, c, d, e) => Filled(g, a, b, c, d, e)
    BY DEF Filled
  <1> HIDE DEF Fill
  <1>9. Filled([f EXCEPT !.values[x] = v, !.typed = @ \cup {x}],
               f.of, [f.values EXCEPT ![x] = v], f.typed \cup {x}, f.error, f.notice)
    BY <1>2, <1>8, Zenon
  <1>10. Filled([f EXCEPT !.error = NoError, !.notice = "none"],
                f.of, f.values, f.typed, NoError, "none")
    BY <1>3, <1>8, Zenon
  <1>11. Filled([f EXCEPT !.error = v], f.of, f.values, f.typed, v, f.notice)
    BY <1>4, <1>8, Zenon
  <1>12. Filled([f EXCEPT !.notice = v], f.of, f.values, f.typed, f.error, v)
    BY <1>5, <1>8, Zenon
  <1>13. Filled([f EXCEPT !.error.of = v], f.of, f.values, f.typed,
                [of |-> v, blocked |-> f.error.blocked], f.notice)
    BY <1>6, <1>7, <1>8, Zenon
  <1>. QED  BY <1>9, <1>10, <1>11, <1>12, <1>13, Zenon

\* The form that a dialog begins with.
LEMMA BlankFacts ==
    ASSUME NEW kind, NEW a
    PROVE  /\ Shape(Blank(kind, a)) /\ Blank(kind, a).of = kind /\ Blank(kind, a).error.of = 0
           /\ Blank(kind, a).values = a
           /\ kind \in Editing => \A x \in DOMAIN Initial(kind, a) : Initial(kind, a)[x] = a[x]
  <1>1. Shape(Blank(kind, a)) /\ Blank(kind, a).of = kind /\ Blank(kind, a).error.of = 0
        /\ Blank(kind, a).values = a
    BY DEF Blank, Shape, Filled, NoError
  <1>2. CASE kind = "editAccount"
    BY <1>1, <1>2 DEF Initial, toFormValues
  <1>3. CASE kind = "editAsset"
    BY <1>1, <1>3 DEF Initial, EditAssetInitial
  <1>. QED  BY <1>1, <1>2, <1>3 DEF Editing

-----------------------------------------------------------------------------
(* Dialogs: every step keeps the invariant.                                *)

LEMMA KindFacts ==
    /\ \A p : Dialogs(p) \subseteq AnyKind
    /\ Creating \subseteq AnyKind /\ Editing \subseteq AnyKind /\ Keyed \subseteq AnyKind
    /\ "none" \notin AnyKind /\ Creating \cap Keyed = {}
    /\ Creating \cap Editing = {}
    /\ NoDialog.kind = "none" /\ \A d : Belongs(form, d) => (d = NoDialog <=> d.kind = "none")
  BY DEF Dialogs, AnyKind, AccountsPage, AssetsPage, TransactionsPage, Creating, Editing, Keyed,
         NoDialog, Belongs

LEMMA InitDialogs == DialogInit => DlgInv
  <1> SUFFICES ASSUME DialogInit PROVE DlgInv
    OBVIOUS
  <1>1. SentOK
    BY DEF DialogInit, SentOK, Elements
  <1>2. FormOK
    BY BlankFacts DEF DialogInit, FormOK, Belongs
  <1>. QED  BY <1>1, <1>2 DEF DialogInit, DlgInv, Pairs

\* Nothing about the requests changes.
LEMMA SentStays ==
    ASSUME DlgInv, sent' = sent, opened' \in Nat, trouble' \in Nat,
           opened + trouble <= opened' + trouble'
    PROVE  SentOK' /\ Pairs'
  <1>1. Pairs'
    BY DEF DlgInv, Pairs, Pair, Spent
  <1>2. ASSUME NEW n \in DOMAIN sent PROVE (Asked(sent[n]) /\ sent[n].of <= opened + trouble)'
    <2>1. Asked(sent[n]) /\ sent[n].of <= opened + trouble /\ opened + trouble \in Nat
      BY DEF DlgInv, SentOK
    <2>2. Asked(sent[n])'
      BY <2>1 DEF Asked
    <2>. QED  BY <2>1, <2>2 DEF Asked
  <1>3. (sent \in Seq(Elements(sent)))'
    BY DEF DlgInv, SentOK, Elements
  <1>. QED  BY <1>1, <1>2, <1>3 DEF SentOK

LEMMA OpenStep ==
    ASSUME DlgInv, NEW kind \in Dialogs(screen), NEW row, Open(kind, row)
    PROVE  DlgInv'
  <1> DEFINE a == IF row = 0 THEN << >> ELSE list[row].has
             d == [kind |-> kind, row |-> row, before |-> a, number |-> opened + trouble + 1]
  <1>1. opened \in Nat /\ trouble \in Nat /\ opened' = opened + 1 /\ trouble' = trouble
        /\ sent' = sent /\ mounts' = mounts
    BY DEF Open, DlgInv, SentOK
  <1>2. dialog' = d /\ form' = Blank(kind, Initial(kind, a))
    BY DEF Open, Opened
  <1>3. SentOK' /\ Pairs'
    BY <1>1, SentStays
  <1>4. d.kind = kind /\ d.before = a /\ d.number = opened + trouble + 1 /\ kind \in AnyKind
        /\ d = [kind |-> d.kind, row |-> d.row, before |-> d.before, number |-> d.number]
    BY KindFacts
  <1> HIDE DEF d
  <1>5. Shape(form') /\ Belongs(form', d)
    BY <1>1, <1>2, <1>4, BlankFacts DEF Belongs
  <1>6. FormOK'
    BY <1>1, <1>2, <1>4, <1>5 DEF FormOK
  <1>7. \A n \in DOMAIN sent : sent[n].of # d.number
    BY <1>1, <1>4 DEF DlgInv, SentOK, Asked
  <1>8. \A n \in DOMAIN sent' : Hears(sent[n])'
    BY <1>1, <1>2, <1>7 DEF Hears
  <1>. QED  BY <1>3, <1>6, <1>8 DEF DlgInv

LEMMA TypeStep ==
    ASSUME DlgInv, NEW input, Type(input)
    PROVE  DlgInv'
  <1> DEFINE x == input[1]
             v == input[2]
  <1>1. /\ opened' = opened /\ trouble' = trouble /\ sent' = sent /\ mounts' = mounts
        /\ dialog' = dialog /\ form' = [form EXCEPT !.values[x] = v, !.typed = @ \cup {x}]
        /\ opened \in Nat /\ trouble \in Nat
    BY DEF Type, DlgInv, SentOK
  <1> HIDE DEF x, v
  <1>2. Filled(form', form.of, [form.values EXCEPT ![x] = v], form.typed \cup {x}, form.error,
               form.notice)
    BY <1>1, FormFields, Zenon DEF DlgInv, FormOK
  <1>3. Shape(form') /\ Belongs(form', dialog)
    BY <1>2 DEF DlgInv, FormOK, Shape, Filled, Belongs
  <1>4. SentOK' /\ Pairs'
    BY <1>1, SentStays
  <1>. QED  BY <1>1, <1>3, <1>4 DEF DlgInv, FormOK, Hears, Spent

LEMMA CloseStep ==
    ASSUME DlgInv, Close
    PROVE  DlgInv'
  <1>1. SentOK' /\ Pairs'
    BY SentStays DEF Close, DlgInv, SentOK
  <1>2. Shape(form')
    BY BlankFacts DEF Close, DlgInv, FormOK
  <1>. QED  BY <1>1, <1>2 DEF Close, DlgInv, FormOK, Belongs, Hears

\* A patch has no field in which nothing was typed.
LEMMA PatchFacts ==
    ASSUME NEW kind \in Editing, NEW a, NEW v, NEW typed,
           \A x \in DOMAIN v \ typed : v[x] = a[x]
    PROVE  DOMAIN Body(kind, a, v) \subseteq typed
  <1>1. CASE kind = "editAccount"
    <2>1. Body(kind, a, v) = AccountPatch(a, v)
      BY <1>1 DEF Body
    <2>. QED  BY <2>1 DEF AccountPatch, Sending
  <1>2. CASE kind = "editAsset"
    <2>1. Body(kind, a, v) = AssetPatch(a, v)
      BY <1>2 DEF Body
    <2>. QED  BY <2>1 DEF AssetPatch, Sending
  <1>. QED  BY <1>1, <1>2 DEF Editing

LEMMA SubmitStep ==
    ASSUME DlgInv, Submit
    PROVE  DlgInv'
  <1> DEFINE kind == dialog.kind
             body == Body(kind, dialog.before, form.values)
             clear == [form EXCEPT !.error = NoError, !.notice = "none"]
             r == [kind |-> kind, of |-> dialog.number, instance |-> Instance(kind),
                   row |-> dialog.row, body |-> body, typed |-> form.typed,
                   reply |-> "none", client |-> "waiting", lost |-> FALSE]
  <1>1. /\ opened' = opened /\ trouble' = trouble /\ mounts' = mounts /\ dialog' = dialog
        /\ opened \in Nat /\ trouble \in Nat /\ dialog # NoDialog
        /\ kind \in AnyKind /\ form.of = kind /\ dialog.number \in Nat
        /\ dialog.number <= opened + trouble
        /\ sent \in Seq(Elements(sent))
    BY DEF Submit, Ready, IsOpen, DlgInv, SentOK, FormOK, Belongs
  <1>2. FormOK'
    <2>1. Filled(clear, form.of, form.values, form.typed, NoError, "none") /\ Shape(clear)
      <3>1. Filled(clear, form.of, form.values, form.typed, NoError, "none")
        BY FormFields, Zenon DEF DlgInv, FormOK
      <3>. HIDE DEF clear
      <3>. QED  BY <3>1 DEF Filled, Shape, NoError
    <2>2. \/ form' = [clear EXCEPT !.error.of = dialog.number]
          \/ form' = [clear EXCEPT !.notice = "no change"]
          \/ form' = clear
      BY DEF Submit, Before
    <2> HIDE DEF clear
    <2>3. CASE form' = [clear EXCEPT !.error.of = dialog.number]
      <3>1. Filled(form', clear.of, clear.values, clear.typed,
                   [of |-> dialog.number, blocked |-> clear.error.blocked], clear.notice)
        BY <2>1, <2>3, FormFields, Zenon
      <3>. QED  BY <1>1, <2>1, <3>1 DEF Filled, Shape, FormOK, Belongs, DlgInv
    <2>4. CASE form' = [clear EXCEPT !.notice = "no change"]
      <3>1. Filled(form', clear.of, clear.values, clear.typed, clear.error, "no change")
        BY <2>1, <2>4, FormFields, Zenon
      <3>. QED  BY <1>1, <2>1, <3>1 DEF Filled, Shape, FormOK, Belongs, DlgInv, NoError
    <2>5. CASE form' = clear
      BY <1>1, <2>1, <2>5 DEF Filled, Shape, FormOK, Belongs, DlgInv, NoError
    <2>. QED  BY <2>2, <2>3, <2>4, <2>5
  <1>3. CASE sent' = sent
    <2>1. SentOK' /\ Pairs'
      BY <1>1, <1>3, SentStays
    <2>. QED  BY <1>1, <1>2, <1>3, <2>1 DEF DlgInv, Hears, Spent
  <1>4. CASE sent' = Append(sent, r)
    <2>1. kind \in Editing => DOMAIN body \subseteq form.typed
      BY <1>1, PatchFacts DEF DlgInv, FormOK, Belongs
    <2>2. Asked(r) /\ Hears(r) /\ r.of = dialog.number
      <3> HIDE DEF body
      <3>. QED  BY <1>1, <2>1 DEF Asked, Hears, Instance
    <2> HIDE DEF r, body
    <2>3. /\ sent' \in Seq(Elements(sent')) /\ DOMAIN sent' = DOMAIN sent \cup {Len(sent) + 1}
          /\ \A n \in DOMAIN sent : sent'[n] = sent[n]
          /\ sent'[Len(sent) + 1] = r /\ Len(sent) + 1 \notin DOMAIN sent
      BY <1>1, <1>4, SequenceFacts
    <2>4. SentOK'
      BY <1>1, <2>2, <2>3 DEF DlgInv, SentOK, Asked
    <2>5. \A n \in DOMAIN sent' : Hears(sent[n])'
      BY <1>1, <2>2, <2>3 DEF DlgInv, Hears, Spent
    <2>6. \A n \in DOMAIN sent : Pair(sent[n], r) /\ Pair(r, sent[n])
      <3> SUFFICES ASSUME NEW n \in DOMAIN sent, sent[n].of = dialog.number,
                          sent[n].kind \in Creating
                   PROVE  Spent(sent[n])
        BY <2>2 DEF Pair
      <3>1. sent[n].kind = kind /\ sent[n].instance = mounts
        BY <1>1, KindFacts DEF DlgInv, Hears
      <3>2. Alive(n)
        BY <3>1, KindFacts DEF Alive
      <3>3. sent[n].client = "ended"
        BY <3>1, <3>2 DEF Submit, Ready, DialogWaits
      <3>. QED  BY <1>1, <3>3 DEF DlgInv, Hears
    <2>7. Pairs'
      BY <2>3, <2>6 DEF DlgInv, Pairs, Pair, Spent
    <2>. QED  BY <1>2, <2>4, <2>5, <2>7 DEF DlgInv
  <1>. QED  BY <1>3, <1>4 DEF Submit, Before

\* A step of one request, in which the dialog stays or is closed.
LEMMA OneStep ==
    ASSUME DlgInv, NEW n \in DOMAIN sent, NEW r, Becomes(n, r), Becoming(sent[n], r), FormOK',
           opened' = opened, trouble' = trouble, mounts' = mounts,
           dialog' \in {dialog, NoDialog},
           dialog' # NoDialog /\ r.of = dialog.number /\ r.kind \in Creating /\ r.client = "ended"
              => Spent(r)
    PROVE  DlgInv'
  <1>1. opened \in Nat /\ trouble \in Nat /\ SentOK /\ Pairs
    BY DEF DlgInv, SentOK
  <1>2. /\ SentOK' /\ Pairs'
        /\ \A k \in DOMAIN sent' :
              \/ \E j \in DOMAIN sent : sent'[k] = sent[j]
              \/ /\ sent'[k].kind = r.kind /\ sent'[k].of = r.of
                 /\ sent'[k].instance = r.instance /\ sent'[k].client = r.client
                 /\ sent'[k].lost = r.lost /\ sent'[k].reply = r.reply
    BY <1>1, OneBecomes
  <1>3. ASSUME NEW k \in DOMAIN sent' PROVE Hears(sent[k])'
    <2>1. ASSUME NEW j \in DOMAIN sent, sent'[k] = sent[j] PROVE Hears(sent[k])'
      BY <2>1 DEF DlgInv, Hears, Spent
    <2>2. ASSUME /\ sent'[k].kind = r.kind /\ sent'[k].of = r.of
                 /\ sent'[k].instance = r.instance /\ sent'[k].client = r.client
                 /\ sent'[k].lost = r.lost /\ sent'[k].reply = r.reply
          PROVE  Hears(sent[k])'
      <3>1. Hears(sent[n]) /\ r.kind = sent[n].kind /\ r.of = sent[n].of
            /\ r.instance = sent[n].instance
        BY DEF DlgInv, Becoming
      <3>. QED  BY <2>2, <3>1 DEF Hears, Spent
    <2>. QED  BY <1>2, <2>1, <2>2
  <1>. QED  BY <1>2, <1>3 DEF DlgInv

\* No request is over by the next state that is not over by now.
LEMMA RelabelStep ==
    ASSUME DlgInv, sent' \in Seq(Elements(sent')), DOMAIN sent' = DOMAIN sent,
           \A k \in DOMAIN sent : Becoming(sent[k], sent'[k])
                                 /\ (sent'[k].client = "ended" => sent[k].client = "ended"),
           opened' \in Nat, trouble' \in Nat, opened + trouble <= opened' + trouble', FormOK',
           \/ dialog' = dialog /\ mounts' = mounts
           \/ dialog' = NoDialog
           \/ dialog'.number > opened + trouble
    PROVE  DlgInv'
  <1> DEFINE f == [k \in DOMAIN sent |-> k]
  <1>1. \A k \in DOMAIN sent' : f[k] \in DOMAIN sent /\ Becoming(sent[f[k]], sent'[k])
    OBVIOUS
  <1>2. \A k, j \in DOMAIN sent' : k # j => f[k] # f[j]
    OBVIOUS
  <1> HIDE DEF f
  <1>3. SentOK' /\ Pairs'
    BY <1>1, <1>2, EachBecomes DEF DlgInv
  <1>4. ASSUME NEW k \in DOMAIN sent' PROVE Hears(sent[k])'
    <2>1. /\ Hears(sent[k]) /\ Becoming(sent[k], sent'[k])
          /\ sent[k].of <= opened + trouble /\ sent[k].of \in Nat
          /\ opened \in Nat /\ trouble \in Nat
      BY DEF DlgInv, SentOK, Asked
    <2>2. sent'[k].kind = sent[k].kind /\ sent'[k].of = sent[k].of
          /\ sent'[k].instance = sent[k].instance /\ (Spent(sent[k]) => Spent(sent'[k]))
      BY <2>1 DEF Becoming
    <2>3. CASE dialog' = dialog /\ mounts' = mounts
      BY <2>1, <2>2, <2>3 DEF Hears
    <2>4. CASE dialog' = NoDialog
      BY <2>4 DEF Hears
    <2>5. CASE dialog'.number > opened + trouble
      BY <2>1, <2>2, <2>5 DEF Hears
    <2>. QED  BY <2>3, <2>4, <2>5
  <1>. QED  BY <1>3, <1>4 DEF DlgInv

\* An answer: what it answers has none yet.
LEMMA RepliedStep ==
    ASSUME DlgInv, NEW n \in DOMAIN sent, NEW reply \in {"ok", "failed", "blocked"},
           sent[n].reply = "none", Replied(n, reply),
           UNCHANGED <<mounts, dialog, form, opened, trouble>>
    PROVE  DlgInv'
  <1> DEFINE r == [sent[n] EXCEPT !.reply = reply]
  <1>1. Becomes(n, r)
    BY DEF Replied
  <1>2. Asked(sent[n]) /\ Hears(sent[n])
    BY DEF DlgInv, SentOK
  <1>3. Changed(sent[n], r, sent[n].body, sent[n].typed, reply, sent[n].client, sent[n].lost)
    BY <1>2, RequestFields, Zenon
  <1> HIDE DEF r
  <1>4. Becoming(sent[n], r)
    BY <1>2, <1>3 DEF Becoming, Changed, Asked, Spent
  <1>5. dialog # NoDialog /\ r.of = dialog.number /\ r.kind \in Creating /\ r.client = "ended"
           => Spent(r)
    BY <1>2, <1>3 DEF Hears, Changed, Spent
  <1>6. FormOK'
    BY DEF DlgInv, FormOK
  <1>. QED  BY <1>1, <1>4, <1>5, <1>6, OneStep

LEMMA EndsFacts ==
    ASSUME DlgInv, NEW n \in DOMAIN sent, NEW lost \in BOOLEAN, sent[n].client # "ended",
           NEW r, r = [sent[n] EXCEPT !.client = "ended", !.lost = lost]
    PROVE  /\ Becoming(sent[n], r) /\ r.of = sent[n].of /\ r.kind = sent[n].kind
           /\ r.reply = sent[n].reply /\ r.lost = lost
  <1>1. Asked(sent[n])
    BY DEF DlgInv, SentOK
  <1>2. Changed(sent[n], r, sent[n].body, sent[n].typed, sent[n].reply, "ended", lost)
    BY <1>1, RequestFields, Zenon
  <1>. QED  BY <1>1, <1>2 DEF Becoming, Changed, Asked, Spent

LEMMA ErrorStep ==
    ASSUME DlgInv, NEW n \in DOMAIN sent, NEW blocked, ShowError(n, blocked),
           UNCHANGED <<dialog, opened, trouble>>
    PROVE  FormOK'
  <1>1. CASE form' = form
    BY <1>1 DEF DlgInv, FormOK
  <1>2. CASE Alive(n) /\ form.of = sent[n].kind
             /\ form' = [form EXCEPT !.error = [of |-> sent[n].of, blocked |-> blocked]]
    <2> DEFINE e == [of |-> sent[n].of, blocked |-> blocked]
    <2>1. e.of = sent[n].of /\ e = [of |-> e.of, blocked |-> e.blocked]
      OBVIOUS
    <2>2. form' = [form EXCEPT !.error = e]
      BY <1>2
    <2> HIDE DEF e
    <2>3. Filled(form', form.of, form.values, form.typed, e, form.notice)
      BY <2>2, FormFields, Zenon DEF DlgInv, FormOK
    <2>4. Shape(form') /\ form'.of = form.of /\ form'.values = form.values
          /\ form'.typed = form.typed /\ form'.error.of = sent[n].of
      BY <2>1, <2>3 DEF Filled, Shape
    <2>5. ASSUME dialog # NoDialog, dialog.kind \in Keyed PROVE sent[n].of = dialog.number
      <3>1. sent[n].kind = dialog.kind
        BY <1>2, <2>5 DEF DlgInv, FormOK, Belongs
      <3>. QED  BY <1>2, <2>5, <3>1 DEF Alive, DlgInv, SentOK, Asked
    <2>. QED  BY <2>4, <2>5 DEF DlgInv, FormOK, Belongs
  <1>. QED  BY <1>1, <1>2 DEF ShowError

LEMMA TellStep ==
    ASSUME DlgInv, NEW n \in DOMAIN sent, Tell(n)
    PROVE  DlgInv'
  <1>1. CASE sent[n].reply = "ok"
    <2> DEFINE r == [sent[n] EXCEPT !.client = "refetching"]
    <2>1. sent' = [sent EXCEPT ![n] = r]
      BY <1>1 DEF Tell
    <2>2. Asked(sent[n]) /\ sent \in Seq(Elements(sent)) /\ \A k \in DOMAIN sent : Asked(sent[k])
      BY DEF DlgInv, SentOK
    <2>3. Changed(sent[n], r, sent[n].body, sent[n].typed, sent[n].reply, "refetching",
                  sent[n].lost)
      BY <2>2, RequestFields, Zenon
    <2> HIDE DEF r
    <2>4. Becoming(sent[n], r) /\ r.client = "refetching"
      BY <2>2, <2>3 DEF Tell, Becoming, Changed, Asked, Spent
    <2>5. sent' \in Seq(Elements(sent')) /\ DOMAIN sent' = DOMAIN sent
          /\ \A k \in DOMAIN sent : sent'[k] = IF k = n THEN r ELSE sent[k]
      BY <2>1, <2>2, ExceptFacts
    <2>6. \A k \in DOMAIN sent : Becoming(sent[k], sent'[k])
                               /\ (sent'[k].client = "ended" => sent[k].client = "ended")
      BY <2>2, <2>4, <2>5 DEF Becoming
    <2>7. /\ UNCHANGED <<dialog, mounts, opened, trouble, form>>
          /\ opened \in Nat /\ trouble \in Nat /\ FormOK'
      BY <1>1 DEF Tell, DlgInv, SentOK, FormOK
    <2>. QED  BY <2>5, <2>6, <2>7, RelabelStep
  <1>2. CASE sent[n].reply # "ok"
    <2> DEFINE r == [sent[n] EXCEPT !.client = "ended", !.lost = FALSE]
    <2>1. Becomes(n, r) /\ sent[n].client = "waiting" /\ sent[n].reply # "none"
          /\ UNCHANGED <<dialog, mounts, opened, trouble>>
          /\ ShowError(n, sent[n].reply = "blocked")
      BY <1>2 DEF Tell, Ends
    <2> HIDE DEF r
    <2>2. FormOK'
      BY <2>1, ErrorStep
    <2>3. Becoming(sent[n], r) /\ r.reply = sent[n].reply
      BY <2>1, EndsFacts DEF r
    <2>4. sent[n].reply \in {"failed", "blocked"}
      BY <1>2, <2>1 DEF DlgInv, SentOK, Asked
    <2>. QED  BY <2>1, <2>2, <2>3, <2>4, OneStep DEF Spent
  <1>. QED  BY <1>1, <1>2

LEMMA LoseStep ==
    ASSUME DlgInv, NEW n \in DOMAIN sent, LoseAnswer(n)
    PROVE  DlgInv'
  <1> DEFINE r == [sent[n] EXCEPT !.client = "ended", !.lost = TRUE]
  <1>1. Becomes(n, r) /\ sent[n].client = "waiting" /\ ShowError(n, FALSE)
        /\ UNCHANGED <<dialog, mounts, opened, trouble>>
    BY DEF LoseAnswer, Ends
  <1> HIDE DEF r
  <1>2. FormOK'
    BY <1>1, ErrorStep
  <1>3. Becoming(sent[n], r) /\ r.lost = TRUE
    BY <1>1, EndsFacts DEF r
  <1>. QED  BY <1>1, <1>2, <1>3, OneStep DEF Spent

LEMMA SettleStep ==
    ASSUME DlgInv, NEW n \in DOMAIN sent, Settle(n)
    PROVE  DlgInv'
  <1> DEFINE r == [sent[n] EXCEPT !.client = "ended", !.lost = FALSE]
  <1>1. Becomes(n, r) /\ sent[n].client = "settling" /\ UNCHANGED <<mounts, opened, trouble>>
    BY DEF Settle, Ends
  <1> HIDE DEF r
  <1>2. Becoming(sent[n], r) /\ r.of = sent[n].of /\ r.kind = sent[n].kind
    BY <1>1, EndsFacts DEF r
  <1>3. Hears(sent[n]) /\ FormOK /\ Belongs(form, dialog)
    BY DEF DlgInv, FormOK
  <1>4. CASE sent[n].kind = "price"
    <2>1. dialog' = dialog
      BY <1>4 DEF Settle
    <2>2. CASE Alive(n)
      <3> DEFINE b == Blank("price", PriceInitial)
      <3>1. dialog.kind = "price"
        BY <1>4, <2>2 DEF Alive, Keyed
      <3>2. form' = [b EXCEPT !.notice = "saved"]
        BY <1>4, <2>2 DEF Settle
      <3>3. Shape(b) /\ b.of = "price" /\ b.error.of = 0
        BY BlankFacts
      <3> HIDE DEF b
      <3>4. Filled(form', b.of, b.values, b.typed, b.error, "saved")
        BY <3>2, <3>3, FormFields, Zenon
      <3>5. Shape(form') /\ form'.of = "price" /\ form'.error.of = 0
        BY <3>3, <3>4 DEF Filled, Shape
      <3>6. Belongs(form', dialog)
        BY <1>3, <3>1, <3>5 DEF Belongs, Editing
      <3>7. FormOK'
        BY <1>1, <1>3, <2>1, <3>5, <3>6 DEF FormOK
      <3>. QED  BY <1>1, <1>2, <1>4, <2>1, <3>7, OneStep DEF Creating
    <2>3. CASE ~Alive(n)
      <3>1. form' = form
        BY <1>4, <2>3 DEF Settle
      <3>2. FormOK'
        BY <1>1, <1>3, <2>1, <3>1 DEF FormOK
      <3>. QED  BY <1>1, <1>2, <1>4, <2>1, <3>2, OneStep DEF Creating
    <2>. QED  BY <2>2, <2>3
  <1>5. CASE sent[n].kind # "price"
    <2>1. dialog' = (IF dialog.kind = sent[n].kind THEN NoDialog ELSE dialog) /\ form' = form
      BY <1>5 DEF Settle
    <2>2. FormOK'
      BY <1>1, <1>3, <2>1 DEF FormOK, Belongs
    <2>3. ~(dialog' # NoDialog /\ r.of = dialog.number)
      BY <1>2, <1>3, <2>1 DEF Hears
    <2>. QED  BY <1>1, <1>2, <2>1, <2>2, <2>3, OneStep
  <1>. QED  BY <1>4, <1>5

\* A request for the list ends: those that waited for it go on.
LEMMA ReleasedFacts ==
    ASSUME DlgInv, sent' = Released
    PROVE  /\ sent' \in Seq(Elements(sent')) /\ DOMAIN sent' = DOMAIN sent
           /\ \A k \in DOMAIN sent : Becoming(sent[k], sent'[k])
                                    /\ (sent'[k].client = "ended" => sent[k].client = "ended")
  <1>1. sent \in Seq(Elements(sent)) /\ \A k \in DOMAIN sent : Asked(sent[k])
    BY DEF DlgInv, SentOK
  <1>2. DOMAIN sent' = 1 .. Len(sent) /\ Len(sent) \in Nat
        /\ sent' = [k \in 1 .. Len(sent) |-> sent'[k]]
    BY <1>1 DEF Released
  <1>3. sent' \in Seq(Elements(sent'))
    BY <1>2 DEF Elements
  <1>4. ASSUME NEW k \in DOMAIN sent
        PROVE  Becoming(sent[k], sent'[k])
               /\ (sent'[k].client = "ended" => sent[k].client = "ended")
    <2>1. CASE sent[k].client = "refetching"
      <3> DEFINE r == [sent[k] EXCEPT !.client = "settling"]
      <3>1. Changed(sent[k], r, sent[k].body, sent[k].typed, sent[k].reply, "settling",
                    sent[k].lost)
        BY <1>1, RequestFields, Zenon
      <3>2. sent'[k] = r
        BY <2>1 DEF Released
      <3> HIDE DEF r
      <3>. QED  BY <1>1, <2>1, <3>1, <3>2 DEF Becoming, Changed, Asked, Spent
    <2>2. CASE sent[k].client # "refetching"
      BY <1>1, <2>2 DEF Released, Becoming
    <2>. QED  BY <2>1, <2>2
  <1>. QED  BY <1>1, <1>2, <1>3, <1>4

LEMMA RefetchStep ==
    ASSUME DlgInv, Refetch
    PROVE  DlgInv'
  <1>1. sent' = Released /\ UNCHANGED <<mounts, dialog, form, opened, trouble>>
        /\ opened \in Nat /\ trouble \in Nat /\ FormOK'
    BY DEF Refetch, DlgInv, SentOK, FormOK
  <1>. QED  BY <1>1, ReleasedFacts, RelabelStep

LEMMA RefetchFailsStep ==
    ASSUME DlgInv, RefetchFails
    PROVE  DlgInv'
  <1>1. sent' = Released /\ opened' = opened /\ trouble' = trouble + 1
        /\ opened \in Nat /\ trouble \in Nat /\ opened + trouble <= opened' + trouble'
    BY DEF RefetchFails, DlgInv, SentOK
  <1>2. CASE dialog = NoDialog
    <2>1. dialog' = NoDialog /\ form' = form
      BY <1>2 DEF RefetchFails
    <2>2. FormOK'
      BY <2>1 DEF DlgInv, FormOK, Belongs
    <2>. QED  BY <1>1, <2>1, <2>2, ReleasedFacts, RelabelStep
  <1>3. CASE dialog # NoDialog
    <2> DEFINE d == [dialog EXCEPT !.number = opened + trouble + 1]
               kind == dialog.kind
               a == dialog.before
    <2>1. dialog' = d /\ form' = Blank(kind, Initial(kind, a))
      BY <1>3 DEF RefetchFails
    <2>2. dialog \in [kind : {kind}, row : {dialog.row}, before : {a}, number : Nat]
          /\ kind \in AnyKind
      BY <1>3 DEF DlgInv, FormOK, Belongs
    <2>3. d \in [kind : {kind}, row : {dialog.row}, before : {a}, number : {opened + trouble + 1}]
      BY <2>2
    <2> HIDE DEF d
    <2>4. d.kind = kind /\ d.before = a /\ d.number = opened + trouble + 1
          /\ d = [kind |-> d.kind, row |-> d.row, before |-> d.before, number |-> d.number]
      BY <2>3
    <2>5. Shape(form') /\ Belongs(form', d)
      BY <1>1, <2>1, <2>2, <2>4, BlankFacts DEF Belongs
    <2>6. FormOK'
      BY <1>1, <2>1, <2>4, <2>5 DEF FormOK
    <2>7. dialog'.number > opened + trouble
      BY <1>1, <2>1, <2>4
    <2>. QED  BY <1>1, <2>6, <2>7, ReleasedFacts, RelabelStep
  <1>. QED  BY <1>2, <1>3

LEMMA ElsewhereStep ==
    ASSUME DlgInv, NEW n, Elsewhere(n)
    PROVE  DlgInv'
  <1>1. /\ UNCHANGED <<mounts, dialog, form, sent, opened>> /\ trouble' = trouble + 1
        /\ opened \in Nat /\ trouble \in Nat
    BY DEF Elsewhere, DlgInv, SentOK
  <1>2. SentOK' /\ Pairs'
    BY <1>1, SentStays
  <1>3. FormOK'
    BY <1>1 DEF DlgInv, FormOK, Belongs
  <1>. QED  BY <1>1, <1>2, <1>3 DEF DlgInv, Hears, Spent

LEMMA DialogsInductive == DlgInv /\ [DialogNext]_dialogVars => DlgInv'
  <1> SUFFICES ASSUME DlgInv, [DialogNext]_dialogVars PROVE DlgInv'
    OBVIOUS
  <1>1. CASE UNCHANGED dialogVars
    <2>1. SentOK' /\ Pairs'
      BY <1>1, SentStays DEF dialogVars, DlgInv, SentOK
    <2>. QED  BY <1>1, <2>1 DEF dialogVars, DlgInv, FormOK, Belongs, Hears, Spent
  <1>2. ASSUME NEW n \in DOMAIN sent, Commit(n) PROVE DlgInv'
    BY <1>2, RepliedStep DEF Commit
  <1>3. ASSUME NEW n \in DOMAIN sent, Refuse(n) PROVE DlgInv'
    BY <1>3, RepliedStep DEF Refuse
  <1>4. ASSUME NEW input, Type(input) PROVE DlgInv'
    BY <1>4, TypeStep
  <1>5. CASE DialogNext
    BY <1>2, <1>3, <1>4, <1>5, OpenStep, CloseStep, SubmitStep, RefetchStep, RefetchFailsStep,
       TellStep, LoseStep, SettleStep, ElsewhereStep DEF DialogNext
  <1>. QED  BY <1>1, <1>5

LEMMA DialogInvariant == DialogSpec => []DlgInv
  BY InitDialogs, DialogsInductive, PTL DEF DialogSpec

-----------------------------------------------------------------------------
(* Dialogs: theorems.                                                      *)

\* However often another tab changes a row, and whatever the list that an edit
\* starts from: the patch that is sent has no field in which nothing was typed
\* (buildAccountPatch, buildAssetPatch).
THEOREM PatchesAreTyped == DialogSpec => []PatchIsWhatWasTyped
  <1>1. DlgInv => PatchIsWhatWasTyped
    BY DEF DlgInv, SentOK, Asked, PatchIsWhatWasTyped
  <1>. QED  BY <1>1, DialogInvariant, PTL

\* An answer that comes when its dialog has been closed, and opened for another
\* row, is not shown there, for the dialogs that are mounted for their row
\* (setError in EditAssetDialog, PriceDialog and DeleteTransactionDialog).
THEOREM ErrorsStayAtHome == DialogSpec => []ErrorIsOfItsForm
  <1>1. DlgInv => ErrorIsOfItsForm
    BY DEF DlgInv, FormOK, Belongs, ErrorIsOfItsForm, IsOpen, Keyed
  <1>. QED  BY <1>1, DialogInvariant, PTL

\* Escape and the button, a refusal, a failing list and a second form do not make
\* one form send a second row that is accepted, unless an answer was lost
\* (isPending of the mutation disables the button).
THEOREM OneRowPerForm == DialogSpec => []OncePerForm
  <1>1. DlgInv => OncePerForm
    BY DEF DlgInv, Pairs, Pair, Spent, OncePerForm
  <1>. QED  BY <1>1, DialogInvariant, PTL

-----------------------------------------------------------------------------
(* Dialogs: types.                                                         *)

\* Rows are added and never taken out, so that the page has no more than there are.
ListOK ==
    /\ rows \in Seq(Elements(rows)) /\ list \in Seq(Elements(list))
    /\ Len(list) <= Len(rows)

DialogOK ==
    dialog = NoDialog \/ /\ dialog.kind \in Dialogs(screen)
                         /\ dialog.row \in {0} \cup DOMAIN rows
                         /\ DOMAIN form.values = DOMAIN Initial(dialog.kind, dialog.before)

\* Every form, and every mounting, has a number of its own.
ErrorKnown == form.error.of \in 0 .. opened + trouble

FormTyped ==
    /\ form.of \in Dialogs(screen) \cup {"none"}
    /\ ErrorKnown
    /\ form.notice \in {"none", "no change", "saved"}
    /\ form.typed \subseteq DOMAIN form.values

Clients == {"waiting", "refetching", "settling", "ended"}
ClientsOK == \A n \in DOMAIN sent : sent[n].client \in Clients

DlgTypes ==
    /\ screen \in {"accounts", "assets", "transactions"} /\ broken \in BOOLEAN
    /\ ListOK /\ DialogOK /\ FormTyped /\ ClientsOK

LEMMA SameLength ==
    ASSUME NEW s, s \in Seq(Elements(s)), NEW t, t = [k \in DOMAIN s |-> t[k]]
    PROVE  t \in Seq(Elements(t)) /\ DOMAIN t = DOMAIN s /\ Len(t) = Len(s)
  <1>1. DOMAIN s = 1 .. Len(s) /\ Len(s) \in Nat
    OBVIOUS
  <1>2. \A k \in 1 .. Len(s) : t[k] \in Elements(t)
    BY <1>1 DEF Elements
  <1>3. t \in [1 .. Len(s) -> Elements(t)]
    BY <1>1, <1>2
  <1>. QED  BY <1>1, <1>3

\* The rows in the database and on the page.
LEMMA ListStep ==
    ASSUME ListOK, DialogNext
    PROVE  ListOK' /\ DOMAIN rows \subseteq DOMAIN rows'
  <1>1. ASSUME NEW t, rows' = t, t = [k \in DOMAIN rows |-> t[k]], list' = list
        PROVE  ListOK' /\ DOMAIN rows \subseteq DOMAIN rows'
    <2>1. t \in Seq(Elements(t)) /\ DOMAIN t = DOMAIN rows /\ Len(t) = Len(rows)
      BY <1>1, SameLength DEF ListOK
    <2>. QED  BY <1>1, <2>1 DEF ListOK, Elements
  <1>2. ASSUME NEW r, rows' = Append(rows, r), list' = list
        PROVE  ListOK' /\ DOMAIN rows \subseteq DOMAIN rows'
    <2>1. /\ Append(rows, r) \in Seq(Elements(Append(rows, r)))
          /\ DOMAIN Append(rows, r) = DOMAIN rows \cup {Len(rows) + 1}
      BY SequenceFacts DEF ListOK
    <2>2. Len(Append(rows, r)) = Len(rows) + 1 /\ Len(rows) \in Nat /\ Len(list) \in Nat
      BY DEF ListOK
    <2>. QED  BY <1>2, <2>1, <2>2 DEF ListOK, Elements
  <1>3. ASSUME rows' = rows, list' \in {list, rows}
        PROVE  ListOK' /\ DOMAIN rows \subseteq DOMAIN rows'
    <2>1. Len(rows) \in Nat
      BY DEF ListOK
    <2>. QED  BY <1>3, <2>1 DEF ListOK, Elements
  <1>4. ASSUME NEW n \in DOMAIN sent, Commit(n)
        PROVE  ListOK' /\ DOMAIN rows \subseteq DOMAIN rows'
    <2>1. list' = list /\ (\/ \E r : rows' = Append(rows, r)
                           \/ rows' = [rows EXCEPT ![sent[n].row].has = Updated(@, sent[n].body)]
                           \/ rows' = [rows EXCEPT ![sent[n].row].gone = TRUE]
                           \/ rows' = rows)
      BY <1>4 DEF Commit
    <2>2. CASE rows' = [rows EXCEPT ![sent[n].row].has = Updated(@, sent[n].body)]
      BY <1>1, <2>1, <2>2
    <2>3. CASE rows' = [rows EXCEPT ![sent[n].row].gone = TRUE]
      BY <1>1, <2>1, <2>3
    <2>. QED  BY <1>2, <1>3, <2>1, <2>2, <2>3
  <1>5. ASSUME NEW n \in DOMAIN rows, Elsewhere(n)
        PROVE  ListOK' /\ DOMAIN rows \subseteq DOMAIN rows'
    <2>1. list' = list /\ (\/ \E has : rows' = [rows EXCEPT ![n].has = has]
                           \/ rows' = [rows EXCEPT ![n].gone = TRUE])
      BY <1>5 DEF Elsewhere
    <2>2. ASSUME NEW has, rows' = [rows EXCEPT ![n].has = has]
          PROVE  ListOK' /\ DOMAIN rows \subseteq DOMAIN rows'
      BY <1>1, <2>1, <2>2
    <2>3. CASE rows' = [rows EXCEPT ![n].gone = TRUE]
      BY <1>1, <2>1, <2>3
    <2>. QED  BY <2>1, <2>2, <2>3
  <1>6. \/ \E n \in DOMAIN sent : Commit(n)
        \/ \E n \in DOMAIN rows : Elsewhere(n)
        \/ rows' = rows /\ list' \in {list, rows}
    BY DEF DialogNext, Open, Type, Close, Submit, Refuse, Tell, LoseAnswer, Refetch, RefetchFails,
           Settle
  <1>. QED  BY <1>3, <1>4, <1>5, <1>6

\* The requests: each goes through what a dialog does with it.
LEMMA BecomesClient ==
    ASSUME DlgInv, ClientsOK, NEW n \in DOMAIN sent, NEW r, Becomes(n, r), Becoming(sent[n], r),
           r.client \in Clients, opened' = opened, trouble' = trouble
    PROVE  ClientsOK'
  <1>1. opened \in Nat /\ trouble \in Nat /\ SentOK /\ Pairs
    BY DEF DlgInv, SentOK
  <1>2. \A k \in DOMAIN sent' :
            (\E j \in DOMAIN sent : sent'[k] = sent[j]) \/ sent'[k].client = r.client
    BY <1>1, OneBecomes
  <1>. QED  BY <1>2 DEF ClientsOK

LEMMA ClientStep ==
    ASSUME DlgInv, ClientsOK, DialogNext
    PROVE  ClientsOK'
  <1>0. sent \in Seq(Elements(sent)) /\ \A n \in DOMAIN sent : Asked(sent[n])
    BY DEF DlgInv, SentOK
  <1>1. ASSUME NEW n \in DOMAIN sent, NEW reply \in {"ok", "failed", "blocked"},
               sent[n].reply = "none", Replied(n, reply), opened' = opened, trouble' = trouble
        PROVE  ClientsOK'
    <2> DEFINE r == [sent[n] EXCEPT !.reply = reply]
    <2>1. Becomes(n, r)
      BY <1>1 DEF Replied
    <2>2. Changed(sent[n], r, sent[n].body, sent[n].typed, reply, sent[n].client, sent[n].lost)
      BY <1>0, RequestFields, Zenon
    <2> HIDE DEF r
    <2>3. Becoming(sent[n], r) /\ r.client = sent[n].client
      BY <1>0, <1>1, <2>2 DEF Becoming, Changed, Asked, Spent
    <2>. QED  BY <1>1, <2>1, <2>3, BecomesClient DEF ClientsOK
  <1>2. ASSUME NEW n \in DOMAIN sent, NEW lost \in BOOLEAN, sent[n].client # "ended",
               Ends(n, lost), opened' = opened, trouble' = trouble
        PROVE  ClientsOK'
    <2> DEFINE r == [sent[n] EXCEPT !.client = "ended", !.lost = lost]
    <2>1. Becomes(n, r)
      BY <1>2 DEF Ends
    <2>2. Changed(sent[n], r, sent[n].body, sent[n].typed, sent[n].reply, "ended", lost)
      BY <1>0, RequestFields, Zenon
    <2>3. Becoming(sent[n], r)
      BY <1>2, EndsFacts
    <2> HIDE DEF r
    <2>4. r.client = "ended"
      BY <2>2 DEF Changed
    <2>. QED  BY <1>2, <2>1, <2>3, <2>4, BecomesClient DEF Clients
  <1>3. ASSUME NEW n \in DOMAIN sent, sent' = [sent EXCEPT ![n].client = "refetching"]
        PROVE  ClientsOK'
    <2> DEFINE r == [sent[n] EXCEPT !.client = "refetching"]
    <2>1. Changed(sent[n], r, sent[n].body, sent[n].typed, sent[n].reply, "refetching",
                  sent[n].lost)
      BY <1>0, RequestFields, Zenon
    <2>2. sent' = [sent EXCEPT ![n] = r]
      BY <1>3
    <2> HIDE DEF r
    <2>3. /\ DOMAIN sent' = DOMAIN sent
          /\ \A k \in DOMAIN sent : sent'[k] = IF k = n THEN r ELSE sent[k]
      BY <1>0, <2>2, ExceptFacts
    <2>4. r.client = "refetching"
      BY <2>1 DEF Changed
    <2>. QED  BY <2>3, <2>4 DEF ClientsOK, Clients
  <1>4. ASSUME sent' = Released PROVE ClientsOK'
    <2>1. DOMAIN sent' = DOMAIN sent
      BY <1>4 DEF Released
    <2>2. ASSUME NEW k \in DOMAIN sent PROVE sent'[k].client \in Clients
      <3>1. CASE sent[k].client = "refetching"
        <4> DEFINE r == [sent[k] EXCEPT !.client = "settling"]
        <4>1. Changed(sent[k], r, sent[k].body, sent[k].typed, sent[k].reply, "settling",
                      sent[k].lost)
          BY <1>0, RequestFields, Zenon
        <4>2. sent'[k] = r
          BY <1>4, <3>1 DEF Released
        <4> HIDE DEF r
        <4>. QED  BY <4>1, <4>2 DEF Changed, Clients
      <3>2. CASE sent[k].client # "refetching"
        BY <1>4, <3>2 DEF Released, ClientsOK
      <3>. QED  BY <3>1, <3>2
    <2>. QED  BY <2>1, <2>2 DEF ClientsOK
  <1>5. ASSUME Submit PROVE ClientsOK'
    <2>1. sent' = sent \/ \E r : sent' = Append(sent, r) /\ r.client = "waiting"
      BY <1>5 DEF Submit
    <2>2. CASE sent' = sent
      BY <2>2 DEF ClientsOK
    <2>3. ASSUME NEW r, sent' = Append(sent, r), r.client = "waiting" PROVE ClientsOK'
      <3>1. /\ DOMAIN sent' = DOMAIN sent \cup {Len(sent) + 1}
            /\ \A n \in DOMAIN sent : sent'[n] = sent[n]
            /\ sent'[Len(sent) + 1] = r
        BY <1>0, <2>3, SequenceFacts
      <3>. QED  BY <2>3, <3>1 DEF ClientsOK, Clients
    <2>. QED  BY <2>1, <2>2, <2>3
  <1>6. ASSUME NEW n \in DOMAIN sent, Commit(n) \/ Refuse(n) PROVE ClientsOK'
    BY <1>1, <1>6 DEF Commit, Refuse
  <1>7. ASSUME NEW n \in DOMAIN sent, Tell(n) PROVE ClientsOK'
    BY <1>2, <1>3, <1>7 DEF Tell
  <1>8. ASSUME NEW n \in DOMAIN sent, LoseAnswer(n) \/ Settle(n) PROVE ClientsOK'
    BY <1>2, <1>8 DEF LoseAnswer, Settle
  <1>9. \/ sent' = sent \/ sent' = Released \/ Submit
        \/ \E n \in DOMAIN sent : Commit(n) \/ Refuse(n) \/ Tell(n) \/ LoseAnswer(n) \/ Settle(n)
    BY DEF DialogNext, Open, Type, Close, Refetch, RefetchFails, Elsewhere
  <1>10. CASE sent' = sent
    BY <1>10 DEF ClientsOK
  <1>. QED  BY <1>4, <1>5, <1>6, <1>7, <1>8, <1>9, <1>10

\* The forms: what is opened is blank, and only its inputs are typed in.
LEMMA InputsFit ==
    ASSUME NEW kind \in AnyKind, NEW a, NEW v, NEW input \in Inputs(kind, a, v)
    PROVE  input[1] \in DOMAIN Initial(kind, a)
  <1>1. CASE kind = "createAccount"
    BY <1>1 DEF Inputs, Initial, CreateAccountForm, CreateAccountInitial, Withholding
  <1>2. CASE kind = "editAccount"
    BY <1>2 DEF Inputs, Initial, EditAccountForm, toFormValues, Withholding
  <1>3. CASE kind = "createAsset"
    BY <1>3 DEF Inputs, Initial, CreateAssetForm, CreateAssetInitial
  <1>4. CASE kind = "editAsset"
    BY <1>4 DEF Inputs, Initial, EditAssetForm, EditAssetInitial
  <1>5. CASE kind = "createTransaction"
    BY <1>5 DEF Inputs, Initial, CreateTransactionForm, CreateTransactionInitial
  <1>6. CASE kind = "price"
    BY <1>6 DEF Inputs, Initial, PriceForm, PriceInitial
  <1>7. CASE kind \in Deleting
    BY <1>7 DEF Inputs, Deleting
  <1>. QED  BY <1>1, <1>2, <1>3, <1>4, <1>5, <1>6, <1>7
            DEF AnyKind, AccountsPage, AssetsPage, TransactionsPage, Deleting

LEMMA BlankTyped ==
    ASSUME NEW kind, NEW a
    PROVE  /\ Blank(kind, a).typed = {} /\ Blank(kind, a).notice = "none"
           /\ Blank(kind, a).error.of = 0 /\ Blank(kind, a).values = a /\ Blank(kind, a).of = kind
  BY DEF Blank, NoError

LEMMA Numbers ==
    /\ \A m, n \in Nat : 0 \in 0 .. m + n
    /\ \A m, n, j, k \in Nat : m + n <= j + k => 0 .. m + n \subseteq 0 .. j + k
  OBVIOUS

LEMMA BlankForm ==
    ASSUME NEW kind, NEW a, form' = Blank(kind, a), opened' \in Nat, trouble' \in Nat,
           kind \in Dialogs(screen) \cup {"none"}, screen' = screen
    PROVE  FormTyped'
  <1>1. 0 \in 0 .. opened' + trouble'
    BY Numbers
  <1>2. form'.typed = {} /\ form'.notice = "none" /\ form'.error.of = 0 /\ form'.of = kind
    BY BlankTyped
  <1>3. ErrorKnown'
    BY <1>1, <1>2 DEF ErrorKnown
  <1>. QED  BY <1>2, <1>3 DEF FormTyped

\* The form stays, and the dialog stays or is closed.
LEMMA FormStays ==
    ASSUME DialogOK, FormTyped, UNCHANGED <<screen, form>>, dialog' \in {dialog, NoDialog},
           DOMAIN rows \subseteq DOMAIN rows',
           opened \in Nat, trouble \in Nat, opened' \in Nat, trouble' \in Nat,
           opened + trouble <= opened' + trouble'
    PROVE  DialogOK' /\ FormTyped'
  <1>1. ErrorKnown'
    <2>1. form.error.of \in 0 .. opened + trouble /\ form' = form
      BY DEF FormTyped, ErrorKnown
    <2>2. 0 .. opened + trouble \subseteq 0 .. opened' + trouble'
      BY Numbers
    <2>. QED  BY <2>1, <2>2 DEF ErrorKnown
  <1>. QED  BY <1>1 DEF DialogOK, FormTyped

\* The form changes, but for what it is about.
LEMMA FormChanges ==
    ASSUME DialogOK, FormTyped, UNCHANGED <<screen, dialog, rows, opened, trouble>>,
           NEW values, NEW typed, NEW error, NEW notice,
           Filled(form', form.of, values, typed, error, notice),
           DOMAIN values = DOMAIN form.values, typed \subseteq DOMAIN values,
           error.of \in 0 .. opened + trouble, notice \in {"none", "no change", "saved"}
    PROVE  DialogOK' /\ FormTyped'
  <1>1. form'.of = form.of /\ form'.values = values /\ form'.typed = typed
        /\ form'.error = error /\ form'.notice = notice
    BY DEF Filled
  <1>2. ErrorKnown'
    BY <1>1 DEF ErrorKnown
  <1>. QED  BY <1>1, <1>2 DEF DialogOK, FormTyped

LEMMA OpenTyped ==
    ASSUME DlgInv, DlgTypes, NEW kind \in Dialogs(screen), NEW row, Open(kind, row)
    PROVE  DialogOK' /\ FormTyped'
  <1> DEFINE a == IF row = 0 THEN << >> ELSE list[row].has
             d == [kind |-> kind, row |-> row, before |-> a, number |-> opened + trouble + 1]
  <1>1. opened \in Nat /\ trouble \in Nat /\ opened' = opened + 1 /\ trouble' = trouble
        /\ screen' = screen /\ rows' = rows
    BY DEF Open, DlgInv, SentOK
  <1>2. dialog' = d /\ form' = Blank(kind, Initial(kind, a))
    BY DEF Open, Opened
  <1>3. row \in {0} \cup DOMAIN rows
    <2>1. DOMAIN list \subseteq DOMAIN rows
      BY DEF DlgTypes, ListOK
    <2>. QED  BY <2>1 DEF Open
  <1>4. d.kind = kind /\ d.row = row /\ d.before = a
    OBVIOUS
  <1> HIDE DEF d, a
  <1>5. FormTyped'
    BY <1>1, <1>2, BlankForm
  <1>6. DialogOK'
    BY <1>1, <1>2, <1>3, <1>4, BlankTyped DEF DialogOK
  <1>. QED  BY <1>5, <1>6

LEMMA TypeTyped ==
    ASSUME DlgInv, DlgTypes, IsOpen,
           NEW input \in Inputs(dialog.kind, dialog.before, form.values), Type(input)
    PROVE  DialogOK' /\ FormTyped'
  <1> DEFINE x == input[1]
             v == input[2]
  <1>1. UNCHANGED <<screen, dialog, rows, opened, trouble>>
        /\ form' = [form EXCEPT !.values[x] = v, !.typed = @ \cup {x}]
    BY DEF Type
  <1>2. x \in DOMAIN form.values
    <2>1. dialog.kind \in AnyKind /\ DOMAIN form.values = DOMAIN Initial(dialog.kind, dialog.before)
      BY KindFacts DEF IsOpen, DlgTypes, DialogOK
    <2>. QED  BY <2>1, InputsFit
  <1> HIDE DEF x, v
  <1>3. Filled(form', form.of, [form.values EXCEPT ![x] = v], form.typed \cup {x}, form.error,
               form.notice)
    BY <1>1, FormFields, Zenon DEF DlgInv, FormOK
  <1>4. DOMAIN [form.values EXCEPT ![x] = v] = DOMAIN form.values
    OBVIOUS
  <1>5. form.typed \cup {x} \subseteq DOMAIN form.values /\ form.error.of \in 0 .. opened + trouble
        /\ form.notice \in {"none", "no change", "saved"} /\ DialogOK /\ FormTyped
    BY <1>2 DEF DlgTypes, FormTyped, ErrorKnown
  <1>. QED  BY <1>1, <1>3, <1>4, <1>5, FormChanges

LEMMA CloseTyped ==
    ASSUME DlgInv, DlgTypes, Close
    PROVE  DialogOK' /\ FormTyped'
  <1>1. /\ UNCHANGED <<screen, rows, opened, trouble>> /\ dialog' = NoDialog
        /\ form' = Blank("none", << >>) \/ form' = form
        /\ opened \in Nat /\ trouble \in Nat
    BY DEF Close, DlgInv, SentOK
  <1>2. CASE form' = Blank("none", << >>)
    BY <1>1, <1>2, BlankForm DEF DialogOK
  <1>3. CASE form' = form
    <2>1. opened + trouble <= opened' + trouble'
      BY <1>1
    <2>. QED  BY <1>1, <1>3, <2>1, FormStays DEF DlgTypes
  <1>. QED  BY <1>1, <1>2, <1>3

LEMMA SubmitTyped ==
    ASSUME DlgInv, DlgTypes, Submit
    PROVE  DialogOK' /\ FormTyped'
  <1> DEFINE clear == [form EXCEPT !.error = NoError, !.notice = "none"]
  <1>1. /\ UNCHANGED <<screen, dialog, rows, opened, trouble>>
        /\ opened \in Nat /\ trouble \in Nat /\ DialogOK /\ FormTyped
        /\ dialog.number \in 0 .. opened + trouble
    BY DEF Submit, Ready, IsOpen, DlgInv, SentOK, FormOK, Belongs, DlgTypes
  <1>2. Filled(clear, form.of, form.values, form.typed, NoError, "none") /\ Shape(clear)
    <2>1. Filled(clear, form.of, form.values, form.typed, NoError, "none")
      BY FormFields, Zenon DEF DlgInv, FormOK
    <2>. HIDE DEF clear
    <2>. QED  BY <2>1 DEF Filled, Shape, NoError
  <1>3. \/ form' = [clear EXCEPT !.error.of = dialog.number]
        \/ form' = [clear EXCEPT !.notice = "no change"]
        \/ form' = clear
    BY DEF Submit, Before
  <1> HIDE DEF clear
  <1>4. /\ clear.of = form.of /\ clear.values = form.values /\ clear.typed = form.typed
        /\ clear.error = NoError /\ clear.notice = "none"
    BY <1>2 DEF Filled
  <1>5. form.typed \subseteq DOMAIN form.values /\ NoError.of \in 0 .. opened + trouble
    <2>1. 0 \in 0 .. opened + trouble
      BY <1>1
    <2>. QED  BY <1>1, <2>1 DEF FormTyped, NoError
  <1>6. CASE form' = [clear EXCEPT !.error.of = dialog.number]
    <2> DEFINE e == [of |-> dialog.number, blocked |-> clear.error.blocked]
    <2>1. Filled(form', clear.of, clear.values, clear.typed, e, clear.notice)
      BY <1>2, <1>6, FormFields, Zenon
    <2>2. e.of = dialog.number
      OBVIOUS
    <2> HIDE DEF e
    <2>3. Filled(form', form.of, form.values, form.typed, e, "none")
      BY <1>4, <2>1, Zenon
    <2>. QED  BY <1>1, <1>5, <2>2, <2>3, FormChanges
  <1>7. CASE form' = [clear EXCEPT !.notice = "no change"]
    <2>1. Filled(form', clear.of, clear.values, clear.typed, clear.error, "no change")
      BY <1>2, <1>7, FormFields, Zenon
    <2>2. Filled(form', form.of, form.values, form.typed, NoError, "no change")
      BY <1>4, <2>1, Zenon
    <2>. QED  BY <1>1, <1>5, <2>2, FormChanges
  <1>8. CASE form' = clear
    <2>1. Filled(form', form.of, form.values, form.typed, NoError, "none")
      BY <1>2, <1>8, Zenon
    <2>. QED  BY <1>1, <1>5, <2>1, FormChanges
  <1>. QED  BY <1>3, <1>6, <1>7, <1>8

LEMMA ErrorTyped ==
    ASSUME DlgInv, DlgTypes, NEW n \in DOMAIN sent, NEW blocked, ShowError(n, blocked),
           UNCHANGED <<screen, dialog, rows, opened, trouble>>
    PROVE  DialogOK' /\ FormTyped'
  <1>1. /\ opened \in Nat /\ trouble \in Nat /\ DialogOK /\ FormTyped
        /\ sent[n].of \in 0 .. opened + trouble
    BY DEF DlgInv, SentOK, Asked, DlgTypes
  <1>2. CASE form' = form
    BY <1>1, <1>2, FormStays
  <1>3. CASE form' = [form EXCEPT !.error = [of |-> sent[n].of, blocked |-> blocked]]
    <2> DEFINE e == [of |-> sent[n].of, blocked |-> blocked]
    <2>1. e.of = sent[n].of
      OBVIOUS
    <2>2. form' = [form EXCEPT !.error = e]
      BY <1>3
    <2> HIDE DEF e
    <2>3. Filled(form', form.of, form.values, form.typed, e, form.notice)
      BY <2>2, FormFields, Zenon DEF DlgInv, FormOK
    <2>4. form.typed \subseteq DOMAIN form.values /\ form.notice \in {"none", "no change", "saved"}
      BY <1>1 DEF FormTyped
    <2>. QED  BY <1>1, <2>1, <2>3, <2>4, FormChanges
  <1>. QED  BY <1>2, <1>3 DEF ShowError

LEMMA SettleTyped ==
    ASSUME DlgInv, DlgTypes, NEW n \in DOMAIN sent, Settle(n)
    PROVE  DialogOK' /\ FormTyped'
  <1>1. UNCHANGED <<screen, rows, opened, trouble>> /\ opened \in Nat /\ trouble \in Nat
        /\ DialogOK /\ FormTyped
    BY DEF Settle, DlgInv, SentOK, DlgTypes
  <1>2. CASE form' = form /\ dialog' \in {dialog, NoDialog}
    BY <1>1, <1>2, FormStays
  <1>3. CASE sent[n].kind = "price" /\ Alive(n)
    <2> DEFINE b == Blank("price", PriceInitial)
    <2>1. dialog.kind = "price" /\ dialog' = dialog
      BY <1>3 DEF Alive, Keyed, Settle
    <2>2. form' = [b EXCEPT !.notice = "saved"]
      BY <1>3 DEF Settle
    <2>3. Shape(b) /\ b.of = "price" /\ b.error.of = 0 /\ b.values = PriceInitial /\ b.typed = {}
      BY BlankFacts, BlankTyped
    <2> HIDE DEF b
    <2>4. Filled(form', b.of, b.values, b.typed, b.error, "saved")
      BY <2>2, <2>3, FormFields, Zenon
    <2>5. form'.of = "price" /\ form'.error.of = 0 /\ form'.values = PriceInitial
          /\ form'.typed = {} /\ form'.notice = "saved"
      BY <2>3, <2>4 DEF Filled
    <2>6. dialog # NoDialog /\ Initial(dialog.kind, dialog.before) = PriceInitial
      BY <2>1 DEF NoDialog, Initial
    <2>7. ErrorKnown'
      <3>1. 0 \in 0 .. opened + trouble
        BY <1>1
      <3>. QED  BY <1>1, <2>5, <3>1 DEF ErrorKnown
    <2>8. "price" \in Dialogs(screen)
      BY <1>1, <2>1, <2>6 DEF DialogOK
    <2>. QED  BY <1>1, <2>1, <2>5, <2>6, <2>7, <2>8 DEF DialogOK, FormTyped
  <1>. QED  BY <1>2, <1>3 DEF Settle

LEMMA RefetchFailsTyped ==
    ASSUME DlgInv, DlgTypes, RefetchFails
    PROVE  DialogOK' /\ FormTyped'
  <1>1. /\ UNCHANGED <<screen, rows>> /\ opened' = opened /\ trouble' = trouble + 1
        /\ opened \in Nat /\ trouble \in Nat /\ opened + trouble <= opened' + trouble'
        /\ DialogOK /\ FormTyped
    BY DEF RefetchFails, DlgInv, SentOK, DlgTypes
  <1>2. CASE dialog = NoDialog
    <2>1. UNCHANGED <<dialog, form>>
      BY <1>2 DEF RefetchFails
    <2>. QED  BY <1>1, <2>1, FormStays
  <1>3. CASE dialog # NoDialog
    <2> DEFINE d == [dialog EXCEPT !.number = opened + trouble + 1]
               kind == dialog.kind
               a == dialog.before
    <2>1. dialog' = d /\ form' = Blank(kind, Initial(kind, a))
      BY <1>3 DEF RefetchFails
    <2>2. dialog \in [kind : {kind}, row : {dialog.row}, before : {a}, number : Nat]
      BY <1>3 DEF DlgInv, FormOK, Belongs
    <2>3. d.kind = kind /\ d.row = dialog.row /\ d.before = a
      BY <2>2
    <2>4. kind \in Dialogs(screen) /\ dialog.row \in {0} \cup DOMAIN rows
      BY <1>1, <1>3 DEF DialogOK
    <2> HIDE DEF d
    <2>5. FormTyped'
      BY <1>1, <2>1, <2>4, BlankForm
    <2>6. DialogOK'
      BY <1>1, <2>1, <2>3, <2>4, BlankTyped DEF DialogOK
    <2>. QED  BY <2>5, <2>6
  <1>. QED  BY <1>2, <1>3

LEMMA DialogTypesStep == DlgInv /\ DlgTypes /\ [DialogNext]_dialogVars => DlgTypes'
  <1> SUFFICES ASSUME DlgInv, DlgTypes, [DialogNext]_dialogVars PROVE DlgTypes'
    OBVIOUS
  <1>1. CASE UNCHANGED dialogVars
    BY <1>1 DEF dialogVars, DlgTypes, ListOK, DialogOK, FormTyped, ErrorKnown, ClientsOK,
                Elements
  <1>2. CASE DialogNext
    <2>1. screen' = screen /\ broken' \in BOOLEAN
      BY <1>2 DEF DialogNext, Open, Type, Close, Submit, Commit, Refuse, Tell, LoseAnswer, Refetch,
                  RefetchFails, Settle, Elsewhere, DlgTypes
    <2>2. ListOK' /\ DOMAIN rows \subseteq DOMAIN rows'
      BY <1>2, ListStep DEF DlgTypes
    <2>3. ClientsOK'
      BY <1>2, ClientStep DEF DlgTypes
    <2>4. opened \in Nat /\ trouble \in Nat /\ DialogOK /\ FormTyped
      BY DEF DlgInv, SentOK, DlgTypes
    <2>5. ASSUME NEW n \in DOMAIN sent, Commit(n) \/ Refuse(n) PROVE DialogOK' /\ FormTyped'
      <3>1. UNCHANGED <<screen, form, dialog, opened, trouble>>
        BY <2>5 DEF Commit, Refuse
      <3>. QED  BY <2>2, <2>4, <3>1, FormStays
    <2>6. ASSUME NEW n \in DOMAIN rows, Elsewhere(n) PROVE DialogOK' /\ FormTyped'
      BY <2>2, <2>4, <2>6, FormStays DEF Elsewhere
    <2>7. ASSUME Refetch PROVE DialogOK' /\ FormTyped'
      BY <2>2, <2>4, <2>7, FormStays DEF Refetch
    <2>8. ASSUME NEW n \in DOMAIN sent, Tell(n) PROVE DialogOK' /\ FormTyped'
      <3>1. CASE sent[n].reply = "ok"
        BY <2>2, <2>4, <2>8, <3>1, FormStays DEF Tell
      <3>2. CASE sent[n].reply # "ok"
        BY <2>8, <3>2, ErrorTyped DEF Tell
      <3>. QED  BY <3>1, <3>2
    <2>9. ASSUME NEW n \in DOMAIN sent, LoseAnswer(n) PROVE DialogOK' /\ FormTyped'
      BY <2>9, ErrorTyped DEF LoseAnswer
    <2>10. ASSUME IsOpen, NEW input \in Inputs(dialog.kind, dialog.before, form.values), Type(input)
           PROVE  DialogOK' /\ FormTyped'
      BY <2>10, TypeTyped
    <2>11. DialogOK' /\ FormTyped'
      BY <1>2, <2>5, <2>6, <2>7, <2>8, <2>9, <2>10, OpenTyped, CloseTyped, SubmitTyped, SettleTyped,
         RefetchFailsTyped DEF DialogNext
    <2>. QED  BY <2>1, <2>2, <2>3, <2>11 DEF DlgTypes
  <1>. QED  BY <1>1, <1>2

\* The dialogs keep their types: what is open belongs to the page and to a row that
\* there is, only fields of the form are typed in, and an error is that of a dialog
\* that has been opened or mounted again.
THEOREM DialogTypeCorrect == DialogSpec => []DialogTypeOK
  <1>1. ASSUME DialogInit PROVE DlgTypes
    <2>1. rows \in Seq(Elements(rows)) /\ list = rows /\ Len(list) <= Len(rows)
      <3>1. rows = [n \in 1 .. 2 |-> rows[n]] /\ list = rows
        BY <1>1 DEF DialogInit
      <3>2. rows \in Seq(Elements(rows)) /\ Len(rows) = 2
        <4>1. \A n \in 1 .. 2 : rows[n] \in Elements(rows)
          BY <3>1 DEF Elements
        <4>. QED  BY <3>1, <4>1
      <3>. QED  BY <3>1, <3>2
    <2>2. DialogOK /\ ClientsOK /\ screen \in {"accounts", "assets", "transactions"}
          /\ broken \in BOOLEAN
      <3>1. dialog = NoDialog /\ DOMAIN sent = {}
        BY <1>1 DEF DialogInit
      <3>. QED  BY <1>1, <3>1 DEF DialogInit, DialogOK, ClientsOK
    <2>3. form = Blank("none", << >>) /\ opened = 0 /\ trouble = 0
      BY <1>1 DEF DialogInit
    <2>4. FormTyped
      <3>1. 0 \in 0 .. opened + trouble
        BY <2>3
      <3>2. ErrorKnown
        BY <2>3, <3>1, BlankTyped DEF ErrorKnown
      <3>3. form.typed = {} /\ form.notice = "none" /\ form.of = "none"
        BY <2>3, BlankTyped
      <3>. QED  BY <3>2, <3>3 DEF FormTyped
    <2>. QED  BY <2>1, <2>2, <2>4 DEF DlgTypes, ListOK
  <1>2. ASSUME DlgInv, DlgTypes PROVE DialogTypeOK
    <2>1. \A n \in DOMAIN sent : sent[n].reply \in {"none", "ok", "failed", "blocked"}
      BY <1>2 DEF DlgInv, SentOK, Asked
    <2>2. dialog # NoDialog => form.of = dialog.kind
      BY <1>2 DEF DlgInv, FormOK, Belongs
    <2>. QED  BY <1>2, <2>1, <2>2
              DEF DlgTypes, ListOK, DialogOK, FormTyped, ErrorKnown, ClientsOK, Clients,
                  DialogTypeOK
  <1>3. (DialogInit => DlgTypes) /\ (DlgInv /\ DlgTypes => DialogTypeOK)
    BY <1>1, <1>2
  <1>. QED
    BY <1>3, DialogTypesStep, DialogInvariant, PTL DEF DialogSpec

-----------------------------------------------------------------------------
(* Session: how it ends.  A token that is sent is still valid for the tab  *)
(* (SentInTime), one that is refused no longer is for the API              *)
(* (RefusedLate): between the two lies the time that both ways took, and   *)
(* the difference of their two notions of its end.  A request without a    *)
(* token, or one whose refusal has been told, leaves the tab at the login  *)
(* until a session begins (Outdated).                                      *)

AnySend == [kind : {"enter", "data"}, token : Sessions, at : 0 .. MaxTime, checked : 0 .. MaxTime,
         reply : {"none", "ok", "401", "refused"}, phase : {"sent", "checked", "told"},
         mounted : BOOLEAN]

SessionTypes ==
    /\ now \in 0 .. MaxTime /\ session \in Sessions /\ stored \in Sessions
    /\ page \in {"guest", "app"} /\ sends \in Seq(AnySend)

SentInTime(r) == r.token # NoSession => r.at < r.token.until - Skew

RefusedLate(r) ==
    r.reply = "401" /\ r.token # NoSession => r.token.issued + TTL + Leeway < r.checked

AskedInTime(r, time) == r.at <= time /\ (r.reply = "401" => r.kind = "data")

Outdated(r, p, s) ==
    r.kind = "data" /\ (r.token = NoSession \/ r.phase = "told") =>
        p = "guest" \/ r.at <= Received(s)

Sound(r, time, p, s) == SentInTime(r) /\ RefusedLate(r) /\ AskedInTime(r, time) /\ Outdated(r, p, s)

AppHasSession == page = "app" => session # NoSession

SessionInv ==
    /\ SessionTypes /\ AppHasSession
    /\ \A n \in DOMAIN sends : Sound(sends[n], now, page, session)

-----------------------------------------------------------------------------
(* Sequences and sessions.                                                 *)

LEMMA Removed ==
    ASSUME NEW S, NEW s \in Seq(S), NEW i \in DOMAIN s
    PROVE  /\ RemoveAt(s, i) \in Seq(S)
           /\ \A n \in DOMAIN RemoveAt(s, i) : \E m \in DOMAIN s : RemoveAt(s, i)[n] = s[m]
<1> DEFINE front == SubSeq(s, 1, i - 1)
           back == SubSeq(s, i + 1, Len(s))
<1>1. i \in 1 .. Len(s) /\ Len(s) \in Nat
    OBVIOUS
<1>2. front \in Seq(S) /\ Len(front) = i - 1 /\ \A n \in 1 .. i - 1 : front[n] = s[n]
    BY <1>1
<1>3. back \in Seq(S) /\ Len(back) = Len(s) - i /\ \A n \in 1 .. Len(s) - i : back[n] = s[n + i]
    BY <1>1
<1> HIDE DEF front, back
<1>4. /\ front \o back \in Seq(S) /\ Len(front \o back) = Len(s) - 1
      /\ \A n \in 1 .. Len(s) - 1 :
            (front \o back)[n] = IF n <= i - 1 THEN front[n] ELSE back[n - (i - 1)]
    <2>1. /\ front \o back \in Seq(S) /\ Len(front \o back) = Len(front) + Len(back)
          /\ \A n \in 1 .. Len(front) + Len(back) :
                (front \o back)[n] = IF n <= Len(front) THEN front[n] ELSE back[n - Len(front)]
        BY <1>2, <1>3, ConcatProperties
    <2>2. Len(front) + Len(back) = Len(s) - 1
        BY <1>1, <1>2, <1>3
    <2> QED
        BY <1>2, <2>1, <2>2
<1>5. ASSUME NEW n \in 1 .. Len(s) - 1
      PROVE  (front \o back)[n] = s[IF n <= i - 1 THEN n ELSE n + 1]
    <2>1. CASE n <= i - 1
        BY <1>1, <1>2, <1>4, <2>1
    <2>2. CASE ~(n <= i - 1)
        <3>1. n - (i - 1) \in 1 .. Len(s) - i /\ (n - (i - 1)) + i = n + 1
            BY <1>1, <2>2
        <3>2. back[n - (i - 1)] = s[n + 1]
            BY <1>3, <3>1
        <3> QED
            BY <1>4, <2>2, <3>2
    <2> QED
        BY <2>1, <2>2
<1>6. \A n \in 1 .. Len(s) - 1 : (IF n <= i - 1 THEN n ELSE n + 1) \in 1 .. Len(s)
    BY <1>1
<1>7. DOMAIN (front \o back) = 1 .. Len(s) - 1
    BY <1>4
<1>8. RemoveAt(s, i) = front \o back
    BY DEF RemoveAt, front, back
<1>9. DOMAIN s = 1 .. Len(s)
    OBVIOUS
<1> QED
    BY <1>4, <1>5, <1>6, <1>7, <1>8, <1>9

LEMMA SessionFields ==
    ASSUME NEW s \in Sessions
    PROVE  s.issued \in Int /\ s.until \in Int
BY SessionAssumption DEF Sessions, NoSession

LEMMA PageFollows ==
    ASSUME NEW s
    PROVE  /\ PageOf(s) \in {"guest", "app"}
           /\ PageOf(s) = "app" => s # NoSession
           /\ PageOf(NoSession) = "guest"
BY DEF PageOf, Authenticated

LEMMA NoSessionTyped == NoSession \in Sessions
BY DEF Sessions

\* What was sent stays good at the login, and when a session begins.
LEMMA GoodAtLogin ==
    ASSUME NEW r, NEW time, NEW p, NEW s, Sound(r, time, p, s), NEW t
    PROVE  Sound(r, time, "guest", t)
BY DEF Sound, AskedInTime, Outdated

LEMMA GoodInNewSession ==
    ASSUME NEW r, NEW time, NEW p, NEW q, NEW s, NEW t, Sound(r, time, p, s), time = Received(t)
    PROVE  Sound(r, time, q, t)
BY DEF Sound, AskedInTime, Outdated

LEMMA StoreEmptied ==
    ASSUME SetStore(NoSession)
    PROVE  session' = NoSession /\ stored' = NoSession /\ page' = "guest"
BY PageFollows DEF SetStore

-----------------------------------------------------------------------------
(* The steps.                                                              *)

LEMMA InitSession == SessionInit => SessionInv
BY SessionAssumption, NoSessionTyped
   DEF SessionInit, SessionInv, SessionTypes, AppHasSession, AnySend

\* What is added to the requests is good, and the others were.
LEMMA NewSend ==
    ASSUME SessionInv, NEW kind \in {"enter", "data"}, NEW token \in Sessions, Sent(kind, token),
           now' = now, session' \in Sessions, stored' \in Sessions, page' \in {"guest", "app"},
           page' = "app" => session' # NoSession,
           page' = "guest" \/ (page' = page /\ session' = session),
           token # NoSession => now < token.until - Skew,
           kind = "data" /\ token = NoSession => page' = "guest"
    PROVE  SessionInv'
<1> DEFINE r == [kind |-> kind, token |-> token, at |-> now, checked |-> 0,
                 reply |-> "none", phase |-> "sent", mounted |-> TRUE]
<1>1. r \in AnySend /\ sends' = Append(sends, r)
    BY SessionAssumption DEF SessionInv, SessionTypes, AnySend, Sent
<1>2. SessionTypes' /\ AppHasSession'
    <2>1. sends' \in Seq(AnySend)
        BY <1>1 DEF SessionInv, SessionTypes
    <2> QED
        BY <2>1 DEF SessionInv, SessionTypes, AppHasSession
<1>3. ASSUME NEW n \in DOMAIN sends PROVE Sound(sends[n], now, page', session')
    <2>1. Sound(sends[n], now, page, session)
        BY DEF SessionInv
    <2> QED
        BY <2>1, GoodAtLogin
<1>4. Sound(r, now, page', session')
    <2>1. SentInTime(r) /\ RefusedLate(r)
        BY DEF SentInTime, RefusedLate
    <2>2. AskedInTime(r, now) /\ Outdated(r, page', session')
        BY DEF AskedInTime, Outdated, SessionInv, SessionTypes
    <2> QED
        BY <2>1, <2>2 DEF Sound
<1>5. ASSUME NEW n \in DOMAIN sends' PROVE Sound(sends'[n], now', page', session')
    <2>1. (n \in DOMAIN sends /\ sends'[n] = sends[n]) \/ sends'[n] = r
        BY <1>1 DEF SessionInv, SessionTypes
    <2> QED
        BY <2>1, <1>3, <1>4
<1> QED
    BY <1>2, <1>5 DEF SessionInv

LEMMA EnterKeeps == SessionInv /\ Enter => SessionInv'
BY NewSend, NoSessionTyped DEF Enter, SessionInv, SessionTypes, AppHasSession

LEMMA AskKeeps == SessionInv /\ Ask => SessionInv'
<1> SUFFICES ASSUME SessionInv, Ask PROVE SessionInv'
    OBVIOUS
<1>1. page = "app" /\ session \in Sessions /\ session # NoSession /\ now' = now
    BY DEF Ask, SessionInv, SessionTypes, AppHasSession
<1>2. CASE Authenticated(session)
    <2>1. Sent("data", session) /\ session' = session /\ stored' = stored /\ page' = page
        BY <1>2 DEF Ask, CurrentToken
    <2>2. now < session.until - Skew
        BY <1>2 DEF Authenticated
    <2> QED
        BY <1>1, <2>1, <2>2, NewSend DEF SessionInv, SessionTypes
<1>3. CASE ~Authenticated(session)
    <2>1. Sent("data", NoSession) /\ SetStore(NoSession)
        BY <1>1, <1>3 DEF Ask, CurrentToken
    <2>2. session' = NoSession /\ stored' = NoSession /\ page' = "guest"
        BY <2>1, StoreEmptied
    <2> QED
        BY <1>1, <2>1, <2>2, NewSend, NoSessionTyped
<1> QED
    BY <1>2, <1>3

LEMMA SwitchFormKeeps == SessionInv /\ SwitchForm => SessionInv'
<1> SUFFICES ASSUME SessionInv, SwitchForm PROVE SessionInv'
    OBVIOUS
<1>1. /\ sends' = [n \in DOMAIN sends |-> [sends[n] EXCEPT !.mounted = FALSE]]
      /\ UNCHANGED <<now, session, stored, page>> /\ sends \in Seq(AnySend)
    BY DEF SwitchForm, SessionInv, SessionTypes
<1>2. ASSUME NEW n \in DOMAIN sends
      PROVE  sends'[n] \in AnySend /\ Sound(sends'[n], now, page, session)
    <2>1. sends[n] \in AnySend /\ Sound(sends[n], now, page, session)
        BY <1>1 DEF SessionInv
    <2> QED
        BY <1>1, <2>1 DEF AnySend, Sound, SentInTime, RefusedLate, AskedInTime, Outdated
<1>3. sends' \in Seq(AnySend) /\ DOMAIN sends' = DOMAIN sends
    BY <1>1, <1>2
<1> QED
    BY <1>1, <1>2, <1>3 DEF SessionInv, SessionTypes, AppHasSession

LEMMA LogoutKeeps == SessionInv /\ Logout => SessionInv'
<1> SUFFICES ASSUME SessionInv, Logout PROVE SessionInv'
    OBVIOUS
<1>1. session' = NoSession /\ stored' = NoSession /\ page' = "guest" /\ UNCHANGED <<now, sends>>
    BY StoreEmptied DEF Logout
<1> QED
    BY <1>1, NoSessionTyped, GoodAtLogin DEF SessionInv, SessionTypes, AppHasSession

\* A change of page from behind the login leads to it, or the session stands.
LEMMA NavigateKeeps == SessionInv /\ Navigate => SessionInv'
<1> SUFFICES ASSUME SessionInv, Navigate PROVE SessionInv'
    OBVIOUS
<1>1. page = "app" /\ page' = PageOf(session) /\ UNCHANGED <<now, session, stored, sends>>
    BY DEF Navigate
<1>2. page' = "guest" \/ page' = page
    BY <1>1, PageFollows
<1> QED
    BY <1>1, <1>2, GoodAtLogin DEF SessionInv, SessionTypes, AppHasSession

LEMMA ReloadKeeps == SessionInv /\ Reload => SessionInv'
<1> SUFFICES ASSUME SessionInv, Reload PROVE SessionInv'
    OBVIOUS
<1>1. sends' = << >> /\ now' = now
    BY DEF Reload
<1>2. CASE Authenticated(stored)
    BY <1>1, <1>2 DEF Reload, SessionInv, SessionTypes, AppHasSession, Authenticated
<1>3. CASE ~Authenticated(stored)
    <2>1. session' = NoSession /\ stored' = NoSession /\ page' = "guest"
        BY <1>3, StoreEmptied DEF Reload
    <2> QED
        BY <1>1, <2>1, NoSessionTyped DEF SessionInv, SessionTypes, AppHasSession
<1> QED
    BY <1>2, <1>3

LEMMA OtherTabKeeps == SessionInv /\ OtherTab => SessionInv'
<1> SUFFICES ASSUME SessionInv, OtherTab PROVE SessionInv'
    OBVIOUS
<1>1. stored' \in Sessions
    BY SessionAssumption, NoSessionTyped DEF OtherTab, Sessions, SessionInv, SessionTypes
<1> QED
    BY <1>1 DEF OtherTab, SessionInv, SessionTypes, AppHasSession

LEMMA TickKeeps == SessionInv /\ Tick => SessionInv'
<1> SUFFICES ASSUME SessionInv, Tick PROVE SessionInv'
    OBVIOUS
<1>1. now' \in 0 .. MaxTime /\ now <= now' /\ UNCHANGED <<session, stored, page, sends>>
    BY SessionAssumption DEF Tick, SessionInv, SessionTypes
<1>2. ASSUME NEW n \in DOMAIN sends PROVE Sound(sends[n], now', page, session)
    <2>1. sends[n] \in AnySend /\ Sound(sends[n], now, page, session)
        BY DEF SessionInv, SessionTypes
    <2> QED
        BY <1>1, <2>1, SessionAssumption DEF SessionInv, SessionTypes, AnySend, Sound, AskedInTime
<1> QED
    BY <1>1, <1>2 DEF SessionInv, SessionTypes, AppHasSession

\* A token is refused by the time of its issue.
LEMMA CheckKeeps ==
    ASSUME SessionInv, NEW n \in DOMAIN sends, Check(n)
    PROVE  SessionInv'
<1> DEFINE r == sends[n]
<1>1. /\ r \in AnySend /\ r.phase = "sent" /\ Sound(r, now, page, session) /\ sends \in Seq(AnySend)
      /\ UNCHANGED <<now, session, stored, page>>
    BY DEF Check, SessionInv, SessionTypes
<1>2. PICK reply \in {"ok", "401", "refused"} :
        /\ sends' = [sends EXCEPT ![n].phase = "checked", ![n].checked = now, ![n].reply = reply]
        /\ reply = "401" => r.kind = "data" /\ ~TokenAccepted(r.token)
    BY DEF Check
<1> DEFINE q == [r EXCEPT !.phase = "checked", !.checked = now, !.reply = reply]
<1>3. sends' = [sends EXCEPT ![n] = q]
    BY <1>1, <1>2
<1>4. q \in AnySend
    BY <1>1 DEF AnySend, SessionInv, SessionTypes
<1>5. q.token = r.token /\ q.at = r.at /\ q.kind = r.kind /\ q.checked = now /\ q.reply = reply
      /\ q.phase = "checked"
    BY <1>1 DEF AnySend
<1>6. Sound(q, now, page, session)
    <2>1. SentInTime(q) /\ AskedInTime(q, now) /\ Outdated(q, page, session)
        BY <1>1, <1>2, <1>5 DEF Sound, SentInTime, AskedInTime, Outdated
    <2>2. RefusedLate(q)
        <3>1. ASSUME reply = "401", r.token # NoSession
              PROVE  r.token.issued + TTL + Leeway < now
            <4>1. r.token.issued \in Int
                BY <1>1, SessionFields DEF AnySend
            <4> QED
                BY <1>2, <3>1, <4>1, SessionAssumption DEF TokenAccepted, SessionInv, SessionTypes
        <3> QED
            BY <1>5, <3>1 DEF RefusedLate
    <2> QED
        BY <2>1, <2>2 DEF Sound
<1> HIDE DEF q
<1>7. sends' \in Seq(AnySend) /\ DOMAIN sends' = DOMAIN sends
    BY <1>1, <1>3, <1>4
<1>8. ASSUME NEW m \in DOMAIN sends PROVE Sound(sends'[m], now, page, session)
    BY <1>1, <1>3, <1>6 DEF SessionInv
<1> QED
    BY <1>1, <1>7, <1>8 DEF SessionInv, SessionTypes, AppHasSession

\* Whatever becomes of the answer, the requests that are left are good if they
\* were, and if the store says so.
LEMMA RemovalKeeps ==
    ASSUME SessionInv, NEW n \in DOMAIN sends, sends' = RemoveAt(sends, n), now' = now,
           SessionTypes', AppHasSession',
           \A r \in AnySend : Sound(r, now, page, session) => Sound(r, now, page', session')
    PROVE  SessionInv'
<1>1. sends \in Seq(AnySend)
    BY DEF SessionInv, SessionTypes
<1>2. \A m \in DOMAIN sends' : \E k \in DOMAIN sends : sends'[m] = sends[k]
    BY <1>1, Removed
<1>3. ASSUME NEW m \in DOMAIN sends' PROVE Sound(sends'[m], now', page', session')
    <2>1. PICK k \in DOMAIN sends : sends'[m] = sends[k]
        BY <1>2
    <2>2. sends[k] \in AnySend /\ Sound(sends[k], now, page, session)
        BY <1>1 DEF SessionInv
    <2> QED
        BY <2>1, <2>2
<1> QED
    BY <1>3 DEF SessionInv

LEMMA NoAnswerKeeps ==
    ASSUME SessionInv, NEW n \in DOMAIN sends, NoAnswer(n)
    PROVE  SessionInv'
<1>1. /\ sends' = RemoveAt(sends, n) /\ sends \in Seq(AnySend)
      /\ UNCHANGED <<now, session, stored, page>>
    BY DEF NoAnswer, SessionInv, SessionTypes
<1>2. sends' \in Seq(AnySend)
    BY <1>1, Removed
<1>3. SessionTypes' /\ AppHasSession'
    BY <1>1, <1>2 DEF SessionInv, SessionTypes, AppHasSession
<1> QED
    BY <1>1, <1>3, RemovalKeeps

\* A refusal is told: the store is empty, or the request had no token.
LEMMA RefusalKeeps ==
    ASSUME SessionInv, NEW n \in DOMAIN sends, AnswerIn(n), sends[n].reply = "401"
    PROVE  SessionInv'
<1> DEFINE r == sends[n]
           q == [r EXCEPT !.phase = "told"]
<1>1. /\ r \in AnySend /\ Sound(r, now, page, session) /\ sends \in Seq(AnySend)
      /\ sends' = [sends EXCEPT ![n] = q] /\ now' = now
    BY DEF AnswerIn, Told, SessionInv, SessionTypes
<1>2. q \in AnySend /\ q.token = r.token /\ q.at = r.at /\ q.kind = r.kind /\ q.checked = r.checked
      /\ q.reply = r.reply /\ q.phase = "told"
    BY <1>1 DEF AnySend
<1>3. SentInTime(q) /\ RefusedLate(q) /\ AskedInTime(q, now)
    BY <1>1, <1>2 DEF Sound, SentInTime, RefusedLate, AskedInTime
<1> HIDE DEF q
<1>4. sends' \in Seq(AnySend) /\ DOMAIN sends' = DOMAIN sends
    BY <1>1, <1>2
<1>5. CASE r.token # NoSession
    <2>1. SetStore(NoSession)
        BY <1>5 DEF AnswerIn
    <2>2. session' = NoSession /\ stored' = NoSession /\ page' = "guest"
        BY <2>1, StoreEmptied
    <2>3. Sound(q, now, "guest", NoSession)
        BY <1>3 DEF Sound, Outdated
    <2>4. ASSUME NEW m \in DOMAIN sends PROVE Sound(sends'[m], now, "guest", NoSession)
        <3>1. Sound(sends[m], now, "guest", NoSession)
            BY GoodAtLogin DEF SessionInv
        <3> QED
            BY <1>1, <2>3, <3>1
    <2> QED
        BY <1>1, <1>4, <2>2, <2>4, NoSessionTyped DEF SessionInv, SessionTypes, AppHasSession
<1>6. CASE r.token = NoSession
    <2>1. UNCHANGED <<session, stored, page>>
        BY <1>6 DEF AnswerIn
    <2>2. Sound(q, now, page, session)
        BY <1>1, <1>2, <1>3, <1>6 DEF Sound, AskedInTime, Outdated
    <2>3. ASSUME NEW m \in DOMAIN sends PROVE Sound(sends'[m], now, page, session)
        BY <1>1, <2>2 DEF SessionInv
    <2> QED
        BY <1>1, <1>4, <2>1, <2>3 DEF SessionInv, SessionTypes, AppHasSession
<1> QED
    BY <1>5, <1>6

LEMMA AnswerKeeps ==
    ASSUME SessionInv, NEW n \in DOMAIN sends, AnswerIn(n), sends[n].reply # "401"
    PROVE  SessionInv'
<1> DEFINE r == sends[n]
           begun == [issued |-> r.checked, until |-> now + TTL]
<1>1. r \in AnySend /\ sends \in Seq(AnySend) /\ sends' = RemoveAt(sends, n) /\ now' = now
    BY DEF AnswerIn, Told, SessionInv, SessionTypes
<1>2. sends' \in Seq(AnySend)
    BY <1>1, Removed
<1>3. CASE r.kind = "enter" /\ r.reply = "ok"
    <2>1. session' = begun /\ stored' = begun /\ page' = PageOf(begun)
        BY <1>3 DEF AnswerIn, SetStore
    <2>2. begun \in Sessions
        BY <1>1, SessionAssumption DEF Sessions, AnySend, SessionInv, SessionTypes
    <2>3. Received(begun) = now
        BY SessionAssumption DEF Received, SessionInv, SessionTypes
    <2>4. SessionTypes' /\ AppHasSession'
        BY <1>1, <1>2, <2>1, <2>2, PageFollows DEF SessionInv, SessionTypes, AppHasSession
    <2> HIDE DEF begun
    <2>5. ASSUME NEW x \in AnySend, Sound(x, now, page, session)
          PROVE  Sound(x, now, page', session')
        BY <2>1, <2>3, <2>5, GoodInNewSession
    <2> QED
        BY <1>1, <2>4, <2>5, RemovalKeeps
<1>4. CASE ~(r.kind = "enter" /\ r.reply = "ok")
    <2>1. UNCHANGED <<session, stored, page>>
        BY <1>4 DEF AnswerIn
    <2>2. SessionTypes' /\ AppHasSession'
        BY <1>1, <1>2, <2>1 DEF SessionInv, SessionTypes, AppHasSession
    <2> QED
        BY <1>1, <2>1, <2>2, RemovalKeeps
<1> QED
    BY <1>3, <1>4

LEMMA SessionKeeps == SessionInv /\ [SessionNext]_sessionVars => SessionInv'
<1> SUFFICES ASSUME SessionInv, [SessionNext]_sessionVars PROVE SessionInv'
    OBVIOUS
<1>1. CASE Enter
    BY <1>1, EnterKeeps
<1>2. CASE SwitchForm
    BY <1>2, SwitchFormKeeps
<1>3. CASE Ask
    BY <1>3, AskKeeps
<1>4. CASE Logout
    BY <1>4, LogoutKeeps
<1>5. CASE Navigate
    BY <1>5, NavigateKeeps
<1>6. CASE Reload
    BY <1>6, ReloadKeeps
<1>7. CASE OtherTab
    BY <1>7, OtherTabKeeps
<1>8. CASE Tick
    BY <1>8, TickKeeps
<1>9. ASSUME NEW n \in DOMAIN sends, Check(n) PROVE SessionInv'
    BY <1>9, CheckKeeps
<1>10. ASSUME NEW n \in DOMAIN sends, AnswerIn(n) PROVE SessionInv'
    BY <1>10, RefusalKeeps, AnswerKeeps
<1>11. ASSUME NEW n \in DOMAIN sends, NoAnswer(n) PROVE SessionInv'
    BY <1>11, NoAnswerKeeps
<1>12. CASE UNCHANGED sessionVars
    BY <1>12 DEF sessionVars, SessionInv, SessionTypes, AppHasSession
<1> QED
    BY <1>1, <1>2, <1>3, <1>4, <1>5, <1>6, <1>7, <1>8, <1>9, <1>10, <1>11, <1>12 DEF SessionNext

THEOREM SessionInvariant == SessionSpec => []SessionInv
BY InitSession, SessionKeeps, PTL DEF SessionSpec

-----------------------------------------------------------------------------
(* What follows from the invariant.                                        *)

\* Every variable of a session has the type it is meant to have.
THEOREM SessionTypeCorrect == SessionSpec => []SessionTypeOK
<1>1. ASSUME SessionInv PROVE SessionTypeOK
    <2>1. \A n \in DOMAIN sends : sends[n] \in AnySend
        BY <1>1 DEF SessionInv, SessionTypes
    <2>2. now \in 0 .. MaxTime /\ {session, stored} \subseteq Sessions /\ page \in {"guest", "app"}
        BY <1>1 DEF SessionInv, SessionTypes
    <2> QED
        BY <2>1, <2>2 DEF SessionTypeOK, AnySend
<1> QED
    BY <1>1, SessionInvariant, PTL

\* The margin of the tab and the leeway of the API make up for any delay up to
\* their sum: with any lifetime of the tokens, a token that the tab has sent is
\* refused only if its arrival and its request took longer (SKEW_MS, leeway).
THEOREM NobodyIsLoggedOutInTime == SessionSpec => []RefusedOnlyWhenSlow
<1>1. ASSUME SessionInv PROVE RefusedOnlyWhenSlow
    <2>1. SUFFICES ASSUME NEW n \in DOMAIN sends,
                          sends[n].reply = "401", sends[n].token # NoSession
                   PROVE  Received(sends[n].token) - sends[n].token.issued
                             + sends[n].checked - sends[n].at > Skew + Leeway
        BY DEF RefusedOnlyWhenSlow
    <2>2. sends[n] \in AnySend /\ Sound(sends[n], now, page, session)
        BY <1>1 DEF SessionInv, SessionTypes
    <2>3. sends[n].at < sends[n].token.until - Skew
        BY <2>1, <2>2 DEF Sound, SentInTime
    <2>4. sends[n].token.issued + TTL + Leeway < sends[n].checked
        BY <2>1, <2>2 DEF Sound, RefusedLate
    <2>5. /\ sends[n].at \in Int /\ sends[n].checked \in Int
          /\ sends[n].token.issued \in Int /\ sends[n].token.until \in Int
        BY <2>2, SessionFields DEF AnySend
    <2> QED
        BY <2>3, <2>4, <2>5, SessionAssumption DEF Received
<1> QED
    BY <1>1, SessionInvariant, PTL

\* Once a refusal has been told, the tab stays at the login until a session has
\* begun after the request was made.
THEOREM RefusedSeesLogin == SessionSpec => []RefusedIsGuest
<1>1. ASSUME SessionInv PROVE RefusedIsGuest
    <2>1. SUFFICES ASSUME NEW n \in DOMAIN sends, sends[n].reply = "401", sends[n].phase = "told"
                   PROVE  page = "guest" \/ Received(session) >= sends[n].at
        BY DEF RefusedIsGuest
    <2>2. sends[n] \in AnySend /\ session \in Sessions /\ Sound(sends[n], now, page, session)
        BY <1>1 DEF SessionInv, SessionTypes
    <2>3. page = "guest" \/ sends[n].at <= Received(session)
        BY <2>1, <2>2 DEF Sound, AskedInTime, Outdated
    <2> QED
        BY <2>2, <2>3, SessionFields, SessionAssumption DEF Received, AnySend
<1> QED
    BY <1>1, SessionInvariant, PTL

-----------------------------------------------------------------------------
(* The tab: its four parts, of which MCWebTab runs one at a time.          *)

\* Each part of the tab behaves as its own specification allows.
THEOREM TabIsItsPages ==
    MCSpec => ImportSpec /\ SessionSpec /\ DialogSpec /\ SelectionSpec
  <1>1. MCInit => ImportInit /\ SessionInit /\ DialogInit /\ SelectionInit
    BY DEF MCInit
  <1>2. [MCNext]_tabVars => /\ [ImportNext]_importVars /\ [SessionNext]_sessionVars
                            /\ [DialogNext]_dialogVars /\ [SelectionNext]_selectionVars
    BY DEF MCNext, tabVars
  <1>. QED  BY <1>1, <1>2, PTL DEF MCSpec, ImportSpec, SessionSpec, DialogSpec, SelectionSpec

\* What the import page, the session, the dialogs and the views of a tab keep is
\* always of its type.
THEOREM TabTypeCorrect == MCSpec => []TypeOK
  <1>1. ImportTypeOK /\ SessionTypeOK /\ DialogTypeOK /\ SelectionTypeOK => TypeOK
    BY DEF TypeOK
  <1>. QED  BY <1>1, TabIsItsPages, ImportTypeCorrect, SessionTypeCorrect, DialogTypeCorrect,
               SelectionTypeCorrect, PTL
=============================================================================
