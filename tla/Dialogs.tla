------------------------------ MODULE Dialogs ------------------------------
(***************************************************************************)
(* The dialogs of the three pages that change things: accounts, assets     *)
(* with their prices, and transactions.  The page's list may be old, other *)
(* tabs change the same rows, and a dialog can be closed, opened again, or *)
(* lost with its page while its request is under way.                      *)
(*                                                                         *)
(* A text is what is left of it after trim().  A row of the database is    *)
(* never reused: one that is deleted stays in its place.                   *)
(***************************************************************************)
EXTENDS Integers, SequencesExt

CONSTANTS Text,         \* what is typed; the empty one is ""
          Names,        \* what the rows are called at first
          MaxForms,     \* bound: how often a dialog is opened
          MaxSent,      \* bound: the requests
          MaxSteps      \* bound: what is typed, changed by other tabs, or cannot be read

ASSUME DialogAssumption == Cardinality(Names) = 2 /\ "" \in Text \ Names

VARIABLES
    screen,     \* the page: "accounts", "assets" or "transactions"
    rows,       \* the rows in the database
    list,       \* the rows as the page has them
    broken,     \* whether the list failed: the page shows that, and no dialog
    mounts,     \* how often the page has thrown away its dialogs
    dialog,     \* the dialog that is open
    form,       \* the form of the dialog that is open, or was open last
    sent,       \* the requests
    opened, typing, trouble

dialogVars == <<screen, rows, list, broken, mounts, dialog, form, sent, opened, typing, trouble>>

AccountsPage == {"createAccount", "editAccount", "deleteAccount"}
AssetsPage == {"createAsset", "editAsset", "price"}
TransactionsPage == {"createTransaction", "deleteTransaction"}

\* The dialogs of a page.
Dialogs(p) ==
    CASE p = "accounts" -> AccountsPage [] p = "assets" -> AssetsPage [] OTHER -> TransactionsPage

Creating == {"createAccount", "createAsset", "createTransaction"}
Editing == {"editAccount", "editAsset"}
Deleting == {"deleteAccount", "deleteTransaction"}

\* Mutant: the dialogs of assets and transactions are kept as those of accounts.
KeyedNever == {}

\* These are mounted when they are opened and thrown away when they are closed;
\* the others stay, and are only shown and hidden.
Keyed == {"editAsset", "price", "deleteTransaction"}

-----------------------------------------------------------------------------
(* What the forms begin with, what they offer, and what they send.         *)

CreateAccountInitial == [name |-> "", type |-> "tokutei", withholding |-> "yes", institution |-> ""]
CreateAssetInitial == [symbol |-> "", name |-> "", unit |-> ""]
CreateTransactionInitial == [account |-> "first", quantity |-> "", note |-> ""]
PriceInitial == [date |-> "today", price |-> ""]
toFormValues(a) == [name |-> a.name, institution |-> a.institution, withholding |-> a.withholding]
EditAssetInitial(a) == [symbol |-> a.symbol, name |-> a.name, unit |-> a.unit]

\* `a` is the row that the dialog is opened for.
Initial(kind, a) ==
    CASE kind = "createAccount" -> CreateAccountInitial
      [] kind = "createAsset" -> CreateAssetInitial
      [] kind = "createTransaction" -> CreateTransactionInitial
      [] kind = "price" -> PriceInitial
      [] kind = "editAccount" -> toFormValues(a)
      [] kind = "editAsset" -> EditAssetInitial(a)
      [] OTHER -> << >>

Withholding(type) == IF type = "tokutei" THEN {"withholding"} \X {"yes", "no"} ELSE {}
Unit == {"", "01", "10000"}

\* The inputs, each with the values it can be given.  A quantity stands for every
\* text that must be given, a note for those that need not.
CreateAccountForm(v) ==
    ({"name", "institution"} \X Text) \cup ({"type"} \X {"tokutei", "ippan"}) \cup Withholding(v.type)
EditAccountForm(a) == ({"name", "institution"} \X Text) \cup Withholding(a.type)
CreateAssetForm == ({"symbol", "name"} \X Text) \cup ({"unit"} \X Unit)
EditAssetForm == ({"symbol", "name"} \X Text) \cup ({"unit"} \X Unit)
CreateTransactionForm == ({"account"} \X {"first", "other"}) \cup ({"quantity", "note"} \X Text)
PriceForm == ({"date"} \X {"", "today"}) \cup ({"price"} \X Text)

Inputs(kind, a, v) ==
    CASE kind = "createAccount" -> CreateAccountForm(v)
      [] kind = "editAccount" -> EditAccountForm(a)
      [] kind = "createAsset" -> CreateAssetForm
      [] kind = "editAsset" -> EditAssetForm
      [] kind = "createTransaction" -> CreateTransactionForm
      [] kind = "price" -> PriceForm
      [] OTHER -> {}

Number(unit) == IF unit = "01" THEN "1" ELSE unit

\* Only those of the values `v` whose field is in `fields`.
Sending(fields, v) == [f \in fields |-> v[f]]

CreateAccountBody(v) == [v EXCEPT !.withholding = IF v.type = "tokutei" THEN @ ELSE "null"]

\* Without a unit the database takes the one of the asset's class.
CreateAssetBody(v) == Sending({f \in DOMAIN v : f = "unit" => v.unit # ""}, v)
CreateTransactionBody(v) == Sending({f \in DOMAIN v : f = "note" => v.note # ""}, v)

AccountPatch(a, v) ==
    Sending({f \in DOMAIN v : v[f] # a[f] /\ (f = "name" => v.name # "")
                              /\ (f = "withholding" => a.type = "tokutei" /\ v[f] # "null")}, v)
AssetPatch(a, v) ==
    Sending({f \in DOMAIN v : v[f] # "" /\ Number(v[f]) # Number(a[f])}, v)

Body(kind, a, v) ==
    CASE kind = "createAccount" -> CreateAccountBody(v)
      [] kind = "editAccount" -> AccountPatch(a, v)
      [] kind = "createAsset" -> CreateAssetBody(v)
      [] kind = "editAsset" -> AssetPatch(a, v)
      [] kind = "createTransaction" -> CreateTransactionBody(v)
      [] OTHER -> v

\* What is not worth a request: a patch without fields, and prices without rows.
Pointless(kind, body) ==
    \/ kind \in Editing /\ DOMAIN body = {}
    \/ kind = "price" /\ body.date = "" /\ body.price = ""

-----------------------------------------------------------------------------
NoDialog == [kind |-> "none", row |-> 0, before |-> << >>, number |-> 0]
NoError == [of |-> 0, blocked |-> FALSE]
Blank(kind, values) ==
    [of |-> kind, values |-> values, typed |-> {}, error |-> NoError, notice |-> "none"]

FirstRows(p) ==
    LET a == CHOOSE x \in Names : TRUE
        b == CHOOSE x \in Names : x # a
        account(name, type) ==
            [name |-> name, type |-> type, institution |-> IF type = "tokutei" THEN "" ELSE a,
             withholding |-> IF type = "tokutei" THEN "yes" ELSE "null"]
    IN  CASE p = "accounts" -> <<account(a, "tokutei"), account(b, "ippan")>>
          [] p = "assets" -> <<[symbol |-> a, name |-> a, unit |-> "1"], [symbol |-> b, name |-> b, unit |-> "1"]>>
          [] p = "transactions" -> <<[account |-> "first", quantity |-> a, note |-> ""],
                                     [account |-> "first", quantity |-> b, note |-> ""]>>

There(has) == [has |-> has, gone |-> FALSE]

DialogInit ==
    /\ screen \in {"accounts", "assets", "transactions"}
    /\ rows = [n \in 1 .. 2 |-> There(FirstRows(screen)[n])] /\ list = rows
    /\ broken = FALSE /\ mounts = 0 /\ dialog = NoDialog /\ sent = << >>
    /\ form = Blank("none", << >>)
    /\ opened = 0 /\ typing = 0 /\ trouble = 0

IsOpen == dialog # NoDialog /\ ~broken

\* The instance of a dialog: its hooks, and where setError goes.
Instance(kind) == IF kind \in Keyed THEN dialog.number ELSE mounts
Alive(n) ==
    IF sent[n].kind \in Keyed THEN dialog.kind = sent[n].kind /\ dialog.number = sent[n].instance
    ELSE mounts = sent[n].instance

DialogWaits(kind) == \E n \in DOMAIN sent : sent[n].kind = kind /\ sent[n].client # "ended" /\ Alive(n)

\* The effect, or the mounting, that begins a form.  Whatever a hidden dialog has
\* kept is overwritten, so that only the last form is remembered.
Opened(kind, a) == Blank(kind, Initial(kind, a))

\* Buttons of the page, or of a row of its list.
Open(kind, row) ==
    /\ ~broken /\ dialog = NoDialog /\ opened < MaxForms
    /\ IF kind \in Creating THEN row = 0 ELSE row \in DOMAIN list /\ ~list[row].gone
    /\ LET a == IF row = 0 THEN << >> ELSE list[row].has
       IN  /\ dialog' = [kind |-> kind, row |-> row, before |-> a, number |-> opened + trouble + 1]
           /\ form' = Opened(kind, a)
    /\ opened' = opened + 1
    /\ UNCHANGED <<screen, rows, list, broken, mounts, sent, typing, trouble>>

\* The inputs are never disabled.
Type(input) ==
    /\ IsOpen /\ typing + trouble < MaxSteps /\ typing' = typing + 1
    /\ form.values[input[1]] # input[2]
    /\ form' = [form EXCEPT !.values[input[1]] = input[2], !.typed = @ \cup {input[1]}]
    /\ UNCHANGED <<screen, rows, list, broken, mounts, dialog, sent, opened, trouble>>

\* The button waits for the answer, but Escape does not.
Close ==
    /\ IsOpen
    /\ dialog' = NoDialog
    /\ form' = IF dialog.kind \in Keyed THEN Blank("none", << >>) ELSE form
    /\ UNCHANGED <<screen, rows, list, broken, mounts, sent, opened, typing, trouble>>

\* Mutant: the button does not wait.
ReadyAlways == IsOpen /\ ~form.error.blocked

\* A deletion that was blocked is not offered again.
Ready == IsOpen /\ ~DialogWaits(dialog.kind) /\ ~form.error.blocked

\* Mutant: the values are compared with the row as it is listed by now.
BeforeOfList == IF dialog.row = 0 THEN << >> ELSE list[dialog.row].has

Before == dialog.before

Submit ==
    /\ Ready /\ Len(sent) < MaxSent
    /\ LET kind == dialog.kind
           body == Body(kind, Before, form.values)
           clear == [form EXCEPT !.error = NoError, !.notice = "none"]
       IN  IF Pointless(kind, body)
           THEN /\ form' = IF kind = "price" THEN [clear EXCEPT !.error.of = dialog.number]
                           ELSE [clear EXCEPT !.notice = "no change"]
                /\ UNCHANGED sent
           ELSE /\ form' = clear
                /\ sent' = Append(sent, [kind |-> kind, of |-> dialog.number, instance |-> Instance(kind),
                        row |-> dialog.row, body |-> body, typed |-> form.typed,
                        reply |-> "none", client |-> "waiting", lost |-> FALSE])
    /\ UNCHANGED <<screen, rows, list, broken, mounts, dialog, opened, typing, trouble>>

-----------------------------------------------------------------------------
(* The database.                                                           *)

\* The field that is never blank, and that only one row has.
Key == [accounts |-> "name", assets |-> "symbol", transactions |-> "quantity"]

Accepts(n, has) ==
    /\ has[Key[screen]] # ""
    /\ screen # "transactions" =>
        \A m \in DOMAIN rows \ {n} : rows[m].gone \/ rows[m].has[Key[screen]] # has[Key[screen]]
    /\ screen = "assets" => has.name # ""

Stored(body) == [f \in DOMAIN body |-> IF f = "unit" THEN Number(body[f]) ELSE body[f]]
NewAsset(body) == [symbol |-> body.symbol, name |-> body.name,
                        unit |-> IF "unit" \in DOMAIN body THEN body.unit ELSE "1"]
NewTransaction(body) == [account |-> body.account, quantity |-> body.quantity,
                              note |-> IF "note" \in DOMAIN body THEN body.note ELSE ""]
NewRow(kind, body) ==
    CASE kind = "createAsset" -> Stored(NewAsset(body))
      [] kind = "createTransaction" -> NewTransaction(body)
      [] OTHER -> body
Updated(has, body) == [f \in DOMAIN has |-> IF f \in DOMAIN body THEN Stored(body)[f] ELSE has[f]]

Over(r) == r.client = "ended" /\ r.reply # "none"

\* Of the requests that are over only what has been created is remembered.
Becomes(n, r) ==
    sent' = IF ~Over(r) THEN [sent EXCEPT ![n] = r]
            ELSE IF r.kind \in Creating /\ r.reply = "ok"
            THEN [sent EXCEPT ![n] = [r EXCEPT !.body = << >>, !.typed = {}]]
            ELSE RemoveAt(sent, n)

Replied(n, reply) == Becomes(n, [sent[n] EXCEPT !.reply = reply])
Ends(n, lost) == Becomes(n, [sent[n] EXCEPT !.client = "ended", !.lost = lost])

Commit(n) ==
    LET r == sent[n]
    IN  /\ r.reply = "none"
        /\ \/ /\ r.kind \in Creating /\ Accepts(0, NewRow(r.kind, r.body))
              /\ rows' = Append(rows, There(NewRow(r.kind, r.body)))
           \/ /\ r.kind \in Editing /\ ~rows[r.row].gone
              /\ Accepts(r.row, Updated(rows[r.row].has, r.body))
              /\ rows' = [rows EXCEPT ![r.row].has = Updated(@, r.body)]
           \/ /\ r.kind \in Deleting /\ ~rows[r.row].gone
              /\ rows' = [rows EXCEPT ![r.row].gone = TRUE]
           \/ /\ r.kind = "price" /\ r.body.date # "" /\ r.body.price # ""
              /\ UNCHANGED rows
        /\ Replied(n, "ok")
        /\ UNCHANGED <<screen, list, broken, mounts, dialog, form, opened, typing, trouble>>

\* An account with trades is not deleted, nor a purchase that was sold from.
Refuse(n) ==
    /\ sent[n].reply = "none"
    /\ \/ Replied(n, "failed")
       \/ sent[n].kind \in Deleting /\ ~rows[sent[n].row].gone /\ Replied(n, "blocked")
    /\ UNCHANGED <<screen, rows, list, broken, mounts, dialog, form, opened, typing, trouble>>

\* Another tab names a row, or deletes it.
Elsewhere(n) ==
    /\ typing + trouble < MaxSteps /\ trouble' = trouble + 1
    /\ ~rows[n].gone
    /\ \/ /\ screen # "transactions"
          /\ \E x \in Text \ {rows[n].has[Key[screen]]} :
                LET has == [rows[n].has EXCEPT ![Key[screen]] = x]
                IN  Accepts(n, has) /\ rows' = [rows EXCEPT ![n].has = has]
       \/ screen # "assets" /\ rows' = [rows EXCEPT ![n].gone = TRUE]
    /\ UNCHANGED <<screen, list, broken, mounts, dialog, form, sent, opened, typing>>

-----------------------------------------------------------------------------
(* What comes of a request.                                                *)

\* setError: in the dialog that sent it, as long as that is mounted.
ShowError(n, blocked) ==
    form' = IF Alive(n) /\ form.of = sent[n].kind
            THEN [form EXCEPT !.error = [of |-> sent[n].of, blocked |-> blocked]] ELSE form

\* A success is followed by a request for the list, which the dialog waits for.
Tell(n) ==
    /\ sent[n].client = "waiting" /\ sent[n].reply # "none"
    /\ IF sent[n].reply = "ok" THEN sent' = [sent EXCEPT ![n].client = "refetching"] /\ UNCHANGED form
       ELSE Ends(n, FALSE) /\ ShowError(n, sent[n].reply = "blocked")
    /\ UNCHANGED <<screen, rows, list, broken, mounts, dialog, opened, typing, trouble>>

LoseAnswer(n) ==
    /\ sent[n].client = "waiting"
    /\ Ends(n, TRUE) /\ ShowError(n, FALSE)
    /\ UNCHANGED <<screen, rows, list, broken, mounts, dialog, opened, typing, trouble>>

Released == [n \in DOMAIN sent |->
    IF sent[n].client = "refetching" THEN [sent[n] EXCEPT !.client = "settling"] ELSE sent[n]]

\* The list is read again: after a success, on return to the tab, on demand.
Refetch ==
    /\ list # rows \/ broken \/ Released # sent
    /\ list' = rows /\ broken' = FALSE /\ sent' = Released
    /\ UNCHANGED <<screen, rows, mounts, dialog, form, opened, typing, trouble>>

\* A dialog that is open when its page shows the failure begins anew afterwards.
RefetchFails ==
    /\ ~broken /\ typing + trouble < MaxSteps /\ trouble' = trouble + 1
    /\ broken' = TRUE /\ mounts' = mounts + 1 /\ sent' = Released
    /\ IF dialog = NoDialog THEN UNCHANGED <<dialog, form>>
       ELSE /\ dialog' = [dialog EXCEPT !.number = opened + trouble + 1]
            /\ form' = Blank(dialog.kind, Initial(dialog.kind, dialog.before))
    /\ UNCHANGED <<screen, rows, list, opened, typing>>

\* onClose() closes the dialog of this kind that is open by now; that of prices
\* stays, and begins a new row.
Settle(n) ==
    /\ sent[n].client = "settling"
    /\ Ends(n, FALSE)
    /\ IF sent[n].kind = "price"
       THEN /\ form' = IF Alive(n) THEN [Blank("price", PriceInitial) EXCEPT !.notice = "saved"] ELSE form
            /\ UNCHANGED dialog
       ELSE /\ dialog' = IF dialog.kind = sent[n].kind THEN NoDialog ELSE dialog
            /\ UNCHANGED form
    /\ UNCHANGED <<screen, rows, list, broken, mounts, opened, typing, trouble>>

DialogNext ==
    \/ \E kind \in Dialogs(screen), row \in {0} \cup DOMAIN list : Open(kind, row)
    \/ IsOpen /\ \E input \in Inputs(dialog.kind, dialog.before, form.values) : Type(input)
    \/ Close \/ Submit \/ Refetch \/ RefetchFails
    \/ \E n \in DOMAIN sent : Commit(n) \/ Refuse(n) \/ Tell(n) \/ LoseAnswer(n) \/ Settle(n)
    \/ \E n \in DOMAIN rows : Elsewhere(n)

DialogSpec == DialogInit /\ [][DialogNext]_dialogVars

-----------------------------------------------------------------------------
DialogTypeOK ==
    /\ screen \in {"accounts", "assets", "transactions"} /\ broken \in BOOLEAN
    /\ dialog = NoDialog \/ (dialog.kind \in Dialogs(screen) /\ dialog.row \in {0} \cup DOMAIN rows)
    /\ Len(list) <= Len(rows)
    /\ form.of \in Dialogs(screen) \cup {"none"} /\ (dialog # NoDialog => form.of = dialog.kind)
    /\ form.error.of \in 0 .. opened + trouble /\ form.notice \in {"none", "no change", "saved"}
    /\ form.typed \subseteq DOMAIN form.values
    /\ \A n \in DOMAIN sent :
        /\ sent[n].reply \in {"none", "ok", "failed", "blocked"}
        /\ sent[n].client \in {"waiting", "refetching", "settling", "ended"}

\* An edit changes fields that the user typed and no other, so that it does not
\* undo what another tab has changed since the list was read
\* (buildAccountPatch, buildAssetPatch, and the effects that begin a form).
PatchIsWhatWasTyped ==
    \A n \in DOMAIN sent : sent[n].kind \in Editing =>
        DOMAIN sent[n].body \subseteq sent[n].typed

\* A dialog that is mounted for its row never shows the error of another one
\* (task-20-assets-transactions-ui.md, 2.5).
ErrorIsOfItsForm ==
    IsOpen /\ dialog.kind \in {"editAsset", "price", "deleteTransaction"} =>
        form.error.of \in {0, dialog.number}

\* One form makes at most one row, unless an answer was lost in between
\* (isPending disables the button, in the next form as well).
OncePerForm ==
    \A n, m \in DOMAIN sent :
        (n # m /\ sent[n].of = sent[m].of /\ {sent[n].kind, sent[m].kind} \subseteq Creating
               /\ sent[n].reply = "ok" /\ sent[m].reply = "ok") => sent[n].lost \/ sent[m].lost
=============================================================================
