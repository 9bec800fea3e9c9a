------------------------------ MODULE MCWebTab ------------------------------
(***************************************************************************)
(* One of four parts of a browser tab; the others keep their first values. *)
(*                                                                         *)
(* "import": two rows, and texts with a row that is refused, a row that is *)
(* repeated, an empty line and a line of spaces.  "session": a token of    *)
(* three steps that is no longer sent two steps before its end and taken   *)
(* one step after it.  "dialogs": on each of the three pages two rows, two *)
(* forms and two requests.  "selections": on each of the five views two    *)
(* options and three choices.                                              *)
(***************************************************************************)
EXTENDS ImportPage, Session, Dialogs, Selections

VARIABLE subject

tabVars == <<subject, importVars, sessionVars, dialogVars, selectionVars>>

SomeTexts == {<<"a">>, <<"a", "blank", "b">>, <<"blank", "bad", "a", "a">>, <<"space", "b">>}
AllBad == <<"bad", "bad", "bad", "bad">>

MCInit ==
    /\ subject \in {"import", "session", "dialogs", "selections"}
    /\ ImportInit /\ SessionInit
    /\ DialogInit /\ (subject # "dialogs" => screen = "accounts")
    /\ SelectionInit /\ (subject # "selections" => view = "holdings")

MCNext ==
    /\ UNCHANGED subject
    /\ IF subject = "import" THEN ImportNext ELSE UNCHANGED importVars
    /\ IF subject = "session" THEN SessionNext ELSE UNCHANGED sessionVars
    /\ IF subject = "dialogs" THEN DialogNext ELSE UNCHANGED dialogVars
    /\ IF subject = "selections" THEN SelectionNext ELSE UNCHANGED selectionVars

MCSpec == MCInit /\ [][MCNext]_tabVars

\* Every part of the tab has the type it is meant to have.
TypeOK == ImportTypeOK /\ SessionTypeOK /\ DialogTypeOK /\ SelectionTypeOK
=============================================================================
