------------------------------ MODULE MCOffice ------------------------------
(***************************************************************************)
(* Two parts of the office side, each checked alone in one run: the GST    *)
(* returns and the pages of the web app.  `part` says which one a          *)
(* behaviour is of; the other rests in its first state.                    *)
(***************************************************************************)
EXTENDS GstReturns, Screens, TLC

VARIABLE part

OfficeInit ==
    /\ GstInit /\ ScreensInit
    /\ part \in {"gst", "screens"}
    \* The part that rests begins in one state.
    /\ part # "screens" => who = 1

Filing == part = "gst" /\ GstNext /\ UNCHANGED <<screensVars, part>>
Browsing == part = "screens" /\ ScreensNext /\ UNCHANGED <<gstVars, part>>

OfficeNext == Filing \/ Browsing

---------------------------------------------------------------------------
(* GST: soap and tea are taxed, milk is exempt, petrol is outside GST and has no code.  A buyer's
   bill, one at the threshold and one above it. *)
Line(item, s, r, v, t, c) == [item |-> item, supply |-> s, rate |-> r, value |-> v, tax |-> t, coded |-> c]
Soap == Line("soap", "TAXABLE", 18, 2, 1, TRUE)
Milk == Line("milk", "EXEMPT", 0, 1, 0, TRUE)
Petrol == Line("petrol", "NON_GST", 0, 1, 0, FALSE)
Tea == Line("tea", "TAXABLE", 5, 1, 1, TRUE)
Form(buyer, away, lines) == [buyer |-> buyer, away |-> away, lines |-> lines]
OfficeForms == {Form(TRUE, FALSE, <<Tea, Petrol>>), Form(FALSE, TRUE, <<Tea>>), Form(FALSE, TRUE, <<Soap, Milk>>)}

(* Screens: nobody signed in, admins with a register here, elsewhere and without, and cashiers. *)
EachPermission ==
    <<"MANAGE_STOCK", "MANAGE_ITEMS", "RECORD_PURCHASES", "PAY_SUPPLIERS", "MAKE_RETURNS", "CANCEL_SALES",
      "TOP_UP_WALLETS", "CASH_AND_EXPENSES", "SEND_TRANSFERS">>
OfficeWhos ==
    <<Who(FALSE, FALSE, {}, "none", "managed", FALSE), Who(FALSE, FALSE, {}, "none", "offline", TRUE),
      Who(TRUE, TRUE, {}, "here", "managed", TRUE), Who(TRUE, TRUE, {}, "elsewhere", "self", FALSE),
      Who(TRUE, TRUE, {}, "none", "offline", TRUE),
      Who(TRUE, FALSE, Permissions, "none", "managed", FALSE), Who(TRUE, FALSE, {}, "here", "offline", FALSE)>>
    \o [i \in 1..Len(EachPermission) |-> Who(TRUE, FALSE, {EachPermission[i]}, "here", "managed", FALSE)]
=============================================================================
