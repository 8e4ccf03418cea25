------------------------------ MODULE MCTerminal ------------------------------
(* Constants for checking the terminal viewer: two volumes, two and one sector, *)
(* a grid of two by two pages of which one is slotted and one broken.           *)
EXTENDS TerminalHost

TwoVolumes == <<2, 1>>
ThreeRows == <<"structure", "record", "unsupported">>
TwoLayouts == {[columns |-> 2, rows |-> 1, list |-> 2, attributes |-> 1],
               [columns |-> 1, rows |-> 1, list |-> 1, attributes |-> 2]}
PageContent == [p \in PageSet |->
    CASE p = <<1, 0, 0>> -> "slotted"
      [] p = <<1, 1, 0>> -> "broken"
      [] OTHER -> "plain"]
===============================================================================
