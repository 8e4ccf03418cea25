------------------------------- MODULE MCRecords -------------------------------
(* Constants for checking the interpretation of records: two heaps of which one's class     *)
(* record was relocated and the other's is too long to be read; in the sector of the first  *)
(* a page that names no class, in that of the second, as damage, a page of the first; and a *)
(* rewriting of the pages a relocation leaves and leads to, and of a page's type.           *)
EXTENDS RecordReads, TLC

HeapPage(file, class, slots) ==
    [file |-> file, type |-> "heap", class |-> class, fault |-> "none", room |-> 1, slots |-> slots]
Row(rep) == [kind |-> "home", link |-> NoRecord, rep |-> rep, describes |-> {}, fault |-> "none"]
Arrived(rep) == [Row(rep) EXCEPT !.kind = "newhome"]
Moved(to) == [Row(0) EXCEPT !.kind = "relocation", !.link = to]

Scanned ==
    3 :> [HeapPage("f", <<4, 1>>, <<Arrived(2), [Row(1) EXCEPT !.fault = "layout"]>>) EXCEPT !.room = 2] @@
    4 :> HeapPage("none", NoRecord, <<Moved(<<4, 2>>), [Arrived(2) EXCEPT !.describes = {1, 2}],
                                      [Row(0) EXCEPT !.kind = "bigone"]>>) @@
    5 :> HeapPage("f", <<4, 1>>, <<Row(1), Moved(<<3, 1>>), Moved(<<6, 1>>), Moved(<<7, 1>>)>>) @@
    6 :> HeapPage("g", <<4, 3>>, <<Row(1)>>) @@
    7 :> HeapPage("f", <<4, 1>>, <<Arrived(2)>>)

Rewritten ==
    5 :> [Scanned[5] EXCEPT !.fault = "format"] @@
    6 :> [Scanned[6] EXCEPT !.type = "other"] @@
    3 :> HeapPage("f", <<4, 3>>, <<Row(1), Arrived(1)>>) @@ Scanned

TwoDisks == 0 :> Scanned @@ 1 :> Rewritten
================================================================================
