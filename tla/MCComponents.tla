------------------------------ MODULE MCComponents ------------------------------
(* Constants for checking the components that share nothing with the session store *)
(* or with each other.  Which one a behaviour is about is chosen at its start; the *)
(* others stay as they begin.                                                      *)
EXTENDS FollowTiming, MCTerminal, BrowserFollow, BrowserObservation,
        ChainReads, FileInventory, FastScan, MCRecords

\* Limits under which a chain is stopped by its memory, its bytes, its length, or not at all.
ChainPolicies ==
    {[memory |-> 1, decoded |-> 8, steps |-> 2], [memory |-> 5, decoded |-> 8, steps |-> 2],
     [memory |-> 8, decoded |-> 7, steps |-> 3]}

\* Two volumes, each with a header that is sound and one that is not.
TwoHeaders ==
    <<{[total |-> 2, maximum |-> 2, bitmapPages |-> 1, length |-> 4],
       [total |-> 3, maximum |-> 3, bitmapPages |-> 1, length |-> 6]},
      {[total |-> 1, maximum |-> 2, bitmapPages |-> 1, length |-> 2],
       [total |-> 2, maximum |-> 2, bitmapPages |-> 1, length |-> 2]}>>

\* Read as the older format: a full heap page, a sealed catalog page, and a page of a type only
\* the other format has.
SomeEnvelopes ==
    {[intact |-> TRUE, own |-> TRUE, type |-> 2, flags |-> 0, units |-> 15],
     [intact |-> TRUE, own |-> TRUE, type |-> 9, flags |-> 1, units |-> 15],
     [intact |-> TRUE, own |-> TRUE, type |-> 14, flags |-> 3, units |-> 0],
     [intact |-> TRUE, own |-> TRUE, type |-> 14, flags |-> 0, units |-> 0]}

\* Not even the base fits; the facts must spill, and not all of them can; they fit in memory.
SomePolicies == {[memory |-> 0, spill |-> 0], [memory |-> 4, spill |-> 3], [memory |-> 8, spill |-> 0]}

VARIABLE subject

components ==
    <<vars, hostVars, browserVars, observerVars, chainVars, inventoryVars, scanVars,
      recordVars>>

ComponentsInit ==
    /\ subject \in {"timing", "terminal", "browser", "observer", "chain", "inventory", "scan",
                 "records"}
    /\ Init /\ HostInit /\ BrowserInit /\ ObserverInit /\ ChainInit /\ InventoryInit /\ ScanInit
    /\ RecordsInit
    /\ subject = "records" \/ ~following
    /\ subject = "browser" \/ (server.following /\ url = "volume")
    /\ subject = "observer" \/ place.ground = "root"

ComponentsNext ==
    /\ UNCHANGED subject
    /\ \/ subject = "timing" /\ Next
          /\ UNCHANGED <<hostVars, browserVars, observerVars, chainVars, inventoryVars, scanVars, recordVars>>
       \/ subject = "terminal" /\ HostNext
          /\ UNCHANGED <<vars, browserVars, observerVars, chainVars, inventoryVars, scanVars, recordVars>>
       \/ subject = "browser" /\ BrowserNext
          /\ UNCHANGED <<vars, hostVars, observerVars, chainVars, inventoryVars, scanVars, recordVars>>
       \/ subject = "observer" /\ ObserverNext
          /\ UNCHANGED <<vars, hostVars, browserVars, chainVars, inventoryVars, scanVars, recordVars>>
       \/ subject = "chain" /\ ChainNext
          /\ UNCHANGED <<vars, hostVars, browserVars, observerVars, inventoryVars, scanVars, recordVars>>
       \/ subject = "inventory" /\ InventoryNext
          /\ UNCHANGED <<vars, hostVars, browserVars, observerVars, chainVars, scanVars, recordVars>>
       \/ subject = "scan" /\ ScanNext
          /\ UNCHANGED <<vars, hostVars, browserVars, observerVars, chainVars, inventoryVars, recordVars>>
       \/ subject = "records" /\ RecordsNext
          /\ UNCHANGED <<vars, hostVars, browserVars, observerVars, chainVars, inventoryVars, scanVars>>

ComponentsSpec == ComponentsInit /\ [][ComponentsNext]_<<components, subject>>
===============================================================================
