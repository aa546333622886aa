----------------------------- MODULE Inventory -----------------------------
(***************************************************************************)
(* What an instance has, of several types, is collected again and again    *)
(* and put to a server, whole or, of what has not changed, as a hash that  *)
(* is kept in a file.  The server knows the hash of what it has and does   *)
(* not accept another one alone.  A hash stands for its content; one run   *)
(* follows another, since state configurations are enforced under a lock.  *)
(***************************************************************************)
EXTENDS Naturals, FiniteSets

CONSTANTS
    Types, Contents, Missing,
    MaxChanges,     \* bounds the changes of contents and what the server forgets
    MaxTroubles     \* bounds the failures and the crashes

VARIABLES
    content, server,        \* of each type: what the instance has, what the server has
    hashFile, torn,         \* the hashes on disk, unless a write was cut off
    contentHashStore,       \* the hashes in memory
    items,                  \* what this run has collected
    stage,
    hashes,                 \* the types whose hash is still to be kept
    status,                 \* of the last run: "compliant", "failed" or Missing
    contentChanges, troubles

disk == <<hashFile, torn>>
bounds == <<contentChanges, troubles>>
itemVars == <<content, server, disk, contentHashStore, items, stage, hashes, status, bounds>>

Empty == [i \in Types |-> Missing]
InventoryAssumption == Missing \notin Contents /\ MaxChanges \in Nat /\ MaxTroubles \in Nat

InventoryInit ==
    /\ content \in [Types -> Contents] /\ server = Empty
    /\ hashFile = Empty /\ torn = FALSE /\ contentHashStore = Empty
    /\ items = Empty /\ stage = "idle" /\ hashes = {} /\ status = Missing
    /\ contentChanges = 0 /\ troubles = 0

Trouble == troubles < MaxTroubles /\ troubles' = troubles + 1
Fine == UNCHANGED troubles

\* Contents change, and the server may lose what it had.
ContentChanges ==
    /\ contentChanges < MaxChanges /\ contentChanges' = contentChanges + 1
    /\ \E i \in Types :
          \/ \E c \in Contents \ {content[i]} :
                content' = [content EXCEPT ![i] = c] /\ UNCHANGED server
          \/ server' = [server EXCEPT ![i] = Missing] /\ UNCHANGED content
    /\ UNCHANGED <<disk, contentHashStore, items, stage, hashes, status, troubles>>

-----------------------------------------------------------------------------
Collected == {i \in Types : items[i] # Missing}

\* RunGatherers leaves out what a gatherer fails to collect.
Gathers ==
    /\ stage = "idle"
    /\ \E failing \in SUBSET Types :
          /\ IF failing = {} THEN Fine ELSE Trouble
          /\ items' = [i \in Types |-> IF i \in failing THEN Missing ELSE content[i]]
          /\ IF failing = Types THEN status' = "compliant" /\ UNCHANGED stage
             ELSE stage' = "load" /\ UNCHANGED status
    /\ UNCHANGED <<content, server, disk, contentHashStore, hashes, contentChanges>>

\* NewOptimizerImplWithLocation.
Loads ==
    /\ stage = "load" /\ stage' = "optimized"
    /\ contentHashStore' = IF torn THEN Empty ELSE hashFile
    /\ UNCHANGED <<content, server, disk, items, hashes, status, bounds>>

\* ConvertToOOSInventoryItems: what goes whole in the first request; all goes in the second.
Whole == IF stage = "optimized" THEN {i \in Collected : contentHashStore[i] # items[i]} ELSE Collected
Accepts == \A i \in Collected \ Whole : server[i] = items[i]
Puts == server' = [i \in Types |-> IF i \in Whole THEN items[i] ELSE server[i]]
Fails == stage' = "idle" /\ status' = "failed" /\ UNCHANGED hashes

\* SendDataToOOS, twice if the first request does not match what the server has.
Sends ==
    /\ stage \in {"optimized", "whole"}
    /\ \/ /\ Accepts /\ Puts /\ Fine
          /\ stage' = "update" /\ hashes' = Collected /\ UNCHANGED status
       \/ /\ Accepts /\ Puts /\ Trouble /\ Fails
       \/ /\ UNCHANGED server /\ Trouble /\ Fails
       \/ /\ UNCHANGED server
          /\ IF Accepts THEN Trouble ELSE Fine
          /\ IF stage = "optimized" THEN stage' = "whole" /\ UNCHANGED <<hashes, status>> ELSE Fails
    /\ UNCHANGED <<content, disk, contentHashStore, items, contentChanges>>

\* UpdateContentHash rewrites the file for each type.  A file that cannot be opened stays;
\* an error of the write is not looked at.
UpdateContentHash ==
    /\ stage = "update"
    /\ \E i \in hashes :
          /\ contentHashStore' = [contentHashStore EXCEPT ![i] = items[i]]
          /\ \/ Fine /\ torn' = TRUE /\ stage' = "write" /\ hashes' = hashes \ {i}
             \/ Trouble /\ UNCHANGED <<torn, stage>> /\ hashes' = hashes \ {i}
    /\ UNCHANGED <<content, server, hashFile, items, status, contentChanges>>
Writes ==
    /\ stage = "write" /\ stage' = "update"
    /\ \/ Fine /\ hashFile' = contentHashStore /\ torn' = FALSE
       \/ Trouble /\ UNCHANGED disk
    /\ UNCHANGED <<content, server, contentHashStore, items, hashes, status, contentChanges>>
Ends ==
    /\ stage = "update" /\ hashes = {}
    /\ stage' = "idle" /\ status' = "compliant"
    /\ UNCHANGED <<content, server, disk, contentHashStore, items, hashes, bounds>>

Crash ==
    /\ Trouble
    /\ stage' = "idle" /\ items' = Empty /\ contentHashStore' = Empty /\ hashes' = {}
    /\ status' = Missing
    /\ UNCHANGED <<content, server, disk, contentChanges>>

Step == Loads \/ Sends \/ UpdateContentHash \/ Writes \/ Ends
InventoryNext == ContentChanges \/ Gathers \/ Step \/ Crash

\* The timer of the state configuration fires, and its callback is scheduled.
InventoryFairness == WF_itemVars(Gathers) /\ WF_itemVars(Step)
InventorySpec == InventoryInit /\ [][InventoryNext]_itemVars
InventoryLiveSpec == InventorySpec /\ InventoryFairness

-----------------------------------------------------------------------------
InventoryTypeOK ==
    /\ content \in [Types -> Contents]
    /\ {server, hashFile, contentHashStore, items} \subseteq [Types -> Contents \cup {Missing}]
    /\ torn \in BOOLEAN /\ hashes \subseteq Collected
    /\ stage \in {"idle", "load", "optimized", "whole", "update", "write"}
    /\ status \in {"compliant", "failed", Missing}
    /\ contentChanges \in 0..MaxChanges /\ troubles \in 0..MaxTroubles

\* Once a run is about to be compliant the server has all that it collected, or has lost
\* it since, though hashes went for contents: neither a stale file, a lost answer nor a
\* content that came back hides a change.
CompliantIsKnown ==
    stage \in {"update", "write"} => \A i \in Collected : server[i] \in {items[i], Missing}

\* When contents have settled and troubles are over the server gets to know them all, and
\* keeps them.
ServerCatchesUp == <>[](server = content)
=============================================================================
