---------------------------- MODULE PatternStore ----------------------------
(* What the pattern database promises its clients: a list of patterns in the *)
(* order they were registered. A load takes its files in order; a file       *)
(* counts as a whole or not at all, and one that does not compile ends the   *)
(* load. What a file means, [ok, patterns], is left to the loader.           *)
EXTENDS SequencesExt, Subsequences

VARIABLES
    store,  \* the patterns
    left    \* the meanings of the files still to be loaded

storeVars == <<store, left>>

StoreInit == store = <<>> /\ left = <<>>

(* Some files are to be loaded, whatever they mean.                          *)
StoreLoad ==
    /\ left = <<>> /\ UNCHANGED store

StoreFile ==
    /\ left # <<>>
    /\ \/ Head(left).ok /\ store' = store \o Head(left).patterns /\ left' = Tail(left)
       \/ ~Head(left).ok /\ left' = <<>> /\ UNCHANGED store

(* Of the patterns of one name the first is removed.                         *)
StoreRemove ==
    /\ left = <<>> /\ UNCHANGED left
    /\ \E i \in DOMAIN store :
         /\ \A j \in 1..i-1 : store[j].name # store[i].name
         /\ store' = RemoveAt(store, i)

StoreRemoveLibrary ==
    /\ left = <<>> /\ UNCHANGED left
    /\ \E i \in DOMAIN store :
         store' = Subsequence(store, {j \in DOMAIN store : store[j].library # store[i].library})

StoreNext == StoreLoad \/ StoreFile \/ StoreRemove \/ StoreRemoveLibrary

StoreSpec == StoreInit /\ [][StoreNext]_storeVars
=============================================================================
