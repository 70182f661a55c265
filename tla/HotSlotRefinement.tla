-------------------------- MODULE HotSlotRefinement --------------------------
(***************************************************************************)
(* The hot slot of an established group keeps the promise of HotGroup.     *)
(***************************************************************************)
EXTENDS HotSlot

\* The promise is over for a key that two nodes wrote, and for all keys with
\* the first administrative command or fault.  It is never given for keys that
\* did not exist when the group was made.
Over(k) ==
  \/ ~Undisturbed
  \/ k \notin Stored
  \/ \E n, m \in writers[k] : n # m

\* The refinement mapping.
value == [n \in Node |-> [k \in Key |->
            IF Over(k) THEN NoHash ELSE store[n][k]]]
writer == [k \in Key |-> IF Over(k) THEN {} ELSE writers[k]]
over == [k \in Key |-> Over(k)]

Promise == INSTANCE HotGroup WITH writers <- writer,
                                  Version <- 0..(MaxWrite + 1)

\* Every step of the servers is one the promise allows: a request executes a
\* write of the one node that writes the key, a sync command is applied where
\* it is newer than what is there, everything else changes no value.
KeepsPromise == Promise!Spec

\* Every write reaches every copy, deferred, replaced in the cache by a newer
\* one or sent at once.
WritesPropagate == Promise!Propagates
=============================================================================
