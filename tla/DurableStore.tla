---------------------------- MODULE DurableStore ----------------------------
(***************************************************************************)
(* What the append-only file of DrutaDB promises, without a log: the       *)
(* server has contents, and there is a set of contents a restart may bring *)
(* back.  While the record is exact, a write adds the new contents to that *)
(* set and takes away older ones, a sync leaves the present contents only, *)
(* and a crash leaves one member, which the restart finds.  Module Aof     *)
(* implements this specification.                                          *)
(***************************************************************************)
VARIABLES
  contents,  \* the nodes clients can find
  saved,     \* what a restart may bring back
  exact,     \* whether saved is known to follow contents
  up         \* whether the server runs

durableVars == <<contents, saved, exact, up>>

DurableInit ==
  /\ contents = {} /\ saved = {{}}
  /\ exact = TRUE /\ up = TRUE

\* The new contents may be saved at once or later; what is saved is never anything else
\* than contents the server had since the last sync.
Write ==
  /\ up /\ exact
  /\ contents' \in saved' /\ saved' \ {contents'} \subseteq saved
  /\ UNCHANGED <<exact, up>>

\* Whatever was saved is replaced by the present contents.
Sync ==
  /\ up
  /\ saved' = {contents} /\ exact' = TRUE
  /\ UNCHANGED <<contents, up>>

\* The contents are synced and then dropped: until the next sync a restart brings them back.
Drop ==
  /\ up /\ exact
  /\ contents' = {} /\ saved' = {contents}
  /\ UNCHANGED <<exact, up>>

\* The server stops, whether the record is exact or not, and what a restart finds is
\* decided.
Stop ==
  /\ up /\ up' = FALSE
  /\ contents' = {} /\ \E s \in saved : saved' = {s}
  /\ UNCHANGED exact

Restart ==
  /\ ~up /\ up' = TRUE
  /\ contents' \in saved
  /\ exact' \in BOOLEAN
  /\ UNCHANGED saved

\* Time passes: nodes with an expiry time go, everywhere at once.
Expire ==
  \E gone \in SUBSET UNION (saved \cup {contents}) :
    /\ \A n \in gone : n.expiry # 0
    /\ contents' = contents \ gone
    /\ saved' = {s \ gone : s \in saved}
    /\ UNCHANGED <<exact, up>>

\* Something that is not recorded happens, or has happened: nothing is promised but that
\* the server keeps running or stays down.
Drift ==
  /\ exact' = FALSE
  /\ exact => up
  /\ UNCHANGED up

DurableNext == Drift \/ Stop \/ Restart \/ Drop \/ Sync \/ Write \/ Expire

DurableSpec == DurableInit /\ [][DurableNext]_durableVars
=============================================================================
