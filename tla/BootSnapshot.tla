--------------------------- MODULE BootSnapshot ---------------------------
(***************************************************************************)
(* What the boot ConfigMap promises, without the manager behind it: a cell *)
(* with the promise that its snapshot is fit for the manager's origin key. *)
(* A promise is made for a snapshot that a Caddy has loaded under the key, *)
(* or for the key's bootstrap Caddyfile while the cell has nothing better. *)
(* Users may spoil the cell, but they can neither make nor alter a         *)
(* promise.                                                                *)
(***************************************************************************)
CONSTANTS OriginKey, Caddyfile, BootstrapCaddyfile(_), Absent

VARIABLES promise,  \* <<key, snapshot>> the cell vouches for
          intact,   \* the cell holds the snapshot it vouches for
          loaded    \* <<key, snapshot>> that some Caddy loaded

Init == promise = Absent /\ intact = FALSE /\ loaded = {}

\* A Caddy loads c, pushed under key.
Load(key, c) == loaded' = loaded \cup {<<key, c>>} /\ UNCHANGED <<promise, intact>>

\* The cell holds a snapshot for key already.
Holds(key) == intact /\ \E c \in Caddyfile : promise = <<key, c>>

Publish(key, c) ==
    /\ \/ <<key, c>> \in loaded
       \/ c = BootstrapCaddyfile(key) /\ ~Holds(key)
    /\ promise' = <<key, c>>
    /\ intact' = TRUE
    /\ UNCHANGED loaded

\* A user edits or deletes the cell.
Spoil ==
    /\ promise' \in {promise, Absent}
    /\ intact' \in BOOLEAN
    /\ promise' = Absent => ~intact'
    /\ UNCHANGED loaded

Next ==
    \/ \E key \in OriginKey, c \in Caddyfile : Load(key, c) \/ Publish(key, c)
    \/ Spoil

Spec == Init /\ [][Next]_<<promise, intact, loaded>>
===========================================================================
